---------------------------- MODULE SdkTableProofs ----------------------------
(***************************************************************************)
(* Proofs about the process that uses the SDK.  The tables that its threads*)
(* share: the object close hooks of the SDK core (CloseHooks) and the      *)
(* sessions of the media client (MediaSessions), for every number of slots *)
(* and threads.  The exceptions of a thread (CppExceptions), for every     *)
(* number of objects and copies and every depth of the stack.              *)
(***************************************************************************)
EXTENDS CloseHooks, MediaSessions, CppExceptions, Integers,
        FiniteSetTheorems, SequenceTheorems, TLAPS

-----------------------------------------------------------------------------
(* Close hooks *)

EntryType ==
  [hook : Hooks \cup {NoHook}, generation : 0..MaxHookGen, in_flight : 0..MaxInFlight,
   active : BOOLEAN, process_lifetime : BOOLEAN]

CallType == [slot : Indices, hook : Hooks, generation : 0..MaxHookGen]

TokenType == [slot : Indices, generation : 1..MaxHookGen]

HooksTypeOK ==
  /\ entries \in [Indices -> EntryType]
  /\ nextGen \in 1..MaxHookGen
  /\ exhausted \in BOOLEAN
  /\ calls \in [Closers -> Seq(CallType)]
  /\ issued \subseteq TokenType
  /\ retired \subseteq issued

(* The closers that have still to call the hook of a slot. *)
Holders(i) == {c \in Closers : \E n \in DOMAIN calls[c] : calls[c][n].slot = i}

(* What in_flight counts; a close notes a slot once. *)
CallsCounted ==
  /\ \A i \in Indices :
       IsFiniteSet(Holders(i)) /\ entries[i].in_flight = Cardinality(Holders(i))
  /\ \A c \in Closers : \A m, n \in DOMAIN calls[c] :
       calls[c][m].slot = calls[c][n].slot => m = n

(* A call is of the registration it was noted for. *)
CallsCurrent ==
  \A c \in Closers : \A n \in DOMAIN calls[c] :
    LET call == calls[c][n]
    IN  /\ entries[call.slot].hook = call.hook
        /\ entries[call.slot].generation = call.generation

(* Every generation in the table was handed out for its slot, and the next *)
(* one was not, unless the counter is exhausted.                           *)
TokensFresh ==
  /\ ~exhausted => \A k \in issued : k.generation < nextGen
  /\ \A i \in Indices : entries[i].generation # 0 =>
       [slot |-> i, generation |-> entries[i].generation] \in issued
  /\ \A k \in retired : entries[k.slot].generation # k.generation
  /\ \A i, j \in Indices :
       (i # j /\ entries[i].generation # 0) => entries[i].generation # entries[j].generation

HooksInv == HooksTypeOK /\ CallsCounted /\ CallsCurrent /\ TokensFresh

-----------------------------------------------------------------------------
(* Media sessions *)

Places == {"idle", "reset", "opening", "scan", "owner", "retire", "retiring", "lock",
           "check", "pass", "held", "unlock", "free"}

(* At the slot's row as one that waits for its lock or may make it a row   *)
(* of this process, that holds the lock, or that has it reserved.          *)
WaitingPlaces == {"lock", "opening"}
HoldingPlaces == {"check", "pass", "held", "unlock"}
ReservingPlaces == {"reset", "opening", "retiring", "unlock", "free"}

RowType ==
  [state : {Free, Live, Reserved}, lock : BOOLEAN, object : Objects \cup {NoObject},
   owner : Nat]

MediaTypeOK ==
  /\ rows \in [Slots -> RowType]
  /\ threads \in [Threads -> [pc : Places, slot : Nat, object : Objects \cup {NoObject}]]
  /\ pid \in Nat \ {0}
  /\ abandoned \subseteq Slots
  /\ \A t \in Threads : ~At(t, "idle") => SlotOf(t) \in Slots
  /\ \A i \in Slots : rows[i].owner <= pid

In(t, i, places) == SlotOf(t) = i /\ threads[t].pc \in places

(* A lock that this process can come to wait for is held by one of its     *)
(* threads: of a row that is its own, that a thread found to be its own,   *)
(* or that a thread is opening, whose lock was reset.                      *)
LocksKnown ==
  \A i \in Slots :
    rows[i].lock /\ (rows[i].owner = pid \/ \E t \in Threads : In(t, i, WaitingPlaces))
      => \E u \in Threads : In(u, i, HoldingPlaces)

(* A row that was not left reserved by a fork is reserved by some thread.  *)
ReservedKnown ==
  \A i \in Slots :
    rows[i].state = Reserved /\ i \notin abandoned
      => \E u \in Threads : In(u, i, ReservingPlaces)

MediaInv == MediaTypeOK /\ LocksKnown /\ ReservedKnown

-----------------------------------------------------------------------------
(* The invariant of the close hooks *)

\* A hook of a library is not NULL, so a slot that is called is not free, and the
\* count of a free slot is 0.
LEMMA FreeIsUncalled ==
  ASSUME HooksInv, NEW i \in Indices, entries[i].hook = NoHook
  PROVE  Holders(i) = {} /\ entries[i].in_flight = 0
<1>1. ASSUME NEW c \in Closers, NEW n \in DOMAIN calls[c], calls[c][n].slot = i
      PROVE  FALSE
  <2>1. calls[c][n] \in CallType
    BY <1>1 DEF HooksInv, HooksTypeOK
  <2>2. calls[c][n].hook \in Hooks
    BY <2>1 DEF CallType
  <2>3. entries[i].hook = calls[c][n].hook
    BY <1>1 DEF HooksInv, CallsCurrent
  <2> QED BY <2>2, <2>3, NoHookAssumption
<1>2. Holders(i) = {}
  BY <1>1 DEF Holders
<1> QED BY <1>2, FS_EmptySet DEF HooksInv, CallsCounted

\* An empty entry has no generation, no hook and no calls.
LEMMA EmptyEntryType ==
  EmptyEntry \in EntryType /\ EmptyEntry.generation = 0 /\ EmptyEntry.hook = NoHook
  /\ EmptyEntry.in_flight = 0
BY HookLimitsAssumption DEF EmptyEntry, EntryType

\* Steps that take no call: only the entries and the tokens are looked at.
LEMMA CallsSame ==
  ASSUME HooksInv, calls' = calls,
         \A i \in Indices : entries'[i].in_flight = entries[i].in_flight,
         \A i \in Indices : entries[i].hook # NoHook /\ Holders(i) # {} =>
            /\ entries'[i].hook = entries[i].hook
            /\ entries'[i].generation = entries[i].generation
  PROVE  CallsCounted' /\ CallsCurrent'
<1>1. \A i \in Indices : Holders(i)' = Holders(i)
  BY DEF Holders
<1>2. CallsCounted'
  BY <1>1 DEF HooksInv, CallsCounted
<1>3. ASSUME NEW c \in Closers, NEW n \in DOMAIN calls[c]
      PROVE  /\ entries'[calls[c][n].slot].hook = calls[c][n].hook
             /\ entries'[calls[c][n].slot].generation = calls[c][n].generation
  <2>1. calls[c][n] \in CallType
    BY <1>3 DEF HooksInv, HooksTypeOK
  <2>2. calls[c][n].slot \in Indices /\ calls[c][n].hook \in Hooks
    BY <2>1 DEF CallType
  <2>3. c \in Holders(calls[c][n].slot)
    BY <1>3 DEF Holders
  <2>4. /\ entries[calls[c][n].slot].hook = calls[c][n].hook
        /\ entries[calls[c][n].slot].generation = calls[c][n].generation
    BY <1>3 DEF HooksInv, CallsCurrent
  <2> QED BY <2>2, <2>3, <2>4, NoHookAssumption
<1> QED BY <1>2, <1>3 DEF CallsCurrent

\* Registering for the life of the process.
LEMMA RegisterForLifeKeeps ==
  ASSUME HooksInv, NEW h \in Hooks, RegisterForLife(h)
  PROVE  HooksInv'
<1> USE DEF HooksInv
<1>1. PICK i \in Indices, e \in EntryType :
         /\ entries' = [entries EXCEPT ![i] = e]
         /\ e.in_flight = entries[i].in_flight
         /\ e.generation = entries[i].generation \/ e.generation = 0
         /\ entries[i].hook # NoHook =>
              e.hook = entries[i].hook /\ e.generation = entries[i].generation
  <2>1. ASSUME NEW i \in Indices, entries[i].hook = h,
               entries' = [entries EXCEPT ![i].process_lifetime = TRUE]
        PROVE  \E e \in EntryType :
                 /\ entries' = [entries EXCEPT ![i] = e]
                 /\ e.in_flight = entries[i].in_flight
                 /\ e.generation = entries[i].generation
                 /\ e.hook = entries[i].hook
    <3>1. entries[i] \in EntryType
      BY DEF HooksTypeOK
    <3>2. [entries[i] EXCEPT !.process_lifetime = TRUE] \in EntryType
      BY <3>1 DEF EntryType
    <3> DEFINE e == [entries[i] EXCEPT !.process_lifetime = TRUE]
    <3>3. /\ e.in_flight = entries[i].in_flight /\ e.hook = entries[i].hook
          /\ e.generation = entries[i].generation
      BY <3>1 DEF EntryType
    <3>4. entries' = [entries EXCEPT ![i] = e]
      BY <2>1
    <3> QED BY <3>2, <3>3, <3>4
  <2>2. ASSUME NEW i \in Indices, FreeIndex(i),
               entries' = [entries EXCEPT ![i] =
                 [EmptyEntry EXCEPT !.hook = h, !.active = TRUE, !.process_lifetime = TRUE]]
        PROVE  \E e \in EntryType :
                 /\ entries' = [entries EXCEPT ![i] = e]
                 /\ e.in_flight = entries[i].in_flight
                 /\ e.generation = 0
    <3>1. entries[i].hook = NoHook /\ entries[i].in_flight = 0
      BY <2>2, FreeIsUncalled DEF FreeIndex
    <3> DEFINE e == [EmptyEntry EXCEPT !.hook = h, !.active = TRUE,
                                       !.process_lifetime = TRUE]
    <3>2. e \in EntryType /\ e.in_flight = 0 /\ e.generation = 0
      BY EmptyEntryType DEF EntryType
    <3>3. entries' = [entries EXCEPT ![i] = e]
      BY <2>2
    <3> HIDE DEF e
    <3> QED BY <3>1, <3>2, <3>3
  <2>3. ASSUME NEW i \in Indices, FreeIndex(i)
        PROVE  entries[i].hook = NoHook
    BY <2>3 DEF FreeIndex
  <2> QED BY <2>1, <2>2, <2>3 DEF RegisterForLife
<1>2. /\ entries' \in [Indices -> EntryType]
      /\ \A j \in Indices : entries'[j] = IF j = i THEN e ELSE entries[j]
  BY <1>1 DEF HooksTypeOK
<1>3. UNCHANGED <<nextGen, exhausted, calls, issued, retired>>
  BY DEF RegisterForLife
<1>4. CallsCounted' /\ CallsCurrent'
  BY <1>1, <1>2, <1>3, CallsSame
<1>5. \A k \in retired : k \in TokenType /\ k.generation # 0 /\ k.slot \in Indices
  BY DEF HooksTypeOK, TokenType
<1>6. TokensFresh'
  <2>1. \A j \in Indices : entries'[j].generation # 0 =>
                             entries'[j].generation = entries[j].generation
    BY <1>1, <1>2
  <2>2. \A k \in retired : entries'[k.slot].generation # k.generation
    BY <1>5, <2>1 DEF TokensFresh
  <2> QED BY <1>3, <2>1, <2>2 DEF TokensFresh
<1> QED BY <1>2, <1>3, <1>4, <1>6 DEF HooksTypeOK

\* Registering with a token: its generation is above all that were handed out.
LEMMA RegisterOwnedKeeps ==
  ASSUME HooksInv, NEW h \in Hooks, RegisterOwned(h)
  PROVE  HooksInv'
<1> USE DEF HooksInv
<1>1. PICK i \in Indices :
         /\ FreeIndex(i)
         /\ entries' = [entries EXCEPT ![i] =
              [EmptyEntry EXCEPT !.hook = h, !.generation = nextGen, !.active = TRUE]]
         /\ issued' = issued \cup {[slot |-> i, generation |-> nextGen]}
  BY DEF RegisterOwned
<1>2. /\ nextGen \in 1..MaxHookGen /\ ~exhausted
      /\ UNCHANGED <<calls, retired>>
      /\ exhausted' = (nextGen = MaxHookGen)
      /\ nextGen' = IF nextGen = MaxHookGen THEN nextGen ELSE nextGen + 1
  BY DEF RegisterOwned, NextGeneration, HooksTypeOK
<1>3. entries[i].hook = NoHook /\ Holders(i) = {} /\ entries[i].in_flight = 0
  BY <1>1, FreeIsUncalled DEF FreeIndex
<1> DEFINE e == [EmptyEntry EXCEPT !.hook = h, !.generation = nextGen, !.active = TRUE]
<1>4. e \in EntryType /\ e.in_flight = 0 /\ e.generation = nextGen
  <2>1. nextGen \in 0..MaxHookGen
    BY <1>2, HookLimitsAssumption
  <2> QED BY <2>1, EmptyEntryType DEF EntryType
<1>5. entries' = [entries EXCEPT ![i] = e]
  BY <1>1
<1> HIDE DEF e
<1>6. /\ entries' \in [Indices -> EntryType]
      /\ \A j \in Indices : entries'[j] = IF j = i THEN e ELSE entries[j]
  BY <1>4, <1>5 DEF HooksTypeOK
<1>7. CallsCounted' /\ CallsCurrent'
  BY <1>2, <1>3, <1>4, <1>6, CallsSame
<1>8. [slot |-> i, generation |-> nextGen] \in TokenType
  BY <1>2 DEF TokenType
<1>9. HooksTypeOK'
  BY <1>1, <1>2, <1>6, <1>8, HookLimitsAssumption DEF HooksTypeOK
<1>10. \A k \in issued : k \in TokenType /\ k.generation \in 1..MaxHookGen
                         /\ k.slot \in Indices
  BY DEF HooksTypeOK, TokenType
<1>11. \A k \in issued : k.generation < nextGen
  BY <1>2 DEF TokensFresh
<1>12. \A j \in Indices : entries[j].generation # 0 => entries[j].generation < nextGen
  <2> SUFFICES ASSUME NEW j \in Indices, entries[j].generation # 0
               PROVE  entries[j].generation < nextGen
    OBVIOUS
  <2>1. [slot |-> j, generation |-> entries[j].generation] \in issued
    BY DEF TokensFresh
  <2> QED BY <2>1, <1>11
<1>13. ~exhausted' => \A k \in issued' : k.generation < nextGen'
  <2> SUFFICES ASSUME nextGen # MaxHookGen, NEW k \in issued'
               PROVE  k.generation < nextGen + 1
    BY <1>2
  <2>1. CASE k \in issued
    BY <1>2, <1>10, <1>11, <2>1
  <2>2. CASE k = [slot |-> i, generation |-> nextGen]
    BY <1>2, <2>2
  <2> QED BY <1>1, <2>1, <2>2
<1>14. \A j \in Indices : entries'[j].generation # 0 =>
         [slot |-> j, generation |-> entries'[j].generation] \in issued'
  BY <1>1, <1>4, <1>6 DEF TokensFresh
<1>15. \A k \in retired : entries'[k.slot].generation # k.generation
  <2> SUFFICES ASSUME NEW k \in retired
               PROVE  entries'[k.slot].generation # k.generation
    OBVIOUS
  <2>1. k \in issued
    BY DEF HooksTypeOK
  <2>2. k.generation < nextGen /\ k.generation \in Int /\ k.slot \in Indices
    BY <1>10, <1>11, <2>1
  <2>3. entries[k.slot].generation # k.generation
    BY DEF TokensFresh
  <2> QED BY <1>2, <1>4, <1>6, <2>2, <2>3
<1>16. \A j, k \in Indices :
         (j # k /\ entries'[j].generation # 0) =>
            entries'[j].generation # entries'[k].generation
  <2> SUFFICES ASSUME NEW j \in Indices, NEW k \in Indices, j # k,
                      entries'[j].generation # 0
               PROVE  entries'[j].generation # entries'[k].generation
    OBVIOUS
  <2>1. CASE j = i
    BY <1>2, <1>4, <1>6, <1>12, <2>1
  <2>2. CASE j # i /\ k = i
    <3>1. entries'[j].generation = entries[j].generation /\ entries[j].generation # 0
      BY <1>6, <2>2
    <3>2. entries[j].generation < nextGen /\ entries[j].generation \in Int
      BY <1>12, <3>1 DEF HooksTypeOK, EntryType
    <3> QED BY <1>2, <1>4, <1>6, <2>2, <3>1, <3>2
  <2>3. CASE j # i /\ k # i
    BY <1>6, <2>3 DEF TokensFresh
  <2> QED BY <2>1, <2>2, <2>3
<1>17. TokensFresh'
  BY <1>2, <1>13, <1>14, <1>15, <1>16 DEF TokensFresh
<1> QED BY <1>7, <1>9, <1>17

\* Unregistering: an entry is freed only when nobody has to call it.
LEMMA UnregisterKeeps ==
  ASSUME HooksInv, NEW k \in issued, Unregister(k)
  PROVE  HooksInv'
<1> USE DEF HooksInv
<1>1. k \in TokenType /\ k.slot \in Indices /\ k.generation \in 1..MaxHookGen
  BY DEF HooksTypeOK, TokenType
<1>2. UNCHANGED <<nextGen, exhausted, calls, issued>>
  BY DEF Unregister
<1>3. entries[k.slot].generation = k.generation /\ entries[k.slot] \in EntryType
  BY <1>1 DEF Unregister, HooksTypeOK
<1>4. CASE /\ entries[k.slot].in_flight = 0
           /\ entries' = [entries EXCEPT ![k.slot] = EmptyEntry]
           /\ retired' = retired \cup {k}
  <2>1. /\ entries' \in [Indices -> EntryType]
        /\ \A j \in Indices : entries'[j] = IF j = k.slot THEN EmptyEntry ELSE entries[j]
    BY <1>1, <1>4, EmptyEntryType DEF HooksTypeOK
  <2>2. Holders(k.slot) = {}
    BY <1>1, <1>4, FS_EmptySet DEF CallsCounted
  <2>3. \A j \in Indices : entries'[j].in_flight = entries[j].in_flight
    BY <1>4, <2>1, EmptyEntryType
  <2>4. CallsCounted' /\ CallsCurrent'
    BY <1>1, <1>2, <2>1, <2>2, <2>3, CallsSame
  <2>5. HooksTypeOK'
    BY <1>2, <1>4, <2>1 DEF HooksTypeOK
  <2>6. \A j \in Indices : entries'[j].generation # 0 =>
          j # k.slot /\ entries'[j] = entries[j]
    BY <2>1, EmptyEntryType
  <2>7. ASSUME NEW m \in retired'
        PROVE  entries'[m.slot].generation # m.generation
    <3>1. m \in issued
      BY <1>4, <2>7 DEF HooksTypeOK
    <3>2. m.generation # 0 /\ m.slot \in Indices
      BY <3>1 DEF HooksTypeOK, TokenType
    <3>3. CASE m = k
      BY <2>6, <3>2, <3>3
    <3>4. CASE m \in retired
      BY <2>6, <3>2, <3>4 DEF TokensFresh
    <3> QED BY <1>4, <2>7, <3>3, <3>4
  <2>8. ASSUME NEW i \in Indices, NEW j \in Indices, i # j, entries'[i].generation # 0
        PROVE  entries'[i].generation # entries'[j].generation
    <3>1. entries'[i] = entries[i]
      BY <2>6, <2>8
    <3>2. CASE entries'[j].generation = 0
      BY <2>8, <3>2
    <3>3. CASE entries'[j].generation # 0
      BY <2>6, <2>8, <3>1, <3>3 DEF TokensFresh
    <3> QED BY <3>2, <3>3
  <2>9. TokensFresh'
    BY <1>2, <2>6, <2>7, <2>8 DEF TokensFresh
  <2> QED BY <2>4, <2>5, <2>9
<1>5. CASE /\ entries' = [entries EXCEPT ![k.slot].active = FALSE]
           /\ UNCHANGED retired
  <2>1. [entries[k.slot] EXCEPT !.active = FALSE] \in EntryType
    BY <1>3 DEF EntryType
  <2>2. /\ entries' \in [Indices -> EntryType]
        /\ \A j \in Indices :
             /\ entries'[j].hook = entries[j].hook
             /\ entries'[j].generation = entries[j].generation
             /\ entries'[j].in_flight = entries[j].in_flight
    BY <1>1, <1>3, <1>5, <2>1 DEF HooksTypeOK, EntryType
  <2>3. CallsCounted' /\ CallsCurrent'
    BY <1>2, <2>2, CallsSame
  <2>4. HooksTypeOK'
    BY <1>2, <1>5, <2>2 DEF HooksTypeOK
  <2>5. \A m \in retired : m.slot \in Indices
    BY DEF HooksTypeOK, TokenType
  <2>6. TokensFresh'
    BY <1>2, <1>5, <2>2, <2>5 DEF TokensFresh
  <2> QED BY <2>3, <2>4, <2>6
<1> QED BY <1>4, <1>5 DEF Unregister, MayFree

\* An order of the noted hooks, each after those of lower slots, calls each once.
LEMMA OrdersCallAll ==
  ASSUME NEW S \in SUBSET Indices, NEW f \in [1..Cardinality(S) -> S],
         \A a, b \in DOMAIN f : a < b => f[a] < f[b]
  PROVE  /\ IsFiniteSet(S) /\ Cardinality(S) \in Nat
         /\ \A a, b \in 1..Cardinality(S) : f[a] = f[b] => a = b
         /\ \A i \in S : \E n \in 1..Cardinality(S) : f[n] = i
<1>1. IsFiniteSet(Indices)
  BY HookLimitsAssumption, FS_Interval DEF Indices
<1>2. IsFiniteSet(S) /\ Cardinality(S) \in Nat
  BY <1>1, FS_Subset, FS_CardinalityType
<1>3. ASSUME NEW a \in 1..Cardinality(S), NEW b \in 1..Cardinality(S), f[a] = f[b], a # b
      PROVE  FALSE
  <2>1. f[a] \in Indices /\ f[b] \in Indices
    BY <1>3
  <2>2. f[a] \in Int /\ f[b] \in Int
    BY <2>1, HookLimitsAssumption DEF Indices
  <2>3. a < b \/ b < a
    BY <1>2, <1>3
  <2> QED BY <1>3, <2>2, <2>3
<1>4. f \in Injection(1..Cardinality(S), S)
  BY <1>3 DEF Injection, IsInjective
<1>5. IsFiniteSet(1..Cardinality(S)) /\ Cardinality(1..Cardinality(S)) = Cardinality(S)
  BY <1>2, FS_Interval
<1>6. f \in Surjection(1..Cardinality(S), S)
  BY <1>2, <1>4, <1>5, FS_Injection
<1>7. \A i \in S : \E n \in 1..Cardinality(S) : f[n] = i
  BY <1>6 DEF Surjection
<1> QED BY <1>2, <1>3, <1>7

\* A close notes the hooks that are active, and counts itself in their entries.
LEMMA BeginCloseKeeps ==
  ASSUME HooksInv, NEW c \in Closers, BeginClose(c)
  PROVE  HooksInv'
<1> USE DEF HooksInv
<1>0. PICK S \in SUBSET Indices : S = Noted
  BY DEF Noted, ActiveIndices
<1>1. PICK f \in [1..Cardinality(S) -> S] :
        /\ \A a, b \in DOMAIN f : a < b => f[a] < f[b]
        /\ calls' = [calls EXCEPT ![c] = [n \in DOMAIN f |->
             [slot |-> f[n], hook |-> entries[f[n]].hook,
              generation |-> entries[f[n]].generation]]]
  BY <1>0 DEF BeginClose
<1>2. \A i \in S : /\ entries[i] \in EntryType
                   /\ entries[i].hook \in Hooks
                   /\ entries[i].in_flight < MaxInFlight
  BY <1>0 DEF BeginClose, Noted, ActiveIndices, HooksTypeOK, EntryType
<1>3. /\ UNCHANGED <<nextGen, exhausted, issued, retired>>
      /\ calls[c] = <<>>
      /\ entries' = [i \in Indices |->
           IF i \in S THEN [entries[i] EXCEPT !.in_flight = @ + 1] ELSE entries[i]]
  BY <1>0 DEF BeginClose
<1>4. /\ IsFiniteSet(S) /\ Cardinality(S) \in Nat
      /\ \A a, b \in 1..Cardinality(S) : f[a] = f[b] => a = b
      /\ \A i \in S : \E n \in 1..Cardinality(S) : f[n] = i
  BY <1>1, OrdersCallAll
<1> DEFINE new == [n \in DOMAIN f |->
             [slot |-> f[n], hook |-> entries[f[n]].hook,
              generation |-> entries[f[n]].generation]]
<1>5. /\ new \in Seq(CallType)
      /\ DOMAIN new = 1..Cardinality(S)
      /\ \A n \in 1..Cardinality(S) :
           /\ new[n].slot = f[n]
           /\ new[n].hook = entries[f[n]].hook
           /\ new[n].generation = entries[f[n]].generation
  <2>1. \A n \in 1..Cardinality(S) : new[n] \in CallType
    BY <1>2 DEF CallType, EntryType
  <2>2. new \in [1..Cardinality(S) -> CallType]
    BY <2>1
  <2> QED BY <1>4, <2>2, SeqDef
<1>6. calls' = [calls EXCEPT ![c] = new]
  BY <1>1
<1> HIDE DEF new
<1>7. /\ calls' \in [Closers -> Seq(CallType)]
      /\ \A d \in Closers : calls'[d] = IF d = c THEN new ELSE calls[d]
  BY <1>5, <1>6 DEF HooksTypeOK
<1>8. \A i \in Indices :
        /\ entries'[i].hook = entries[i].hook
        /\ entries'[i].generation = entries[i].generation
        /\ entries'[i].in_flight =
             IF i \in S THEN entries[i].in_flight + 1 ELSE entries[i].in_flight
  BY <1>3 DEF HooksTypeOK, EntryType
<1>9. entries' \in [Indices -> EntryType]
  <2>1. \A i \in S : [entries[i] EXCEPT !.in_flight = @ + 1] \in EntryType
    <3> SUFFICES ASSUME NEW i \in S
                 PROVE  [entries[i] EXCEPT !.in_flight = @ + 1] \in EntryType
      OBVIOUS
    <3>1. entries[i] \in EntryType /\ entries[i].in_flight + 1 \in 0..MaxInFlight
      BY <1>2, HookLimitsAssumption DEF EntryType
    <3> QED BY <3>1 DEF EntryType
  <2> QED BY <1>3, <2>1 DEF HooksTypeOK
<1>10. HooksTypeOK'
  BY <1>3, <1>7, <1>9 DEF HooksTypeOK
<1>11. ASSUME NEW i \in Indices
       PROVE  /\ c \notin Holders(i)
              /\ Holders(i)' = IF i \in S THEN Holders(i) \cup {c} ELSE Holders(i)
  <2>1. DOMAIN calls[c] = {}
    BY <1>3
  <2>2. c \notin Holders(i)
    BY <2>1 DEF Holders
  <2>3. \A d \in Closers \ {c} : d \in Holders(i)' <=> d \in Holders(i)
    BY <1>7 DEF Holders
  <2>4. c \in Holders(i)' <=> i \in S
    <3>1. c \in Holders(i)' <=> \E n \in DOMAIN new : new[n].slot = i
      BY <1>7 DEF Holders
    <3>2. \A n \in 1..Cardinality(S) : f[n] \in S
      BY <1>2
    <3> QED BY <1>4, <1>5, <3>1, <3>2
  <2>5. Holders(i)' \subseteq Closers /\ Holders(i) \subseteq Closers
    BY DEF Holders
  <2>6. CASE i \in S
    <3>1. \A d : d \in Holders(i)' <=> d \in Holders(i) \cup {c}
      BY <2>3, <2>4, <2>5, <2>6
    <3> QED BY <2>2, <2>6, <3>1
  <2>7. CASE i \notin S
    <3>1. \A d : d \in Holders(i)' <=> d \in Holders(i)
      BY <2>2, <2>3, <2>4, <2>5, <2>7
    <3> QED BY <2>2, <2>7, <3>1
  <2> QED BY <2>6, <2>7
<1>12. ASSUME NEW i \in Indices
       PROVE  /\ IsFiniteSet(Holders(i)')
              /\ entries'[i].in_flight = Cardinality(Holders(i)')
  <2>1. IsFiniteSet(Holders(i)) /\ entries[i].in_flight = Cardinality(Holders(i))
    BY DEF CallsCounted
  <2>2. /\ IsFiniteSet(Holders(i) \cup {c})
        /\ Cardinality(Holders(i) \cup {c}) = Cardinality(Holders(i)) + 1
    BY <1>11, <2>1, FS_AddElement
  <2> QED BY <1>8, <1>11, <2>1, <2>2
<1>13. CallsCounted'
  BY <1>4, <1>5, <1>7, <1>12 DEF CallsCounted
<1>14. CallsCurrent'
  <2> SUFFICES ASSUME NEW d \in Closers, NEW n \in DOMAIN calls'[d]
               PROVE  /\ entries'[calls'[d][n].slot].hook = calls'[d][n].hook
                      /\ entries'[calls'[d][n].slot].generation = calls'[d][n].generation
    BY DEF CallsCurrent
  <2>1. CASE d = c
    <3>1. calls'[d] = new /\ n \in 1..Cardinality(S) /\ f[n] \in Indices
      BY <1>5, <1>7, <2>1
    <3> QED BY <1>5, <1>8, <3>1
  <2>2. CASE d # c
    <3>1. calls'[d] = calls[d] /\ calls[d][n] \in CallType
      BY <1>7, <2>2 DEF HooksTypeOK
    <3>2. calls[d][n].slot \in Indices
      BY <3>1 DEF CallType
    <3>3. /\ entries[calls[d][n].slot].hook = calls[d][n].hook
          /\ entries[calls[d][n].slot].generation = calls[d][n].generation
      BY <3>1 DEF CallsCurrent
    <3> QED BY <1>8, <3>1, <3>2, <3>3
  <2> QED BY <2>1, <2>2
<1>15. TokensFresh'
  <2>1. \A k \in retired : k.slot \in Indices
    BY DEF HooksTypeOK, TokenType
  <2> QED BY <1>3, <1>8, <2>1 DEF TokensFresh
<1> QED BY <1>10, <1>13, <1>14, <1>15

\* A hook that returns: its entry is counted down, and the next one is called.
LEMMA HookReturnsKeeps ==
  ASSUME HooksInv, NEW c \in Closers, HookReturns(c)
  PROVE  HooksInv'
<1> USE DEF HooksInv
<1>1. PICK s \in Seq(CallType) : s = calls[c] /\ s # <<>>
  BY DEF HooksTypeOK, HookReturns
<1>2. Len(s) \in Nat /\ Len(s) > 0 /\ DOMAIN s = 1..Len(s) /\ s[1] \in CallType
  BY <1>1, EmptySeq
<1>3. PICK i \in Indices : i = s[1].slot
  BY <1>2 DEF CallType
<1>4. IsFiniteSet(Holders(i)) /\ entries[i].in_flight = Cardinality(Holders(i))
  BY DEF CallsCounted
<1>5. c \in Holders(i)
  BY <1>1, <1>2, <1>3 DEF Holders
<1>6. entries[i].in_flight \in Nat \ {0} /\ entries[i] \in EntryType
  BY <1>4, <1>5, FS_EmptySet, FS_CardinalityType DEF HooksTypeOK
<1>7. Releases(entries[i], s[1])
  BY <1>1, <1>2, <1>3 DEF Releases, CallsCurrent
<1>8. entries' = [entries EXCEPT ![i].in_flight = @ - 1]
  BY <1>1, <1>3, <1>6, <1>7 DEF HookReturns
<1>9. Cardinality(DOMAIN s) = Len(s)
  BY <1>2, FS_Interval
<1> DEFINE rest == [n \in 1..(Len(s) - 1) |-> s[n + 1]]
<1>10. calls' = [calls EXCEPT ![c] = rest]
  BY <1>1, <1>9 DEF HookReturns, HooksTypeOK
<1>11. rest \in Seq(CallType) /\ DOMAIN rest = 1..(Len(s) - 1)
       /\ \A n \in 1..(Len(s) - 1) : rest[n] = s[n + 1]
  <2>1. rest \in [1..(Len(s) - 1) -> CallType]
    BY <1>2
  <2> QED BY <1>2, <2>1, SeqDef
<1> HIDE DEF rest
<1>12. /\ calls' \in [Closers -> Seq(CallType)]
       /\ \A d \in Closers : calls'[d] = IF d = c THEN rest ELSE calls[d]
  BY <1>10, <1>11 DEF HooksTypeOK
<1>13. UNCHANGED <<nextGen, exhausted, issued, retired>>
  BY DEF HookReturns
<1>14. \A j \in Indices :
         /\ entries'[j].hook = entries[j].hook
         /\ entries'[j].generation = entries[j].generation
         /\ entries'[j].in_flight =
              IF j = i THEN entries[j].in_flight - 1 ELSE entries[j].in_flight
  BY <1>8 DEF HooksTypeOK, EntryType
<1>15. entries' \in [Indices -> EntryType]
  <2>1. entries[i].in_flight - 1 \in 0..MaxInFlight
    BY <1>6, HookLimitsAssumption DEF EntryType
  <2>2. [entries[i] EXCEPT !.in_flight = @ - 1] \in EntryType
    BY <1>6, <2>1 DEF EntryType
  <2> QED BY <1>8, <2>2 DEF HooksTypeOK
<1>16. \A m, n \in 1..Len(s) : s[m].slot = s[n].slot => m = n
  BY <1>1, <1>2 DEF CallsCounted
<1>17. \A m \in 1..(Len(s) - 1) : m + 1 \in 1..Len(s) /\ m + 1 # 1
  BY <1>2
<1>18. ASSUME NEW j \in Indices
       PROVE  Holders(j)' = IF j = i THEN Holders(j) \ {c} ELSE Holders(j)
  <2>1. \A d \in Closers \ {c} : d \in Holders(j)' <=> d \in Holders(j)
    BY <1>12 DEF Holders
  <2>2. c \in Holders(j)' <=> \E n \in 1..(Len(s) - 1) : s[n + 1].slot = j
    BY <1>11, <1>12 DEF Holders
  <2>3. c \in Holders(j) <=> \E n \in 1..Len(s) : s[n].slot = j
    BY <1>1, <1>2 DEF Holders
  <2>4. CASE j = i
    <3>1. c \notin Holders(j)'
      BY <1>2, <1>3, <1>16, <1>17, <2>2, <2>4
    <3> QED BY <2>1, <2>4, <3>1 DEF Holders
  <2>5. CASE j # i
    <3>1. c \in Holders(j) => c \in Holders(j)'
      <4>1. ASSUME NEW n \in 1..Len(s), s[n].slot = j
            PROVE  n - 1 \in 1..(Len(s) - 1) /\ (n - 1) + 1 = n
        BY <1>2, <1>3, <2>5, <4>1
      <4> QED BY <2>2, <2>3, <4>1
    <3>2. c \in Holders(j)' => c \in Holders(j)
      BY <1>17, <2>2, <2>3
    <3> QED BY <2>1, <2>5, <3>1, <3>2 DEF Holders
  <2> QED BY <2>4, <2>5
<1>19. ASSUME NEW j \in Indices
       PROVE  /\ IsFiniteSet(Holders(j)')
              /\ entries'[j].in_flight = Cardinality(Holders(j)')
  <2>1. IsFiniteSet(Holders(j)) /\ entries[j].in_flight = Cardinality(Holders(j))
    BY DEF CallsCounted
  <2>2. /\ IsFiniteSet(Holders(i) \ {c})
        /\ Cardinality(Holders(i) \ {c}) = Cardinality(Holders(i)) - 1
    BY <1>4, <1>5, FS_RemoveElement
  <2> QED BY <1>14, <1>18, <2>1, <2>2
<1>20. \A m, n \in 1..(Len(s) - 1) : rest[m].slot = rest[n].slot => m = n
  <2> SUFFICES ASSUME NEW m \in 1..(Len(s) - 1), NEW n \in 1..(Len(s) - 1),
                      rest[m].slot = rest[n].slot
               PROVE  m = n
    OBVIOUS
  <2>1. m + 1 = n + 1
    BY <1>11, <1>16, <1>17
  <2> QED BY <1>2, <2>1
<1>21. CallsCounted'
  <2>1. ASSUME NEW d \in Closers, NEW m \in DOMAIN calls'[d], NEW n \in DOMAIN calls'[d],
               calls'[d][m].slot = calls'[d][n].slot
        PROVE  m = n
    <3>1. CASE d = c
      BY <1>11, <1>12, <1>20, <2>1, <3>1
    <3>2. CASE d # c
      <4>1. calls'[d] = calls[d]
        BY <1>12, <3>2
      <4> QED BY <2>1, <4>1 DEF CallsCounted
    <3> QED BY <3>1, <3>2
  <2> QED BY <1>19, <2>1 DEF CallsCounted
<1>22. CallsCurrent'
  <2> SUFFICES ASSUME NEW d \in Closers, NEW n \in DOMAIN calls'[d]
               PROVE  /\ entries'[calls'[d][n].slot].hook = calls'[d][n].hook
                      /\ entries'[calls'[d][n].slot].generation = calls'[d][n].generation
    BY DEF CallsCurrent
  <2>1. PICK m \in DOMAIN calls[d] : calls'[d][n] = calls[d][m]
    <3>1. CASE d = c
      <4>1. n \in 1..(Len(s) - 1) /\ calls'[d][n] = s[n + 1]
        BY <1>11, <1>12, <3>1
      <4> QED BY <1>1, <1>2, <1>17, <3>1, <4>1
    <3>2. CASE d # c
      BY <1>12, <3>2
    <3> QED BY <3>1, <3>2
  <2>2. calls[d][m] \in CallType
    BY DEF HooksTypeOK
  <2>3. calls[d][m].slot \in Indices
    BY <2>2 DEF CallType
  <2> QED BY <1>14, <2>1, <2>3 DEF CallsCurrent
<1>23. TokensFresh'
  <2>1. \A k \in retired : k.slot \in Indices
    BY DEF HooksTypeOK, TokenType
  <2> QED BY <1>13, <1>14, <2>1 DEF TokensFresh
<1>24. HooksTypeOK'
  BY <1>12, <1>13, <1>15 DEF HooksTypeOK
<1> QED BY <1>21, <1>22, <1>23, <1>24

\* The invariant of the close hooks holds in every state.
LEMMA HooksInvariant == HooksSpec => []HooksInv
<1>1. HooksInit => HooksInv
  <2> SUFFICES ASSUME HooksInit PROVE HooksInv
    OBVIOUS
  <2>1. \A i \in Indices : Holders(i) = {}
    BY DEF HooksInit, Holders
  <2>2. HooksTypeOK
    <3>1. nextGen \in 1..MaxHookGen
      BY HookLimitsAssumption DEF HooksInit
    <3>2. <<>> \in Seq(CallType)
      OBVIOUS
    <3> QED BY <3>1, <3>2, EmptyEntryType DEF HooksInit, HooksTypeOK
  <2>3. CallsCounted
    BY <2>1, FS_EmptySet, EmptyEntryType DEF HooksInit, CallsCounted
  <2>4. CallsCurrent
    BY DEF HooksInit, CallsCurrent
  <2>5. TokensFresh
    BY EmptyEntryType DEF HooksInit, TokensFresh
  <2> QED BY <2>2, <2>3, <2>4, <2>5 DEF HooksInv
<1>2. ASSUME HooksInv, [HooksNext]_hookVars PROVE HooksInv'
  <2>1. CASE UNCHANGED hookVars
    <3>1. HooksTypeOK' /\ TokensFresh'
      BY <1>2, <2>1 DEF hookVars, HooksInv, HooksTypeOK, TokensFresh
    <3>2. CallsCounted' /\ CallsCurrent'
      BY <1>2, <2>1, CallsSame DEF hookVars
    <3> QED BY <3>1, <3>2 DEF HooksInv
  <2> QED BY <1>2, <2>1, RegisterForLifeKeeps, RegisterOwnedKeeps, UnregisterKeeps,
             BeginCloseKeeps, HookReturnsKeeps DEF HooksNext
<1> QED BY <1>1, <1>2, PTL DEF HooksSpec

\* A library that was told its hook is unregistered can be unloaded: no close will
\* call the hook, and its token frees nothing else (rinsdk_v1.c).
THEOREM UnloadsAreSafe == HooksSpec => []UnloadIsSafe
<1>1. HooksInv => UnloadIsSafe
  <2> SUFFICES ASSUME HooksInv PROVE UnloadIsSafe
    OBVIOUS
  <2>1. ASSUME NEW c \in Closers, NEW n \in DOMAIN calls[c]
        PROVE  entries[calls[c][n].slot].in_flight > 0
    <3>1. calls[c][n] \in CallType
      BY DEF HooksInv, HooksTypeOK
    <3>2. PICK i \in Indices : i = calls[c][n].slot
      BY <3>1 DEF CallType
    <3>3. c \in Holders(i)
      BY <3>2 DEF Holders
    <3>4. IsFiniteSet(Holders(i)) /\ entries[i].in_flight = Cardinality(Holders(i))
      BY DEF HooksInv, CallsCounted
    <3>5. Cardinality(Holders(i)) \in Nat /\ Cardinality(Holders(i)) # 0
      BY <3>3, <3>4, FS_EmptySet, FS_CardinalityType
    <3> QED BY <3>2, <3>4, <3>5
  <2> QED BY <2>1 DEF HooksInv, CallsCurrent, TokensFresh, UnloadIsSafe
<1> QED BY <1>1, HooksInvariant, PTL

-----------------------------------------------------------------------------
(* The invariant of the media sessions *)

ThreadType == [pc : Places, slot : Nat, object : Objects \cup {NoObject}]

\* What a step of one thread leaves: the others are where they were.
LEMMA ThreadStep ==
  ASSUME MediaTypeOK, NEW t \in Threads, NEW th \in ThreadType,
         threads' = [threads EXCEPT ![t] = th],
         th.pc # "idle" => th.slot \in Slots
  PROVE  /\ threads' \in [Threads -> ThreadType]
         /\ threads'[t] = th
         /\ \A u \in Threads : u # t => threads'[u] = threads[u]
         /\ \A u \in Threads : ~At(u, "idle")' => SlotOf(u)' \in Slots
BY DEF MediaTypeOK, ThreadType, At, SlotOf

\* A thread that goes to another place at its slot.
LEMMA GotoStep ==
  ASSUME MediaTypeOK, NEW t \in Threads, NEW to \in Places, ~At(t, "idle"), Goto(t, to)
  PROVE  /\ threads' \in [Threads -> ThreadType]
         /\ threads'[t].pc = to
         /\ threads'[t].slot = threads[t].slot
         /\ \A u \in Threads : u # t => threads'[u] = threads[u]
         /\ \A u \in Threads : ~At(u, "idle")' => SlotOf(u)' \in Slots
<1> DEFINE th == [threads[t] EXCEPT !.pc = to]
<1>1. threads[t] \in ThreadType /\ threads[t].slot \in Slots
  BY DEF MediaTypeOK, ThreadType, At, SlotOf
<1>2. th \in ThreadType /\ th.pc = to /\ th.slot = threads[t].slot
  BY <1>1 DEF ThreadType
<1>3. threads' = [threads EXCEPT ![t] = th]
  BY DEF Goto
<1> HIDE DEF th
<1> QED BY <1>1, <1>2, <1>3, ThreadStep

\* A thread that ends, or goes on with the next slot, is past every row.
LEMMA LeaveStep ==
  ASSUME MediaTypeOK, NEW t \in Threads, Finish(t) \/ (~At(t, "idle") /\ NextSlot(t))
  PROVE  /\ threads' \in [Threads -> ThreadType]
         /\ threads'[t].pc \in {"idle", "scan"}
         /\ \A u \in Threads : u # t => threads'[u] = threads[u]
         /\ \A u \in Threads : ~At(u, "idle")' => SlotOf(u)' \in Slots
<1>1. IdleThread \in ThreadType /\ IdleThread.pc = "idle"
  BY DEF IdleThread, ThreadType, Places
<1>2. CASE Finish(t)
  BY <1>1, <1>2, ThreadStep DEF Finish
<1>3. CASE /\ SlotOf(t) + 1 \in Slots
           /\ threads' = [threads EXCEPT ![t].pc = "scan", ![t].slot = @ + 1]
  <2> DEFINE th == [threads[t] EXCEPT !.pc = "scan", !.slot = threads[t].slot + 1]
  <2>1. threads[t] \in ThreadType /\ threads[t].slot + 1 \in Nat /\ "scan" \in Places
    BY DEF MediaTypeOK, ThreadType, Places
  <2>2. th \in ThreadType /\ th.pc = "scan" /\ th.slot = threads[t].slot + 1
    BY <2>1 DEF ThreadType
  <2>3. threads' = [threads EXCEPT ![t] = th]
    BY <1>3
  <2> HIDE DEF th
  <2> QED BY <1>3, <2>2, <2>3, ThreadStep DEF SlotOf
<1> QED BY <1>2, <1>3 DEF NextSlot

\* What one thread may do to the lock, the owner and the state of one row.
Allowed(t, i, row) ==
  /\ row.owner <= pid
  /\ row.lock => \/ threads'[t].pc \in HoldingPlaces
                 \/ rows[i].lock /\ threads[t].pc \notin HoldingPlaces
  /\ row.lock /\ row.owner = pid => rows[i].owner = pid \/ threads[t].pc \in WaitingPlaces
  /\ row.lock /\ threads'[t].pc \in WaitingPlaces =>
       rows[i].owner = pid \/ threads[t].pc \in WaitingPlaces
  /\ row.state = Reserved =>
       \/ threads'[t].pc \in ReservingPlaces
       \/ rows[i].state = Reserved /\ threads[t].pc \notin ReservingPlaces

\* Such a step keeps the invariant.
LEMMA StepKeeps ==
  ASSUME MediaInv, NEW t \in Threads, NEW i \in Slots, NEW row \in RowType,
         rows' = [rows EXCEPT ![i] = row], UNCHANGED <<pid, abandoned>>,
         threads' \in [Threads -> ThreadType],
         \A u \in Threads : u # t => threads'[u] = threads[u],
         \A u \in Threads : ~At(u, "idle")' => SlotOf(u)' \in Slots,
         threads[t].pc \in {"idle", "scan"} \/ threads[t].slot = i,
         threads'[t].pc \in {"idle", "scan"} \/ threads'[t].slot = i,
         Allowed(t, i, row)
  PROVE  MediaInv'
<1> USE DEF MediaInv, Allowed
<1>1. /\ rows' \in [Slots -> RowType] /\ rows'[i] = row
      /\ \A j \in Slots : j # i => rows'[j] = rows[j]
  BY DEF MediaTypeOK
<1>2. MediaTypeOK'
  BY <1>1 DEF MediaTypeOK, ThreadType
<1>3. ASSUME NEW u \in Threads, NEW j \in Slots, u # t \/ j # i
      PROVE  /\ In(u, j, HoldingPlaces)' <=> In(u, j, HoldingPlaces)
             /\ In(u, j, WaitingPlaces)' <=> In(u, j, WaitingPlaces)
             /\ In(u, j, ReservingPlaces)' <=> In(u, j, ReservingPlaces)
  <2>1. CASE u # t
    BY <2>1 DEF In, SlotOf
  <2>2. CASE u = t /\ j # i
    BY <2>2 DEF In, SlotOf, HoldingPlaces, WaitingPlaces, ReservingPlaces
  <2> QED BY <1>3, <2>1, <2>2
<1>4. \A places \in {HoldingPlaces, WaitingPlaces, ReservingPlaces} :
        /\ In(t, i, places) <=> threads[t].pc \in places
        /\ In(t, i, places)' <=> threads'[t].pc \in places
  BY DEF In, SlotOf, HoldingPlaces, WaitingPlaces, ReservingPlaces
<1>5. LocksKnown'
  <2> SUFFICES ASSUME NEW j \in Slots, rows'[j].lock,
                      rows'[j].owner = pid' \/ \E u \in Threads : In(u, j, WaitingPlaces)'
               PROVE  \E u \in Threads : In(u, j, HoldingPlaces)'
    BY DEF LocksKnown
  <2>1. CASE j # i
    BY <1>1, <1>3, <2>1 DEF LocksKnown
  <2>2. CASE j = i /\ threads'[t].pc \in HoldingPlaces
    BY <1>4, <2>2
  <2>3. CASE j = i /\ threads'[t].pc \notin HoldingPlaces
    <3>1. rows[i].lock /\ ~In(t, i, HoldingPlaces)
      BY <1>1, <1>4, <2>3
    <3>2. rows[i].owner = pid \/ \E u \in Threads : In(u, i, WaitingPlaces)
      BY <1>1, <1>3, <1>4, <2>3
    <3>3. PICK u \in Threads : In(u, i, HoldingPlaces)
      BY <3>1, <3>2 DEF LocksKnown
    <3> QED BY <1>3, <2>3, <3>1, <3>3
  <2> QED BY <2>1, <2>2, <2>3
<1>6. ReservedKnown'
  <2> SUFFICES ASSUME NEW j \in Slots, rows'[j].state = Reserved, j \notin abandoned
               PROVE  \E u \in Threads : In(u, j, ReservingPlaces)'
    BY DEF ReservedKnown
  <2>1. CASE j # i
    BY <1>1, <1>3, <2>1 DEF ReservedKnown
  <2>2. CASE j = i /\ threads'[t].pc \in ReservingPlaces
    BY <1>4, <2>2
  <2>3. CASE j = i /\ threads'[t].pc \notin ReservingPlaces
    <3>1. rows[i].state = Reserved /\ ~In(t, i, ReservingPlaces)
      BY <1>1, <1>4, <2>3
    <3>2. PICK u \in Threads : In(u, i, ReservingPlaces)
      BY <2>3, <3>1 DEF ReservedKnown
    <3> QED BY <1>3, <2>3, <3>1, <3>2
  <2> QED BY <2>1, <2>2, <2>3
<1> QED BY <1>2, <1>5, <1>6

\* A thread that is somewhere is at a row of the table.
LEMMA AtRow ==
  ASSUME MediaInv, NEW t \in Threads, ~At(t, "idle")
  PROVE  /\ SlotOf(t) \in Slots /\ SlotOf(t) = threads[t].slot
         /\ Row(t) \in RowType /\ Row(t) = rows[SlotOf(t)] /\ Row(t).owner <= pid
         /\ pid \in Nat \ {0} /\ threads[t].object \in Objects \cup {NoObject}
         /\ rows' = rows => rows' = [rows EXCEPT ![SlotOf(t)] = Row(t)]
BY DEF MediaInv, MediaTypeOK, SlotOf, Row

\* Steps that only read: the scan of the table, the second look at a row, and the
\* failed request that finds its row reserved.  The row that "lock" waits for was
\* seen to be of this process.
LEMMA ReadKeeps ==
  ASSUME MediaInv, NEW t \in Threads,
         \/ Find(t) \/ ScanState(t) \/ ScanOwner(t) \/ Recheck(t) \/ FreeReserved(t)
         \/ Retire(t) /\ Row(t).state # Live
  PROVE  MediaInv'
<1>1. CASE Find(t)
  <2>1. PICK o \in Objects :
          threads' = [threads EXCEPT ![t] = [pc |-> "scan", slot |-> 1, object |-> o]]
    BY <1>1 DEF Find
  <2>2. [pc |-> "scan", slot |-> 1, object |-> o] \in ThreadType /\ 1 \in Slots
    BY NumSlotsAssumption DEF ThreadType, Places, Slots
  <2>3. /\ threads' \in [Threads -> ThreadType]
        /\ threads[t].pc = "idle" /\ threads'[t].pc = "scan"
        /\ \A u \in Threads : u # t => threads'[u] = threads[u]
        /\ \A u \in Threads : ~At(u, "idle")' => SlotOf(u)' \in Slots
    BY <1>1, <2>1, <2>2, ThreadStep DEF MediaInv, Find, At
  <2>4. /\ rows[1] \in RowType /\ rows[1].owner <= pid
        /\ rows' = [rows EXCEPT ![1] = rows[1]] /\ UNCHANGED <<pid, abandoned>>
    BY <1>1, <2>2 DEF Find, MediaInv, MediaTypeOK
  <2>5. Allowed(t, 1, rows[1])
    BY <2>3, <2>4 DEF Allowed, HoldingPlaces, WaitingPlaces, ReservingPlaces
  <2> QED BY <2>2, <2>3, <2>4, <2>5, StepKeeps
<1>2. CASE ~Find(t)
  <2> DEFINE i == SlotOf(t)
  <2>1. ~At(t, "idle") /\ rows' = rows /\ UNCHANGED <<pid, abandoned>>
    BY <1>2 DEF ScanState, ScanOwner, Recheck, FreeReserved, Retire, At
  <2>2. /\ threads' \in [Threads -> ThreadType]
        /\ \A u \in Threads : u # t => threads'[u] = threads[u]
        /\ \A u \in Threads : ~At(u, "idle")' => SlotOf(u)' \in Slots
        /\ threads[t].pc \in {"scan", "owner", "check", "held", "retire"}
        /\ \/ threads'[t].pc \in {"idle", "scan"} /\ threads[t].pc \in {"scan", "retire"}
           \/ /\ threads'[t].slot = i
              /\ \/ threads'[t].pc \in {"owner", "retire"} /\ threads[t].pc \in {"scan", "owner"}
                 \/ threads'[t].pc = "lock" /\ threads[t].pc = "owner" /\ rows[i].owner = pid
                 \/ threads'[t].pc \in {"held", "pass", "unlock"}
    <3>1. CASE ScanState(t)
      BY <2>1, <3>1, GotoStep, LeaveStep DEF MediaInv, ScanState, At, Places, SlotOf
    <3>2. CASE ScanOwner(t)
      BY <2>1, <3>2, GotoStep DEF MediaInv, ScanOwner, At, Places, Row, SlotOf
    <3>3. CASE Recheck(t)
      BY <2>1, <3>3, GotoStep DEF MediaInv, Recheck, At, Places, SlotOf
    <3>4. CASE FreeReserved(t)
      BY <2>1, <3>4, GotoStep DEF MediaInv, FreeReserved, At, Places, SlotOf
    <3>5. CASE Retire(t) /\ Row(t).state # Live
      BY <2>1, <3>5, LeaveStep DEF MediaInv, Retire, At
    <3> QED BY <1>2, <3>1, <3>2, <3>3, <3>4, <3>5
  <2>3. /\ i \in Slots /\ threads[t].slot = i /\ rows[i] \in RowType
        /\ rows[i].owner <= pid /\ rows' = [rows EXCEPT ![i] = rows[i]]
    BY <2>1, AtRow
  <2>4. Allowed(t, i, rows[i])
    BY <2>2, <2>3 DEF Allowed, HoldingPlaces, WaitingPlaces, ReservingPlaces
  <2>5. threads[t].pc \in {"idle", "scan"} \/ threads[t].slot = i
    BY <2>3
  <2>6. threads'[t].pc \in {"idle", "scan"} \/ threads'[t].slot = i
    BY <2>2
  <2> HIDE DEF i
  <2> QED BY <2>1, <2>2, <2>3, <2>4, <2>5, <2>6, StepKeeps
<1> QED BY <1>1, <1>2

\* A new session's row is cleared, its lock too.
LEMMA ResetKeeps ==
  ASSUME MediaInv, NEW t \in Threads, ResetReserved(t)
  PROVE  MediaInv'
<1> DEFINE i == SlotOf(t)
           row == [FreeRow EXCEPT !.state = rows[i].state]
<1>1. ~At(t, "idle") /\ threads[t].pc = "reset" /\ UNCHANGED <<pid, abandoned>>
  BY DEF ResetReserved, At
<1>2. /\ i \in Slots /\ threads[t].slot = i /\ rows[i] \in RowType /\ rows[i].owner <= pid
      /\ pid \in Nat \ {0} /\ threads[t].object \in Objects \cup {NoObject}
  BY <1>1, AtRow
<1>3. /\ row \in RowType
      /\ row.owner = 0 /\ ~row.lock
  BY <1>2 DEF RowType, Free, Live, Reserved, FreeRow
<1>4. rows' = [rows EXCEPT ![i] = row]
  BY DEF ResetReserved, SetRow, Unlock, Row
<1>5. /\ threads' \in [Threads -> ThreadType]
      /\ threads'[t].pc = "opening" /\ threads'[t].slot = i
      /\ \A u \in Threads : u # t => threads'[u] = threads[u]
      /\ \A u \in Threads : ~At(u, "idle")' => SlotOf(u)' \in Slots
  BY <1>1, GotoStep DEF ResetReserved, MediaInv, Places, SlotOf
<1> HIDE DEF i, row
<1>6. Allowed(t, i, row)
  BY <1>1, <1>2, <1>3, <1>5
  DEF Allowed, HoldingPlaces, WaitingPlaces, ReservingPlaces, Free, Live, Reserved
<1> QED BY <1>1, <1>2, <1>3, <1>4, <1>5, <1>6, StepKeeps

\* The session is published: the row is live and of this process.
LEMMA PublishKeeps ==
  ASSUME MediaInv, NEW t \in Threads, Publish(t)
  PROVE  MediaInv'
<1> DEFINE i == SlotOf(t)
           row == [rows[i] EXCEPT !.state = Live, !.object = threads[t].object, !.owner = pid]
<1>1. ~At(t, "idle") /\ threads[t].pc = "opening" /\ UNCHANGED <<pid, abandoned>>
  BY DEF Publish, At
<1>2. /\ i \in Slots /\ threads[t].slot = i /\ rows[i] \in RowType /\ rows[i].owner <= pid
      /\ pid \in Nat \ {0} /\ threads[t].object \in Objects \cup {NoObject}
  BY <1>1, AtRow
<1>3. /\ row \in RowType
      /\ row.state = Live /\ row.owner = pid /\ row.lock = rows[i].lock
  BY <1>2 DEF RowType, Free, Live, Reserved, FreeRow
<1>4. rows' = [rows EXCEPT ![i] = row]
  BY DEF Publish, SetRow, Unlock, Row
<1>5. /\ threads' \in [Threads -> ThreadType]
      /\ threads'[t].pc \in {"idle", "scan"}
      /\ \A u \in Threads : u # t => threads'[u] = threads[u]
      /\ \A u \in Threads : ~At(u, "idle")' => SlotOf(u)' \in Slots
  BY <1>1, LeaveStep DEF Publish, MediaInv
<1> HIDE DEF i, row
<1>6. Allowed(t, i, row)
  BY <1>1, <1>2, <1>3, <1>5
  DEF Allowed, HoldingPlaces, WaitingPlaces, ReservingPlaces, Free, Live, Reserved
<1> QED BY <1>1, <1>2, <1>3, <1>4, <1>5, <1>6, StepKeeps

\* The service refused: the row is given back.
LEMMA DiscardKeeps ==
  ASSUME MediaInv, NEW t \in Threads, DiscardReserved(t)
  PROVE  MediaInv'
<1> DEFINE i == SlotOf(t)
           row == [FreeRow EXCEPT !.lock = rows[i].lock]
<1>1. ~At(t, "idle") /\ threads[t].pc = "opening" /\ UNCHANGED <<pid, abandoned>>
  BY DEF DiscardReserved, At
<1>2. /\ i \in Slots /\ threads[t].slot = i /\ rows[i] \in RowType /\ rows[i].owner <= pid
      /\ pid \in Nat \ {0} /\ threads[t].object \in Objects \cup {NoObject}
  BY <1>1, AtRow
<1>3. /\ row \in RowType
      /\ row.state = Free /\ row.owner = 0 /\ row.lock = rows[i].lock
  BY <1>2 DEF RowType, Free, Live, Reserved, FreeRow
<1>4. rows' = [rows EXCEPT ![i] = row]
  BY DEF DiscardReserved, SetRow, Unlock, Row
<1>5. /\ threads' \in [Threads -> ThreadType]
      /\ threads'[t].pc \in {"idle", "scan"}
      /\ \A u \in Threads : u # t => threads'[u] = threads[u]
      /\ \A u \in Threads : ~At(u, "idle")' => SlotOf(u)' \in Slots
  BY <1>1, LeaveStep DEF DiscardReserved, MediaInv
<1> HIDE DEF i, row
<1>6. Allowed(t, i, row)
  BY <1>1, <1>2, <1>3, <1>5
  DEF Allowed, HoldingPlaces, WaitingPlaces, ReservingPlaces, Free, Live, Reserved
<1> QED BY <1>1, <1>2, <1>3, <1>4, <1>5, <1>6, StepKeeps

\* A row is reserved by the one thread that retires it.
LEMMA RetireKeeps ==
  ASSUME MediaInv, NEW t \in Threads, Retire(t), Row(t).state = Live
  PROVE  MediaInv'
<1> DEFINE i == SlotOf(t)
           row == [rows[i] EXCEPT !.state = Reserved]
<1>1. ~At(t, "idle") /\ threads[t].pc = "retire" /\ UNCHANGED <<pid, abandoned>>
  BY DEF Retire, At
<1>2. /\ i \in Slots /\ threads[t].slot = i /\ rows[i] \in RowType /\ rows[i].owner <= pid
      /\ pid \in Nat \ {0} /\ threads[t].object \in Objects \cup {NoObject}
  BY <1>1, AtRow
<1>3. /\ row \in RowType
      /\ row.owner = rows[i].owner /\ row.lock = rows[i].lock
  BY <1>2 DEF RowType, Free, Live, Reserved, FreeRow
<1>4. rows' = [rows EXCEPT ![i] = row]
  BY DEF Retire, SetRow, Unlock, Row
<1>5. /\ threads' \in [Threads -> ThreadType]
      /\ threads'[t].pc = "retiring" /\ threads'[t].slot = i
      /\ \A u \in Threads : u # t => threads'[u] = threads[u]
      /\ \A u \in Threads : ~At(u, "idle")' => SlotOf(u)' \in Slots
  BY <1>1, GotoStep DEF Retire, MediaInv, Places, SlotOf
<1> HIDE DEF i, row
<1>6. Allowed(t, i, row)
  BY <1>1, <1>2, <1>3, <1>5
  DEF Allowed, HoldingPlaces, WaitingPlaces, ReservingPlaces, Free, Live, Reserved
<1> QED BY <1>1, <1>2, <1>3, <1>4, <1>5, <1>6, StepKeeps

\* A retired row is cleared, its lock too, that a lost thread may have left.
LEMMA RetiredKeeps ==
  ASSUME MediaInv, NEW t \in Threads, Retired(t)
  PROVE  MediaInv'
<1> DEFINE i == SlotOf(t)
           row == FreeRow
<1>1. ~At(t, "idle") /\ threads[t].pc = "retiring" /\ UNCHANGED <<pid, abandoned>>
  BY DEF Retired, At
<1>2. /\ i \in Slots /\ threads[t].slot = i /\ rows[i] \in RowType /\ rows[i].owner <= pid
      /\ pid \in Nat \ {0} /\ threads[t].object \in Objects \cup {NoObject}
  BY <1>1, AtRow
<1>3. /\ row \in RowType
      /\ row.state = Free /\ row.owner = 0 /\ ~row.lock
  BY <1>2 DEF RowType, Free, Live, Reserved, FreeRow
<1>4. rows' = [rows EXCEPT ![i] = row]
  BY DEF Retired, SetRow, Unlock, Row
<1>5. /\ threads' \in [Threads -> ThreadType]
      /\ threads'[t].pc \in {"idle", "scan"}
      /\ \A u \in Threads : u # t => threads'[u] = threads[u]
      /\ \A u \in Threads : ~At(u, "idle")' => SlotOf(u)' \in Slots
  BY <1>1, LeaveStep DEF Retired, MediaInv
<1> HIDE DEF i, row
<1>6. Allowed(t, i, row)
  BY <1>1, <1>2, <1>3, <1>5
  DEF Allowed, HoldingPlaces, WaitingPlaces, ReservingPlaces, Free, Live, Reserved
<1> QED BY <1>1, <1>2, <1>3, <1>4, <1>5, <1>6, StepKeeps

\* The lock of a row is taken.
LEMMA TakeLockKeeps ==
  ASSUME MediaInv, NEW t \in Threads, TakeLock(t)
  PROVE  MediaInv'
<1> DEFINE i == SlotOf(t)
           row == [rows[i] EXCEPT !.lock = TRUE]
<1>1. ~At(t, "idle") /\ threads[t].pc = "lock" /\ UNCHANGED <<pid, abandoned>>
  BY DEF TakeLock, At
<1>2. /\ i \in Slots /\ threads[t].slot = i /\ rows[i] \in RowType /\ rows[i].owner <= pid
      /\ pid \in Nat \ {0} /\ threads[t].object \in Objects \cup {NoObject}
  BY <1>1, AtRow
<1>3. /\ row \in RowType
      /\ row.state = rows[i].state /\ row.owner = rows[i].owner
  BY <1>2 DEF RowType, Free, Live, Reserved, FreeRow
<1>4. rows' = [rows EXCEPT ![i] = row]
  BY DEF TakeLock, SetRow, Unlock, Row
<1>5. /\ threads' \in [Threads -> ThreadType]
      /\ threads'[t].pc = "check" /\ threads'[t].slot = i
      /\ \A u \in Threads : u # t => threads'[u] = threads[u]
      /\ \A u \in Threads : ~At(u, "idle")' => SlotOf(u)' \in Slots
  BY <1>1, GotoStep DEF TakeLock, MediaInv, Places, SlotOf
<1> HIDE DEF i, row
<1>6. Allowed(t, i, row)
  BY <1>1, <1>2, <1>3, <1>5
  DEF Allowed, HoldingPlaces, WaitingPlaces, ReservingPlaces, Free, Live, Reserved
<1> QED BY <1>1, <1>2, <1>3, <1>4, <1>5, <1>6, StepKeeps

\* A holder that passes on, or that was served, gives up the lock.
LEMMA UnlockKeeps ==
  ASSUME MediaInv, NEW t \in Threads, PassOn(t) \/ Served(t)
  PROVE  MediaInv'
<1> DEFINE i == SlotOf(t)
           row == [rows[i] EXCEPT !.lock = FALSE]
<1>1. ~At(t, "idle") /\ threads[t].pc \in {"pass", "held"} /\ UNCHANGED <<pid, abandoned>>
  BY DEF PassOn, Served, At
<1>2. /\ i \in Slots /\ threads[t].slot = i /\ rows[i] \in RowType /\ rows[i].owner <= pid
      /\ pid \in Nat \ {0} /\ threads[t].object \in Objects \cup {NoObject}
  BY <1>1, AtRow
<1>3. /\ row \in RowType
      /\ row.state = rows[i].state /\ row.owner = rows[i].owner /\ ~row.lock
  BY <1>2 DEF RowType, Free, Live, Reserved, FreeRow
<1>4. rows' = [rows EXCEPT ![i] = row]
  BY DEF PassOn, Served, SetRow, Unlock, Row
<1>5. /\ threads' \in [Threads -> ThreadType]
      /\ threads'[t].pc \in {"idle", "scan"}
      /\ \A u \in Threads : u # t => threads'[u] = threads[u]
      /\ \A u \in Threads : ~At(u, "idle")' => SlotOf(u)' \in Slots
  BY <1>1, LeaveStep DEF PassOn, Served, MediaInv
<1> HIDE DEF i, row
<1>6. Allowed(t, i, row)
  BY <1>1, <1>2, <1>3, <1>5
  DEF Allowed, HoldingPlaces, WaitingPlaces, ReservingPlaces, Free, Live, Reserved
<1> QED BY <1>1, <1>2, <1>3, <1>4, <1>5, <1>6, StepKeeps

\* A session is dropped by a thread that holds its lock.
LEMMA DropKeeps ==
  ASSUME MediaInv, NEW t \in Threads, Drop(t)
  PROVE  MediaInv'
<1> DEFINE i == SlotOf(t)
           row == [FreeRow EXCEPT !.state = Reserved, !.lock = rows[i].lock]
<1>1. ~At(t, "idle") /\ threads[t].pc = "held" /\ UNCHANGED <<pid, abandoned>>
  BY DEF Drop, At
<1>2. /\ i \in Slots /\ threads[t].slot = i /\ rows[i] \in RowType /\ rows[i].owner <= pid
      /\ pid \in Nat \ {0} /\ threads[t].object \in Objects \cup {NoObject}
  BY <1>1, AtRow
<1>3. /\ row \in RowType
      /\ row.owner = 0 /\ row.lock = rows[i].lock
  BY <1>2 DEF RowType, Free, Live, Reserved, FreeRow
<1>4. rows' = [rows EXCEPT ![i] = row]
  BY DEF Drop, SetRow, Unlock, Row
<1>5. /\ threads' \in [Threads -> ThreadType]
      /\ threads'[t].pc = "unlock" /\ threads'[t].slot = i
      /\ \A u \in Threads : u # t => threads'[u] = threads[u]
      /\ \A u \in Threads : ~At(u, "idle")' => SlotOf(u)' \in Slots
  BY <1>1, GotoStep DEF Drop, MediaInv, Places, SlotOf
<1> HIDE DEF i, row
<1>6. Allowed(t, i, row)
  BY <1>1, <1>2, <1>3, <1>5
  DEF Allowed, HoldingPlaces, WaitingPlaces, ReservingPlaces, Free, Live, Reserved
<1> QED BY <1>1, <1>2, <1>3, <1>4, <1>5, <1>6, StepKeeps

\* The lock of a dropped session is given up before its row.
LEMMA DropUnlockKeeps ==
  ASSUME MediaInv, NEW t \in Threads, DropUnlock(t)
  PROVE  MediaInv'
<1> DEFINE i == SlotOf(t)
           row == [rows[i] EXCEPT !.lock = FALSE]
<1>1. ~At(t, "idle") /\ threads[t].pc = "unlock" /\ UNCHANGED <<pid, abandoned>>
  BY DEF DropUnlock, At
<1>2. /\ i \in Slots /\ threads[t].slot = i /\ rows[i] \in RowType /\ rows[i].owner <= pid
      /\ pid \in Nat \ {0} /\ threads[t].object \in Objects \cup {NoObject}
  BY <1>1, AtRow
<1>3. /\ row \in RowType
      /\ row.owner = rows[i].owner /\ ~row.lock
  BY <1>2 DEF RowType, Free, Live, Reserved, FreeRow
<1>4. rows' = [rows EXCEPT ![i] = row]
  BY DEF DropUnlock, SetRow, Unlock, Row
<1>5. /\ threads' \in [Threads -> ThreadType]
      /\ threads'[t].pc = "free" /\ threads'[t].slot = i
      /\ \A u \in Threads : u # t => threads'[u] = threads[u]
      /\ \A u \in Threads : ~At(u, "idle")' => SlotOf(u)' \in Slots
  BY <1>1, GotoStep DEF DropUnlock, MediaInv, Places, SlotOf
<1> HIDE DEF i, row
<1>6. Allowed(t, i, row)
  BY <1>1, <1>2, <1>3, <1>5
  DEF Allowed, HoldingPlaces, WaitingPlaces, ReservingPlaces, Free, Live, Reserved
<1> QED BY <1>1, <1>2, <1>3, <1>4, <1>5, <1>6, StepKeeps

\* The row of a dropped session becomes free.
LEMMA DropFreeKeeps ==
  ASSUME MediaInv, NEW t \in Threads, DropFree(t)
  PROVE  MediaInv'
<1> DEFINE i == SlotOf(t)
           row == [rows[i] EXCEPT !.state = Free]
<1>1. ~At(t, "idle") /\ threads[t].pc = "free" /\ UNCHANGED <<pid, abandoned>>
  BY DEF DropFree, At
<1>2. /\ i \in Slots /\ threads[t].slot = i /\ rows[i] \in RowType /\ rows[i].owner <= pid
      /\ pid \in Nat \ {0} /\ threads[t].object \in Objects \cup {NoObject}
  BY <1>1, AtRow
<1>3. /\ row \in RowType
      /\ row.state = Free /\ row.owner = rows[i].owner /\ row.lock = rows[i].lock
  BY <1>2 DEF RowType, Free, Live, Reserved, FreeRow
<1>4. rows' = [rows EXCEPT ![i] = row]
  BY DEF DropFree, SetRow, Unlock, Row
<1>5. /\ threads' \in [Threads -> ThreadType]
      /\ threads'[t].pc \in {"idle", "scan"}
      /\ \A u \in Threads : u # t => threads'[u] = threads[u]
      /\ \A u \in Threads : ~At(u, "idle")' => SlotOf(u)' \in Slots
  BY <1>1, LeaveStep DEF DropFree, MediaInv
<1> HIDE DEF i, row
<1>6. Allowed(t, i, row)
  BY <1>1, <1>2, <1>3, <1>5
  DEF Allowed, HoldingPlaces, WaitingPlaces, ReservingPlaces, Free, Live, Reserved
<1> QED BY <1>1, <1>2, <1>3, <1>4, <1>5, <1>6, StepKeeps

\* An image's row gets its owner while it is being opened.
LEMMA OwnKeeps ==
  ASSUME MediaInv, NEW t \in Threads, OwnReserved(t)
  PROVE  MediaInv'
<1> DEFINE i == SlotOf(t)
           row == [rows[i] EXCEPT !.object = threads[t].object, !.owner = pid]
<1>1. /\ ~At(t, "idle") /\ threads[t].pc = "opening"
      /\ UNCHANGED <<threads, pid, abandoned>>
  BY DEF OwnReserved, At
<1>2. /\ i \in Slots /\ threads[t].slot = i /\ rows[i] \in RowType
      /\ pid \in Nat /\ threads[t].object \in Objects \cup {NoObject}
  BY <1>1, AtRow
<1>3. /\ row \in RowType /\ row.owner = pid
      /\ row.lock = rows[i].lock /\ row.state = rows[i].state
  BY <1>2 DEF RowType
<1>4. rows' = [rows EXCEPT ![i] = row]
  BY DEF OwnReserved, SetRow, Row
<1>5. /\ threads' \in [Threads -> ThreadType] /\ threads'[t] = threads[t]
      /\ \A u \in Threads : u # t => threads'[u] = threads[u]
      /\ \A u \in Threads : ~At(u, "idle")' => SlotOf(u)' \in Slots
  BY <1>1 DEF MediaInv, MediaTypeOK, ThreadType, At, SlotOf
<1> HIDE DEF i, row
<1>6. Allowed(t, i, row)
  BY <1>1, <1>2, <1>3, <1>5 DEF Allowed, HoldingPlaces, WaitingPlaces, ReservingPlaces
<1> QED BY <1>1, <1>2, <1>3, <1>4, <1>5, <1>6, StepKeeps

\* A free slot is taken; what was left of its lock is not yet anybody's to wait for.
LEMMA ReserveKeeps ==
  ASSUME MediaInv, NEW t \in Threads, Reserve(t)
  PROVE  MediaInv'
<1>1. PICK i \in Slots, o \in Objects :
         /\ rows[i].state = Free
         /\ rows' = [rows EXCEPT ![i].state = Reserved]
         /\ threads' = [threads EXCEPT ![t] = [pc |-> "reset", slot |-> i, object |-> o]]
  BY DEF Reserve
<1> DEFINE row == [rows[i] EXCEPT !.state = Reserved]
<1>2. threads[t].pc = "idle" /\ UNCHANGED <<pid, abandoned>>
  BY DEF Reserve, At
<1>3. /\ threads' \in [Threads -> ThreadType]
      /\ threads'[t].pc = "reset" /\ threads'[t].slot = i
      /\ \A u \in Threads : u # t => threads'[u] = threads[u]
      /\ \A u \in Threads : ~At(u, "idle")' => SlotOf(u)' \in Slots
  <2>1. [pc |-> "reset", slot |-> i, object |-> o] \in ThreadType
    BY NumSlotsAssumption DEF ThreadType, Places, Slots
  <2> QED BY <1>1, <2>1, ThreadStep DEF MediaInv
<1>4. rows[i] \in RowType /\ rows[i].owner <= pid
  BY DEF MediaInv, MediaTypeOK
<1>5. row \in RowType /\ row.owner = rows[i].owner /\ row.lock = rows[i].lock
  BY <1>4 DEF RowType
<1>6. rows' = [rows EXCEPT ![i] = row]
  BY <1>1
<1> HIDE DEF row
<1>7. Allowed(t, i, row)
  BY <1>1, <1>2, <1>3, <1>4, <1>5
  DEF Allowed, HoldingPlaces, WaitingPlaces, ReservingPlaces
<1> QED BY <1>2, <1>3, <1>4, <1>5, <1>6, <1>7, StepKeeps

\* After a fork no thread is at a row, and no row is of the new process.
LEMMA ForkKeeps ==
  ASSUME MediaInv, NEW t \in Threads, Fork(t)
  PROVE  MediaInv'
<1> USE DEF MediaInv
<1>1. /\ rows' = rows /\ pid' = pid + 1
      /\ abandoned' = {i \in Slots : rows[i].state = Reserved}
      /\ threads' = [u \in Threads |-> IdleThread]
  BY DEF Fork
<1>2. IdleThread \in ThreadType /\ IdleThread.pc = "idle"
  BY DEF IdleThread, ThreadType, Places
<1>3. /\ threads' \in [Threads -> ThreadType]
      /\ \A u \in Threads : threads'[u].pc = "idle"
  BY <1>1, <1>2
<1>4. \A i \in Slots : rows[i].owner <= pid' /\ rows[i].owner # pid'
  BY <1>1 DEF MediaTypeOK, RowType
<1>5. MediaTypeOK'
  BY <1>1, <1>3, <1>4 DEF MediaTypeOK, ThreadType, At
<1>6. LocksKnown' /\ ReservedKnown'
  BY <1>1, <1>3, <1>4 DEF LocksKnown, ReservedKnown, In, WaitingPlaces
<1> QED BY <1>5, <1>6

\* Every step of the process keeps the invariant.
LEMMA MediaNextKeeps ==
  ASSUME MediaInv, [MediaNext]_mediaVars
  PROVE  MediaInv'
<1>1. CASE UNCHANGED mediaVars
  BY <1>1 DEF mediaVars, MediaInv, MediaTypeOK, LocksKnown, ReservedKnown, In, At, SlotOf
<1>2. ASSUME NEW t \in Threads, Opening(t) PROVE MediaInv'
  BY <1>2, ReserveKeeps, ResetKeeps, OwnKeeps, PublishKeeps, DiscardKeeps DEF Opening
<1>3. ASSUME NEW t \in Threads, Finding(t) PROVE MediaInv'
  BY <1>3, ReadKeeps, RetireKeeps, RetiredKeeps, TakeLockKeeps, UnlockKeeps DEF Finding
<1>4. ASSUME NEW t \in Threads, Using(t) PROVE MediaInv'
  BY <1>4, ReadKeeps, UnlockKeeps, DropKeeps, DropUnlockKeeps, DropFreeKeeps DEF Using
<1> QED BY <1>1, <1>2, <1>3, <1>4, ForkKeeps DEF MediaNext

\* The invariant of the media sessions holds in every state.
LEMMA MediaInvariant == MediaSpec => []MediaInv
<1>1. MediaInit => MediaInv
  <2> SUFFICES ASSUME MediaInit PROVE MediaInv
    OBVIOUS
  <2>1. /\ FreeRow \in RowType
        /\ FreeRow.state = Free /\ ~FreeRow.lock /\ FreeRow.owner = 0
    BY DEF FreeRow, RowType, Free
  <2>2. IdleThread \in ThreadType /\ IdleThread.pc = "idle"
    BY DEF IdleThread, ThreadType, Places
  <2>3. \A u \in Threads : threads[u].pc = "idle"
    BY <2>2 DEF MediaInit
  <2>4. \A i \in Slots : rows[i].state = Free /\ ~rows[i].lock /\ rows[i].owner = 0
    BY <2>1 DEF MediaInit
  <2>5. MediaTypeOK
    BY <2>1, <2>2, <2>3, <2>4 DEF MediaInit, MediaTypeOK, ThreadType, At
  <2> QED BY <2>4, <2>5 DEF MediaInv, LocksKnown, ReservedKnown, Free, Reserved
<1> QED BY <1>1, MediaNextKeeps, PTL DEF MediaSpec

\* What a thread can wait for is in the hands of a thread of this process, however
\* opens, requests, closes and forks come together (rinmedia_sdk_client_v1.c).
THEOREM LocksStayHeld == MediaSpec => []LocksAreHeld
<1>1. MediaInv => LocksAreHeld
  BY DEF MediaInv, LocksKnown, ReservedKnown, LocksAreHeld, Holds, In, At,
         WaitingPlaces, HoldingPlaces, ReservingPlaces
<1> QED BY <1>1, MediaInvariant, PTL

-----------------------------------------------------------------------------
(* Exceptions: what is on the stack *)

TryType ==
  [kind : {"try"}, guard : BOOLEAN, leaving : BOOLEAN, cleanups : Seq(Things)]
ThrowType ==
  [kind : {"throw"}, frame : Nat, value : Exceptions, cleanup : BOOLEAN]
HandlerType == [kind : {"handler"}, value : Exceptions]
PlainType == [kind : {"main", "destructor"}]
ActivityType == TryType \cup ThrowType \cup HandlerType \cup PlainType

ExceptionsTypeOK ==
  /\ stack \in Seq(ActivityType)
  /\ frames \in Seq(Nat)
  /\ current \in [value : Exceptions \cup {NoException}, cleanup : BOOLEAN]
  /\ built \in [Things -> Nat]
  /\ copies \in [Exceptions -> {"none", "plain", "owned"}]

Depths == 1..Len(stack)
Tries == {p \in Depths : stack[p].kind = "try"}
Throws == {p \in Depths : stack[p].kind = "throw"}
Handlers == {p \in Depths : stack[p].kind = "handler"}

On(f, p) == \E j \in DOMAIN f : f[j] = p
Rising(f) == \A j, k \in DOMAIN f : j < k => f[j] < f[k]

\* The frames on the list are tries of the stack, the newest last.
FrameShape == Rising(frames) /\ \A p \in Nat : On(frames, p) => p \in Tries

\* A throw is above its frame, with no try and no other throw between them, and
\* what runs during its unwinding runs under a guard.
ThrowShape ==
  \A t \in Throws :
    /\ stack[t].frame \in Tries /\ stack[t].frame < t /\ ~On(frames, stack[t].frame)
    /\ \A p \in Depths : stack[t].frame < p /\ p < t => p \notin Tries /\ p \notin Throws
    /\ t < Len(stack) => t + 1 \in Tries /\ stack[t + 1].guard

\* The last try below a place is on the list, or a throw above has taken it off.
TryShape ==
  \A p \in Depths \ Throws, q \in Tries : q <= p =>
    \E r \in Tries : /\ q <= r /\ r <= p
                     /\ On(frames, r) \/ \E t \in Throws : p < t /\ stack[t].frame = r

StackShape == FrameShape /\ ThrowShape /\ TryShape

LEMMA ActivityKinds ==
  ASSUME NEW a \in ActivityType
  PROVE  /\ a.kind \in {"main", "destructor", "try", "throw", "handler"}
         /\ a.kind = "try" => a \in TryType
         /\ a.kind = "throw" => a \in ThrowType
         /\ a.kind = "handler" => a \in HandlerType
<1>1. CASE a \in TryType
  BY <1>1 DEF TryType
<1>2. CASE a \in ThrowType
  BY <1>2 DEF ThrowType
<1>3. CASE a \in HandlerType
  BY <1>3 DEF HandlerType
<1>4. CASE a \in PlainType
  BY <1>4 DEF PlainType
<1> QED BY <1>1, <1>2, <1>3, <1>4 DEF ActivityType

LEMMA OnTop ==
  ASSUME NEW f \in Seq(Nat), f # <<>>, Rising(f)
  PROVE  LET top == f[Len(f)]
             below == SubSeq(f, 1, Len(f) - 1)
         IN  /\ top \in Nat /\ On(f, top) /\ \A p : On(f, p) => p <= top
             /\ below \in Seq(Nat) /\ Rising(below)
             /\ \A p : On(below, p) <=> On(f, p) /\ p # top
<1>1. /\ Len(f) \in Nat /\ Len(f) >= 1 /\ DOMAIN f = 1..Len(f)
      /\ \A j \in 1..Len(f) : f[j] \in Nat
  BY EmptySeq, LenProperties, ElementOfSeq
<1>2. /\ SubSeq(f, 1, Len(f) - 1) \in Seq(Nat)
      /\ Len(SubSeq(f, 1, Len(f) - 1)) = Len(f) - 1
      /\ \A j \in 1..(Len(f) - 1) : SubSeq(f, 1, Len(f) - 1)[j] = f[j]
  BY <1>1, SubSeqProperties
<1>3. DOMAIN SubSeq(f, 1, Len(f) - 1) = 1..(Len(f) - 1)
  BY <1>2, LenProperties
<1>4. ASSUME NEW j \in 1..Len(f), j # Len(f) PROVE f[j] < f[Len(f)]
  <2>0. Len(f) \in Nat /\ Len(f) >= 1
    BY <1>1
  <2>1. j < Len(f) /\ Len(f) \in 1..Len(f)
    BY <1>4, <2>0
  <2>2. j \in DOMAIN f /\ Len(f) \in DOMAIN f
    BY <1>1, <2>1
  <2> QED BY <2>1, <2>2 DEF Rising
<1>5. /\ f[Len(f)] \in Nat /\ On(f, f[Len(f)])
      /\ \A p : On(f, p) => p <= f[Len(f)]
  <2>1. Len(f) \in 1..Len(f) /\ f[Len(f)] \in Nat
    BY <1>1
  <2>2. On(f, f[Len(f)])
    BY <1>1, <2>1 DEF On
  <2>3. ASSUME NEW j \in DOMAIN f PROVE f[j] <= f[Len(f)]
    <3>1. j \in 1..Len(f) /\ f[j] \in Nat
      BY <1>1, <2>3
    <3> QED BY <1>4, <2>1, <3>1
  <2> QED BY <2>1, <2>2, <2>3 DEF On
<1>6. Rising(SubSeq(f, 1, Len(f) - 1))
  BY <1>1, <1>2, <1>3 DEF Rising
<1>7. \A p : On(SubSeq(f, 1, Len(f) - 1), p) <=> On(f, p) /\ p # f[Len(f)]
  <2>1. \A j : j \in 1..(Len(f) - 1) <=> j \in 1..Len(f) /\ j # Len(f)
    BY <1>1
  <2>2. ASSUME NEW j \in 1..(Len(f) - 1) PROVE f[j] # f[Len(f)]
    <3>1. j \in 1..Len(f) /\ f[j] < f[Len(f)]
      BY <1>4, <2>1
    <3> QED BY <1>1, <1>5, <3>1
  <2> QED BY <1>1, <1>2, <1>3, <2>1, <2>2 DEF On
<1> QED BY <1>2, <1>5, <1>6, <1>7

LEMMA OnAppended ==
  ASSUME NEW f \in Seq(Nat), Rising(f), NEW n \in Nat, \A p : On(f, p) => p < n
  PROVE  /\ Append(f, n) \in Seq(Nat) /\ Rising(Append(f, n))
         /\ \A p : On(Append(f, n), p) <=> On(f, p) \/ p = n
<1>1. /\ Append(f, n) \in Seq(Nat) /\ Len(f) \in Nat /\ DOMAIN f = 1..Len(f)
      /\ DOMAIN Append(f, n) = 1..(Len(f) + 1)
      /\ \A j \in 1..Len(f) : Append(f, n)[j] = f[j]
      /\ Append(f, n)[Len(f) + 1] = n
  BY AppendProperties, LenProperties
<1>2. \A j : j \in 1..(Len(f) + 1) <=> j \in 1..Len(f) \/ j = Len(f) + 1
  BY <1>1
<1>3. \A j \in 1..Len(f) : f[j] < n /\ f[j] \in Nat
  BY <1>1, ElementOfSeq DEF On
<1>4. Rising(Append(f, n))
  BY <1>1, <1>2, <1>3 DEF Rising
<1>5. \A p : On(Append(f, n), p) <=> On(f, p) \/ p = n
  BY <1>1, <1>2 DEF On
<1> QED BY <1>1, <1>4, <1>5

\* Where a frame that is on top of the list is.
LEMMA LastTry ==
  ASSUME ExceptionsTypeOK, StackShape, stack # <<>>, Here \notin Throws
  PROVE  /\ Here \in Depths /\ Len(stack) \in Nat
         /\ \A q \in Tries : frames # <<>> /\ q <= TopFrame
         /\ frames # <<>> => TopFrame \in Tries /\ On(frames, TopFrame)
         /\ Here \in Tries => TopFrame = Here
<1>1. Here \in Depths /\ Len(stack) \in Nat
  BY EmptySeq, LenProperties DEF ExceptionsTypeOK, Here, Depths
<1>2. frames # <<>> =>
        /\ TopFrame \in Nat /\ On(frames, TopFrame)
        /\ \A p : On(frames, p) => p <= TopFrame
  BY OnTop DEF ExceptionsTypeOK, StackShape, FrameShape, TopFrame
<1>3. ASSUME NEW q \in Tries PROVE frames # <<>> /\ q <= TopFrame
  <2>1. q \in Int /\ q <= Here
    BY <1>1 DEF Tries, Depths, Here
  <2>2. PICK r \in Tries : /\ q <= r
                           /\ On(frames, r) \/ \E t \in Throws : Here < t
    BY <1>1, <2>1 DEF StackShape, TryShape
  <2>3. On(frames, r) /\ r \in Int
    BY <1>1, <2>2 DEF Throws, Tries, Depths, Here
  <2>4. frames # <<>>
    BY <2>3 DEF On
  <2> QED BY <1>2, <2>1, <2>2, <2>3, <2>4
<1>4. frames # <<>> => TopFrame \in Tries /\ On(frames, TopFrame)
  BY <1>2 DEF StackShape, FrameShape
<1>5. Here \in Tries => TopFrame = Here
  <2>1. \A q \in Tries : q \in Int /\ q <= Here
    BY <1>1 DEF Tries, Depths, Here
  <2> QED BY <1>3, <1>4, <2>1
<1> QED BY <1>1, <1>3, <1>4, <1>5

\* What a step does to the stack, the cleanups of its frames apart.
Above == Len(stack) + 1

Alike(p) ==
  IF stack[p].kind = "try"
    THEN stack'[p].kind = "try" /\ stack'[p].guard = stack[p].guard
    ELSE stack'[p] = stack[p]

Stays == Len(stack') = Len(stack) /\ \A p \in Depths : Alike(p)

Grows(x) ==
  Len(stack') = Above /\ stack'[Above] = x /\ \A p \in Depths : Alike(p)

Shrinks == Len(stack') = Len(stack) - 1 /\ \A p \in Depths : p # Here => Alike(p)

CutTo(i, x) ==
  Len(stack') = i /\ stack'[i] = x /\ \A p \in Depths : p < i => Alike(p)

LEMMA PlacesTyped ==
  ASSUME ExceptionsTypeOK
  PROVE  /\ Len(stack) \in Nat
         /\ \A p \in Depths : p \in Nat /\ 1 <= p /\ p <= Len(stack) /\ stack[p] \in ActivityType
         /\ stack # <<>> => Here \in Depths /\ Here = Len(stack) /\ Len(stack) >= 1
         /\ Tries \subseteq Depths /\ Throws \subseteq Depths /\ Handlers \subseteq Depths
<1>1. Len(stack) \in Nat
  BY LenProperties DEF ExceptionsTypeOK
<1>2. \A p \in Depths : stack[p] \in ActivityType
  BY ElementOfSeq DEF ExceptionsTypeOK, Depths
<1>3. \A p \in Depths : p \in Nat /\ 1 <= p /\ p <= Len(stack)
  BY <1>1 DEF Depths
<1>4. stack # <<>> => Len(stack) >= 1
  BY <1>1, EmptySeq DEF ExceptionsTypeOK
<1> QED BY <1>1, <1>2, <1>3, <1>4 DEF Depths, Here, Tries, Throws, Handlers

LEMMA AlikeKinds ==
  ASSUME NEW p, Alike(p)
  PROVE  /\ stack'[p].kind = stack[p].kind
         /\ stack[p].kind = "try" => stack'[p].guard = stack[p].guard
         /\ stack[p].kind # "try" => stack'[p] = stack[p]
  BY DEF Alike

LEMMA GrownPlaces ==
  ASSUME ExceptionsTypeOK, NEW x, Grows(x)
  PROVE  /\ Above \in Nat /\ Above \notin Depths /\ \A p \in Depths : p < Above
         /\ \A p : p \in Depths' <=> p \in Depths \/ p = Above
         /\ \A p : p \in Tries' <=> p \in Tries \/ (p = Above /\ x.kind = "try")
         /\ \A p : p \in Throws' <=> p \in Throws \/ (p = Above /\ x.kind = "throw")
         /\ \A p : p \in Handlers' <=> p \in Handlers \/ (p = Above /\ x.kind = "handler")
         /\ \A p \in Tries : stack'[p].guard = stack[p].guard
         /\ \A p \in Depths : p \notin Tries => stack'[p] = stack[p]
         /\ stack'[Above] = x
<1>1. Len(stack) \in Nat /\ Len(stack') = Len(stack) + 1
  BY PlacesTyped DEF Grows, Above
<1>2. /\ Above \in Nat /\ Above \notin Depths /\ \A p \in Depths : p < Above
      /\ \A p : p \in Depths' <=> p \in Depths \/ p = Above
  BY <1>1 DEF Depths, Above
<1>3. \A p \in Depths : /\ stack'[p].kind = stack[p].kind
                        /\ stack[p].kind = "try" => stack'[p].guard = stack[p].guard
                        /\ stack[p].kind # "try" => stack'[p] = stack[p]
  BY AlikeKinds DEF Grows
<1>4. stack'[Above] = x
  BY DEF Grows
<1> QED BY <1>2, <1>3, <1>4 DEF Tries, Throws, Handlers

LEMMA ShapeGrows ==
  ASSUME ExceptionsTypeOK, StackShape, stack # <<>>, NEW x, Grows(x),
         \/ x.kind = "try" /\ frames' = Append(frames, Above) /\ (Here \in Throws => x.guard)
         \/ x.kind = "destructor" /\ frames' = frames /\ Here \notin Throws
         \/ /\ x.kind = "throw" /\ frames # <<>> /\ x.frame = TopFrame
            /\ frames' = FramesBelow /\ Here \notin Throws
  PROVE  frames' \in Seq(Nat) /\ StackShape'
<1>1. /\ Above \in Nat /\ Above \notin Depths /\ \A p \in Depths : p < Above
      /\ \A p : p \in Depths' <=> p \in Depths \/ p = Above
      /\ \A p : p \in Tries' <=> p \in Tries \/ (p = Above /\ x.kind = "try")
      /\ \A p : p \in Throws' <=> p \in Throws \/ (p = Above /\ x.kind = "throw")
      /\ \A p \in Tries : stack'[p].guard = stack[p].guard
      /\ \A p \in Depths : p \notin Tries => stack'[p] = stack[p]
      /\ stack'[Above] = x
  BY GrownPlaces
<1>2. /\ Len(stack) \in Nat /\ Len(stack') = Len(stack) + 1 /\ Above = Len(stack) + 1
      /\ Here = Len(stack) /\ Here \in Depths
      /\ \A p \in Depths : p \in Nat /\ p <= Len(stack)
      /\ Tries \subseteq Depths /\ Throws \subseteq Depths
  BY PlacesTyped DEF Grows, Above
<1>3. /\ FrameShape /\ Rising(frames) /\ frames \in Seq(Nat)
      /\ \A p : On(frames, p) => p \in Nat /\ p \in Tries
  <2>1. \A p : On(frames, p) => p \in Nat
    BY ElementOfSeq, LenProperties DEF ExceptionsTypeOK, On
  <2> QED BY <2>1 DEF StackShape, FrameShape, ExceptionsTypeOK
<1>4. Here \notin Throws =>
        /\ \A q \in Tries : frames # <<>> /\ q <= TopFrame
        /\ frames # <<>> => TopFrame \in Tries /\ On(frames, TopFrame)
  BY LastTry
<1>5. /\ frames' \in Seq(Nat) /\ Rising(frames')
      /\ \A p : On(frames', p) <=> \/ On(frames, p) /\ ~(x.kind = "throw" /\ p = TopFrame)
                                   \/ x.kind = "try" /\ p = Above
  <2>1. CASE x.kind = "try" /\ frames' = Append(frames, Above)
    <3>1. \A p : On(frames, p) => p < Above
      BY <1>1, <1>2, <1>3
    <3> QED BY <1>1, <1>3, <2>1, <3>1, OnAppended
  <2>2. CASE x.kind = "destructor" /\ frames' = frames
    BY <1>3, <2>2
  <2>3. CASE x.kind = "throw" /\ frames # <<>> /\ frames' = FramesBelow
    BY <1>3, <2>3, OnTop DEF TopFrame, FramesBelow
  <2> QED BY <2>1, <2>2, <2>3
<1>6. FrameShape'
  BY <1>1, <1>3, <1>5 DEF FrameShape
<1>7. ThrowShape'
  <2> SUFFICES ASSUME NEW t \in Throws'
               PROVE  /\ stack'[t].frame \in Tries' /\ stack'[t].frame < t
                      /\ ~On(frames', stack'[t].frame)
                      /\ \A p \in Depths' : stack'[t].frame < p /\ p < t =>
                           p \notin Tries' /\ p \notin Throws'
                      /\ t < Len(stack') => t + 1 \in Tries' /\ stack'[t + 1].guard
    BY DEF ThrowShape
  <2>1. CASE t \in Throws
    <3>1. /\ stack[t].frame \in Tries /\ stack[t].frame < t /\ ~On(frames, stack[t].frame)
          /\ \A p \in Depths : stack[t].frame < p /\ p < t => p \notin Tries /\ p \notin Throws
          /\ t < Len(stack) => t + 1 \in Tries /\ stack[t + 1].guard
      BY <2>1 DEF StackShape, ThrowShape
    <3>2. stack'[t] = stack[t] /\ t \in Depths /\ t < Above
      BY <1>1, <1>2, <2>1 DEF Tries, Throws
    <3>3. ~On(frames', stack[t].frame)
      BY <1>1, <1>2, <1>5, <3>1
    <3>4. \A p \in Depths' : stack[t].frame < p /\ p < t => p \notin Tries' /\ p \notin Throws'
      BY <1>1, <1>2, <3>1, <3>2
    <3>5. t < Len(stack') => t + 1 \in Tries' /\ stack'[t + 1].guard
      <4>1. CASE t = Here
        BY <1>1, <1>2, <2>1, <4>1
      <4>2. CASE t # Here
        <5>1. t < Len(stack)
          BY <1>2, <3>2, <4>2
        <5> QED BY <1>1, <3>1, <5>1
      <4> QED BY <4>1, <4>2
    <3> QED BY <1>1, <3>1, <3>2, <3>3, <3>4, <3>5
  <2>2. CASE t = Above /\ x.kind = "throw"
    <3>1. /\ Here \notin Throws /\ frames # <<>> /\ x.frame = TopFrame
          /\ TopFrame \in Tries /\ \A q \in Tries : q <= TopFrame
      BY <1>4, <2>2
    <3>2. ~On(frames', TopFrame)
      BY <1>1, <1>2, <1>5, <2>2, <3>1
    <3>3. ASSUME NEW p \in Depths', TopFrame < p, p < Above
          PROVE  p \notin Tries' /\ p \notin Throws'
      <4>1. p \in Depths /\ p \notin Tries
        BY <1>1, <1>2, <3>1, <3>3
      <4>2. ASSUME p \in Throws PROVE FALSE
        <5>1. p < Len(stack)
          BY <1>2, <3>1, <4>1, <4>2
        <5>2. p + 1 \in Tries
          BY <4>2, <5>1 DEF StackShape, ThrowShape
        <5> QED BY <1>2, <3>1, <3>3, <4>1, <5>2
      <4> QED BY <1>1, <3>3, <4>1, <4>2
    <3> QED BY <1>1, <1>2, <2>2, <3>1, <3>2, <3>3
  <2> QED BY <1>1, <2>1, <2>2
<1>8. TryShape'
  <2> SUFFICES ASSUME NEW p \in Depths' \ Throws', NEW q \in Tries', q <= p
               PROVE  \E r \in Tries' :
                        /\ q <= r /\ r <= p
                        /\ On(frames', r) \/ \E t \in Throws' : p < t /\ stack'[t].frame = r
    BY DEF TryShape
  <2>1. CASE p \in Depths
    <3>1. p \in Depths \ Throws /\ q \in Tries
      BY <1>1, <1>2, <2>1
    <3>2. PICK r \in Tries :
            /\ q <= r /\ r <= p
            /\ On(frames, r) \/ \E t \in Throws : p < t /\ stack[t].frame = r
      BY <3>1 DEF StackShape, TryShape
    <3>3. CASE On(frames', r)
      BY <1>1, <3>2, <3>3
    <3>4. CASE \E t \in Throws : p < t /\ stack[t].frame = r
      <4>1. PICK t \in Throws : p < t /\ stack[t].frame = r
        BY <3>4
      <4>2. stack'[t] = stack[t]
        BY <1>1, <1>2 DEF Tries, Throws
      <4> QED BY <1>1, <3>2, <4>1, <4>2
    <3>5. CASE x.kind = "throw" /\ r = TopFrame
      <4>1. Above \in Throws' /\ p < Above /\ stack'[Above].frame = r
        BY <1>1, <2>1, <3>5
      <4> QED BY <1>1, <3>2, <4>1
    <3> QED BY <1>5, <3>2, <3>3, <3>4, <3>5
  <2>2. CASE p = Above /\ x.kind = "try"
    BY <1>1, <1>2, <1>5, <2>2
  <2>3. CASE p = Above /\ x.kind = "destructor"
    <3>1. q \in Tries /\ Here \notin Throws
      BY <1>1, <2>3
    <3>2. /\ q <= TopFrame /\ TopFrame \in Tries /\ On(frames', TopFrame)
      BY <1>4, <1>5, <2>3, <3>1
    <3>3. TopFrame <= p
      BY <1>1, <1>2, <2>3, <3>2
    <3> QED BY <1>1, <3>2, <3>3
  <2> QED BY <1>1, <2>1, <2>2, <2>3
<1> QED BY <1>5, <1>6, <1>7, <1>8 DEF StackShape

LEMMA StayingPlaces ==
  ASSUME ExceptionsTypeOK, Stays
  PROVE  /\ Len(stack') = Len(stack) /\ Depths' = Depths
         /\ Tries' = Tries /\ Throws' = Throws /\ Handlers' = Handlers
         /\ \A p \in Tries : stack'[p].guard = stack[p].guard
         /\ \A p \in Depths : p \notin Tries => stack'[p] = stack[p]
<1>1. Len(stack') = Len(stack) /\ Depths' = Depths
  BY DEF Stays, Depths
<1>2. \A p \in Depths : /\ stack'[p].kind = stack[p].kind
                        /\ stack[p].kind = "try" => stack'[p].guard = stack[p].guard
                        /\ stack[p].kind # "try" => stack'[p] = stack[p]
  BY AlikeKinds DEF Stays
<1> QED BY <1>1, <1>2 DEF Tries, Throws, Handlers

LEMMA ShapeStays ==
  ASSUME ExceptionsTypeOK, StackShape, Stays, frames' = frames
  PROVE  StackShape'
<1>1. /\ Len(stack') = Len(stack) /\ Depths' = Depths /\ Tries' = Tries /\ Throws' = Throws
      /\ \A p \in Tries : stack'[p].guard = stack[p].guard
      /\ \A t \in Throws : stack'[t] = stack[t]
  BY StayingPlaces DEF Tries, Throws
<1>2. FrameShape'
  BY <1>1 DEF StackShape, FrameShape
<1>3. ThrowShape'
  <2> SUFFICES ASSUME NEW t \in Throws
               PROVE  /\ stack'[t].frame \in Tries /\ stack'[t].frame < t
                      /\ ~On(frames, stack'[t].frame)
                      /\ \A p \in Depths : stack'[t].frame < p /\ p < t =>
                           p \notin Tries /\ p \notin Throws
                      /\ t < Len(stack) => t + 1 \in Tries /\ stack'[t + 1].guard
    BY <1>1 DEF ThrowShape
  <2> QED BY <1>1 DEF StackShape, ThrowShape
<1>4. TryShape'
  BY <1>1 DEF StackShape, TryShape
<1> QED BY <1>2, <1>3, <1>4 DEF StackShape

LEMMA ShrunkPlaces ==
  ASSUME ExceptionsTypeOK, stack # <<>>, Shrinks
  PROVE  /\ \A p : p \in Depths' <=> p \in Depths /\ p # Here
         /\ \A p : p \in Tries' <=> p \in Tries /\ p # Here
         /\ \A p : p \in Throws' <=> p \in Throws /\ p # Here
         /\ \A p : p \in Handlers' <=> p \in Handlers /\ p # Here
         /\ \A p \in Tries : p # Here => stack'[p].guard = stack[p].guard
         /\ \A p \in Depths : p \notin Tries /\ p # Here => stack'[p] = stack[p]
<1>1. Len(stack) \in Nat /\ Len(stack') = Len(stack) - 1 /\ Here = Len(stack)
  BY PlacesTyped DEF Shrinks
<1>2. \A p : p \in Depths' <=> p \in Depths /\ p # Here
  BY <1>1 DEF Depths
<1>3. \A p \in Depths : p # Here =>
        /\ stack'[p].kind = stack[p].kind
        /\ stack[p].kind = "try" => stack'[p].guard = stack[p].guard
        /\ stack[p].kind # "try" => stack'[p] = stack[p]
  BY AlikeKinds DEF Shrinks
<1> QED BY <1>2, <1>3 DEF Tries, Throws, Handlers

LEMMA ShapeShrinks ==
  ASSUME ExceptionsTypeOK, StackShape, stack # <<>>, Shrinks, Here \notin Throws,
         IF Here \in Tries THEN frames' = FramesBelow ELSE frames' = frames
  PROVE  frames' \in Seq(Nat) /\ StackShape'
<1>1. /\ \A p : p \in Depths' <=> p \in Depths /\ p # Here
      /\ \A p : p \in Tries' <=> p \in Tries /\ p # Here
      /\ \A p : p \in Throws' <=> p \in Throws
      /\ \A p \in Tries : p # Here => stack'[p].guard = stack[p].guard
      /\ \A p \in Depths : p \notin Tries /\ p # Here => stack'[p] = stack[p]
  BY ShrunkPlaces
<1>2. /\ Len(stack) \in Nat /\ Len(stack') = Len(stack) - 1
      /\ Here = Len(stack) /\ Here \in Depths
      /\ \A p \in Depths : p \in Nat /\ p <= Len(stack)
      /\ Tries \subseteq Depths /\ Throws \subseteq Depths
  BY PlacesTyped DEF Shrinks
<1>3. \A t \in Throws : t \in Depths /\ t < Len(stack) /\ stack'[t] = stack[t]
  <2>1. \A t \in Throws : t \in Depths /\ t # Here /\ t \notin Tries
    BY DEF Throws, Tries
  <2> QED BY <1>1, <1>2, <2>1
<1>4. Here \in Tries => frames # <<>> /\ TopFrame = Here
  BY LastTry
<1>5. /\ Rising(frames) /\ frames \in Seq(Nat)
      /\ \A p : On(frames, p) => p \in Nat /\ p \in Tries
  <2>1. \A p : On(frames, p) => p \in Nat
    BY ElementOfSeq, LenProperties DEF ExceptionsTypeOK, On
  <2> QED BY <2>1 DEF StackShape, FrameShape, ExceptionsTypeOK
<1>6. /\ frames' \in Seq(Nat) /\ Rising(frames')
      /\ \A p : On(frames', p) <=> On(frames, p) /\ p # Here
  <2>1. CASE Here \in Tries
    <3>1. frames # <<>> /\ TopFrame = Here /\ frames' = FramesBelow
      BY <1>4, <2>1
    <3>2. /\ FramesBelow \in Seq(Nat) /\ Rising(FramesBelow)
          /\ \A p : On(FramesBelow, p) <=> On(frames, p) /\ p # TopFrame
      BY <1>5, <3>1, OnTop DEF TopFrame, FramesBelow
    <3> QED BY <3>1, <3>2
  <2>2. CASE Here \notin Tries
    BY <1>5, <2>2
  <2> QED BY <2>1, <2>2
<1>7. FrameShape'
  BY <1>1, <1>5, <1>6 DEF FrameShape
<1>8. ThrowShape'
  <2> SUFFICES ASSUME NEW t \in Throws
               PROVE  /\ stack'[t].frame \in Tries' /\ stack'[t].frame < t
                      /\ ~On(frames', stack'[t].frame)
                      /\ \A p \in Depths' : stack'[t].frame < p /\ p < t =>
                           p \notin Tries' /\ p \notin Throws'
                      /\ t < Len(stack') => t + 1 \in Tries' /\ stack'[t + 1].guard
    BY <1>1 DEF ThrowShape
  <2>1. /\ stack[t].frame \in Tries /\ stack[t].frame < t /\ ~On(frames, stack[t].frame)
        /\ \A p \in Depths : stack[t].frame < p /\ p < t => p \notin Tries /\ p \notin Throws
        /\ t < Len(stack) => t + 1 \in Tries /\ stack[t + 1].guard
    BY DEF StackShape, ThrowShape
  <2>2. stack[t].frame \in Tries'
    BY <1>1, <1>2, <1>3, <2>1
  <2>3. t < Len(stack') => t + 1 \in Tries' /\ stack'[t + 1].guard
    <3> SUFFICES ASSUME t < Len(stack') PROVE t + 1 \in Tries' /\ stack'[t + 1].guard
      OBVIOUS
    <3>1. t + 1 # Here /\ t < Len(stack)
      BY <1>2, <1>3
    <3> QED BY <1>1, <2>1, <3>1
  <2> QED BY <1>1, <1>3, <1>6, <2>1, <2>2, <2>3
<1>9. TryShape'
  <2> SUFFICES ASSUME NEW p \in Depths' \ Throws', NEW q \in Tries', q <= p
               PROVE  \E r \in Tries' :
                        /\ q <= r /\ r <= p
                        /\ On(frames', r) \/ \E t \in Throws' : p < t /\ stack'[t].frame = r
    BY DEF TryShape
  <2>1. p \in Depths \ Throws /\ q \in Tries /\ p # Here
    BY <1>1
  <2>2. PICK r \in Tries :
          /\ q <= r /\ r <= p
          /\ On(frames, r) \/ \E t \in Throws : p < t /\ stack[t].frame = r
    BY <2>1 DEF StackShape, TryShape
  <2>3. r # Here
    BY <1>2, <2>1, <2>2
  <2>4. On(frames', r) \/ \E t \in Throws' : p < t /\ stack'[t].frame = r
    BY <1>1, <1>3, <1>6, <2>2, <2>3
  <2> QED BY <1>1, <2>2, <2>3, <2>4
<1> QED BY <1>6, <1>7, <1>8, <1>9 DEF StackShape

\* A handler takes the place of the frame that was unwound; what was above it
\* is gone.
LEMMA CutPlaces ==
  ASSUME ExceptionsTypeOK, NEW i \in Depths, NEW x, CutTo(i, x), x.kind = "handler"
  PROVE  /\ \A p : p \in Depths' <=> p \in Depths /\ p <= i
         /\ \A p : p \in Tries' <=> p \in Tries /\ p < i
         /\ \A p : p \in Throws' <=> p \in Throws /\ p < i
         /\ \A p : p \in Handlers' <=> p = i \/ (p \in Handlers /\ p < i)
         /\ \A p \in Tries : p < i => stack'[p].guard = stack[p].guard
         /\ \A p \in Depths : p \notin Tries /\ p < i => stack'[p] = stack[p]
         /\ stack'[i] = x
<1>1. /\ Len(stack) \in Nat /\ Len(stack') = i /\ i \in Nat /\ 1 <= i /\ i <= Len(stack)
      /\ stack'[i] = x
  BY PlacesTyped DEF CutTo
<1>2. \A p : p \in Depths' <=> p \in Depths /\ p <= i
  BY <1>1 DEF Depths
<1>3. \A p \in Depths : p < i =>
        /\ stack'[p].kind = stack[p].kind
        /\ stack[p].kind = "try" => stack'[p].guard = stack[p].guard
        /\ stack[p].kind # "try" => stack'[p] = stack[p]
  BY AlikeKinds DEF CutTo
<1>4. \A p \in Depths : p <= i <=> p < i \/ p = i
  BY <1>1, PlacesTyped
<1> QED BY <1>1, <1>2, <1>3, <1>4 DEF Tries, Throws, Handlers

LEMMA ShapeCut ==
  ASSUME ExceptionsTypeOK, StackShape, stack # <<>>, Here \in Throws,
         ~stack[stack[Here].frame].guard, frames' = frames,
         NEW x, CutTo(stack[Here].frame, x), x.kind = "handler"
  PROVE  StackShape'
<1> DEFINE i == stack[Here].frame
<1>1. /\ Len(stack) \in Nat /\ Here = Len(stack) /\ Here \in Depths
      /\ \A p \in Depths : p \in Nat /\ p <= Len(stack)
      /\ Tries \subseteq Depths /\ Throws \subseteq Depths
  BY PlacesTyped
<1>2. /\ i \in Tries /\ i < Here /\ ~On(frames, i) /\ ~stack[i].guard
      /\ \A p \in Depths : i < p /\ p < Here => p \notin Tries /\ p \notin Throws
  BY DEF StackShape, ThrowShape
<1>3. CutTo(i, x)
  OBVIOUS
<1> HIDE DEF i
<1>4. /\ \A p : p \in Depths' <=> p \in Depths /\ p <= i
      /\ \A p : p \in Tries' <=> p \in Tries /\ p < i
      /\ \A p : p \in Throws' <=> p \in Throws /\ p < i
      /\ \A p \in Tries : p < i => stack'[p].guard = stack[p].guard
      /\ \A p \in Depths : p \notin Tries /\ p < i => stack'[p] = stack[p]
      /\ Len(stack') = i
  BY <1>1, <1>2, <1>3, CutPlaces DEF CutTo
<1>5. \A t \in Throws : t \notin Tries
  BY DEF Throws, Tries
<1>6. \A p \in Tries \cup Throws : p < i \/ p = i \/ p = Here
  BY <1>1, <1>2
<1>7. \A t \in Throws : t < i \/ t = Here
  BY <1>2, <1>5, <1>6
<1>8. \A p : On(frames, p) => p \in Nat /\ p \in Tries /\ p < i
  <2>1. \A p : On(frames, p) => p \in Nat
    BY ElementOfSeq, LenProperties DEF ExceptionsTypeOK, On
  <2>2. Here \notin Tries
    BY <1>5
  <2> QED BY <1>2, <1>6, <2>1, <2>2 DEF StackShape, FrameShape
<1>9. FrameShape'
  BY <1>4, <1>8 DEF StackShape, FrameShape
<1>10. ThrowShape'
  <2> SUFFICES ASSUME NEW t \in Throws, t < i
               PROVE  /\ stack'[t].frame \in Tries' /\ stack'[t].frame < t
                      /\ ~On(frames, stack'[t].frame)
                      /\ \A p \in Depths' : stack'[t].frame < p /\ p < t =>
                           p \notin Tries' /\ p \notin Throws'
                      /\ t < Len(stack') => t + 1 \in Tries' /\ stack'[t + 1].guard
    BY <1>4 DEF ThrowShape
  <2>1. /\ stack[t].frame \in Tries /\ stack[t].frame < t /\ ~On(frames, stack[t].frame)
        /\ \A p \in Depths : stack[t].frame < p /\ p < t => p \notin Tries /\ p \notin Throws
        /\ t < Len(stack) => t + 1 \in Tries /\ stack[t + 1].guard
    BY DEF StackShape, ThrowShape
  <2>2. stack'[t] = stack[t] /\ t \in Nat /\ t < Len(stack)
    BY <1>1, <1>2, <1>4, <1>5
  <2>3. t + 1 \in Tries /\ t + 1 < i /\ stack'[t + 1].guard
    <3>1. t + 1 \in Tries /\ stack[t + 1].guard
      BY <2>1, <2>2
    <3>2. t + 1 # i
      BY <1>2, <3>1
    <3>3. t + 1 < i
      BY <1>1, <1>2, <2>2, <3>2
    <3> QED BY <1>4, <3>1, <3>3
  <2>4. stack[t].frame \in Tries'
    <3>1. stack[t].frame \in Nat /\ i \in Nat
      BY <1>1, <1>2, <2>1
    <3>2. stack[t].frame < i
      BY <2>1, <2>2, <3>1
    <3> QED BY <1>4, <2>1, <3>2
  <2> QED BY <1>4, <2>1, <2>2, <2>3, <2>4
<1>11. TryShape'
  <2> SUFFICES ASSUME NEW p \in Depths' \ Throws', NEW q \in Tries', q <= p
               PROVE  \E r \in Tries' :
                        /\ q <= r /\ r <= p
                        /\ On(frames, r) \/ \E t \in Throws' : p < t /\ stack'[t].frame = r
    BY DEF TryShape
  <2>1. p \in Depths /\ p <= i /\ q \in Tries /\ q < i
    BY <1>4
  <2>2. CASE p < i
    <3>1. p \in Depths \ Throws
      BY <1>4, <2>1, <2>2
    <3>2. PICK r \in Tries :
            /\ q <= r /\ r <= p
            /\ On(frames, r) \/ \E t \in Throws : p < t /\ stack[t].frame = r
      BY <2>1, <3>1 DEF StackShape, TryShape
    <3>3. r < i
      BY <1>1, <1>2, <2>1, <2>2, <3>2
    <3>4. \A t \in Throws : stack[t].frame = r => t < i /\ stack'[t] = stack[t]
      BY <1>1, <1>2, <1>4, <1>5, <1>7, <3>3 DEF i
    <3> QED BY <1>4, <3>2, <3>3, <3>4
  <2>3. CASE p = i
    <3>1. i - 1 \in Depths /\ i - 1 < i /\ q <= i - 1
      BY <1>1, <1>2, <2>1 DEF Depths
    <3>2. i - 1 \notin Throws
      <4> SUFFICES ASSUME i - 1 \in Throws PROVE FALSE
        OBVIOUS
      <4>1. i - 1 < Len(stack) /\ (i - 1) + 1 = i
        BY <1>1, <1>2
      <4>2. stack[(i - 1) + 1].guard
        BY <4>1 DEF StackShape, ThrowShape
      <4> QED BY <1>2, <4>1, <4>2
    <3>3. PICK r \in Tries :
            /\ q <= r /\ r <= i - 1
            /\ On(frames, r) \/ \E t \in Throws : i - 1 < t /\ stack[t].frame = r
      BY <2>1, <3>1, <3>2 DEF StackShape, TryShape
    <3>4. r < i
      BY <1>1, <1>2, <3>3
    <3>5. \A t \in Throws : i - 1 < t => stack[t].frame = i
      <4> SUFFICES ASSUME NEW t \in Throws, i - 1 < t PROVE t = Here
        BY DEF i
      <4>1. ~(t < i)
        BY <1>1, <1>2
      <4> QED BY <1>7, <4>1
    <3>6. On(frames, r) /\ r <= p
      BY <1>1, <1>2, <2>3, <3>3, <3>4, <3>5
    <3> QED BY <1>4, <3>3, <3>4, <3>6
  <2> QED BY <1>1, <1>2, <2>1, <2>2, <2>3
<1> QED BY <1>9, <1>10, <1>11 DEF StackShape

\* Taking a note off a frame.
Once(notes) == \A k, m \in DOMAIN notes : notes[k] = notes[m] => k = m

LEMMA WithoutNoteFacts ==
  ASSUME NEW notes \in Seq(Things), NEW k \in DOMAIN notes, Once(notes)
  PROVE  /\ WithoutNote(notes, k) \in Seq(Things) /\ Once(WithoutNote(notes, k))
         /\ \A o : (\E m \in DOMAIN WithoutNote(notes, k) : WithoutNote(notes, k)[m] = o)
                     <=> (\E m \in DOMAIN notes : notes[m] = o) /\ o # notes[k]
<1> DEFINE less == WithoutNote(notes, k)
<1>1. /\ Len(notes) \in Nat /\ DOMAIN notes = 1..Len(notes)
      /\ \A m \in 1..Len(notes) : notes[m] \in Things
  BY LenProperties, ElementOfSeq
<1>2. k \in 1..Len(notes) /\ Len(notes) - 1 \in Nat
  BY <1>1
<1>3. /\ DOMAIN less = 1..(Len(notes) - 1)
      /\ \A m \in 1..(Len(notes) - 1) :
           less[m] = IF m < k THEN notes[m] ELSE notes[m + 1]
  BY DEF WithoutNote
<1>4. \A m \in 1..(Len(notes) - 1) : m \in 1..Len(notes) /\ m + 1 \in 1..Len(notes)
  BY <1>2
<1>5. \A m \in 1..(Len(notes) - 1) : less[m] \in Things
  BY <1>1, <1>3, <1>4
<1>6. less \in Seq(Things)
  <2>1. less = [m \in 1..(Len(notes) - 1) |-> less[m]]
    BY DEF WithoutNote
  <2> HIDE DEF less
  <2> QED BY <1>2, <1>5, <2>1, SeqDef
<1> HIDE DEF less
<1>7. \A j, m \in 1..Len(notes) : notes[j] = notes[m] => j = m
  BY <1>1 DEF Once
<1>8. ASSUME NEW j \in 1..(Len(notes) - 1), NEW m \in 1..(Len(notes) - 1), less[j] = less[m]
      PROVE  j = m
  <2>1. CASE j < k /\ m < k
    BY <1>3, <1>4, <1>7, <1>8, <2>1
  <2>2. CASE j < k /\ ~(m < k)
    <3>1. j = m + 1
      BY <1>3, <1>4, <1>7, <1>8, <2>2
    <3> QED BY <1>2, <2>2, <3>1
  <2>3. CASE ~(j < k) /\ m < k
    <3>1. j + 1 = m
      BY <1>3, <1>4, <1>7, <1>8, <2>3
    <3> QED BY <1>2, <2>3, <3>1
  <2>4. CASE ~(j < k) /\ ~(m < k)
    <3>1. j + 1 = m + 1
      BY <1>3, <1>4, <1>7, <1>8, <2>4
    <3> QED BY <3>1
  <2> QED BY <2>1, <2>2, <2>3, <2>4
<1>9. Once(less)
  BY <1>3, <1>8 DEF Once
<1>10. ASSUME NEW m \in 1..(Len(notes) - 1)
       PROVE  \E j \in 1..Len(notes) : j # k /\ notes[j] = less[m]
  <2>1. CASE m < k
    BY <1>2, <1>3, <1>4, <2>1
  <2>2. CASE ~(m < k)
    <3>1. m + 1 # k
      BY <1>2, <2>2
    <3> QED BY <1>3, <1>4, <2>2, <3>1
  <2> QED BY <2>1, <2>2
<1>11. ASSUME NEW j \in 1..Len(notes), j # k
       PROVE  \E m \in 1..(Len(notes) - 1) : less[m] = notes[j]
  <2>1. CASE j < k
    <3>1. j \in 1..(Len(notes) - 1)
      BY <1>2, <2>1
    <3> QED BY <1>3, <2>1, <3>1
  <2>2. CASE ~(j < k)
    <3>1. j - 1 \in 1..(Len(notes) - 1) /\ ~(j - 1 < k) /\ (j - 1) + 1 = j
      BY <1>2, <1>11, <2>2
    <3> QED BY <1>3, <3>1
  <2> QED BY <2>1, <2>2
<1>12. \A o : (\E m \in 1..(Len(notes) - 1) : less[m] = o)
                 <=> (\E m \in 1..Len(notes) : notes[m] = o) /\ o # notes[k]
  <2>1. ASSUME NEW m \in 1..(Len(notes) - 1)
        PROVE  (\E j \in 1..Len(notes) : notes[j] = less[m]) /\ less[m] # notes[k]
    <3>1. PICK j \in 1..Len(notes) : j # k /\ notes[j] = less[m]
      BY <1>10
    <3> QED BY <1>2, <1>7, <3>1
  <2>2. ASSUME NEW j \in 1..Len(notes), notes[j] # notes[k]
        PROVE  \E m \in 1..(Len(notes) - 1) : less[m] = notes[j]
    BY <1>11, <2>2
  <2> QED BY <2>1, <2>2
<1>13. \A o : (\E m \in DOMAIN less : less[m] = o)
                <=> (\E m \in DOMAIN notes : notes[m] = o) /\ o # notes[k]
  BY <1>1, <1>3, <1>12
<1> QED BY <1>6, <1>9, <1>13 DEF less

\* The try around a place: the last one at or below it.
Noter(q, p) == q \in Tries /\ q <= p /\ \A r \in Tries : r <= p => r <= q

\* An object that is alive is noted once, by the try around where it was built.
TrueNotes ==
  \A q \in Tries, o \in Things : Notes(q, o) <=> built[o] # 0 /\ Noter(q, built[o])

BuiltSomewhere == \A o \in Things : built[o] # 0 => built[o] \in Depths \ Throws

NotesInv ==
  /\ TrueNotes /\ BuiltSomewhere
  /\ \A q \in Tries : Once(stack[q].cleanups)

LEMMA TriesTyped ==
  ASSUME ExceptionsTypeOK
  PROVE  /\ \A q \in Tries : /\ q \in Nat /\ stack[q] \in TryType
                             /\ stack[q].cleanups \in Seq(Things)
         /\ \A t \in Throws : stack[t] \in ThrowType
         /\ \A h \in Handlers : stack[h] \in HandlerType
<1>1. \A p \in Depths : p \in Nat /\ stack[p] \in ActivityType
  BY PlacesTyped
<1>2. ASSUME NEW q \in Tries PROVE q \in Nat /\ stack[q] \in TryType /\ stack[q].cleanups \in Seq(Things)
  BY <1>1, ActivityKinds DEF Tries, TryType
<1>3. ASSUME NEW t \in Throws PROVE stack[t] \in ThrowType
  BY <1>1, ActivityKinds DEF Throws
<1>4. ASSUME NEW h \in Handlers PROVE stack[h] \in HandlerType
  BY <1>1, ActivityKinds DEF Handlers
<1> QED BY <1>2, <1>3, <1>4

\* A step that builds nothing, and after which some of the objects are dead.
LEMMA NotesSurvive ==
  ASSUME ExceptionsTypeOK, NotesInv, NEW taken \in SUBSET Things,
         \A o \in Things : built'[o] = IF o \in taken THEN 0 ELSE built[o],
         \A o \in Things \ taken : built[o] # 0 =>
           /\ built[o] \in Depths' \ Throws'
           /\ \A q \in Tries \cup Tries' : q <= built[o] => (q \in Tries' <=> q \in Tries),
         \A q \in Tries' :
           /\ q \in Tries => \A o \in Things : Notes(q, o)' <=> Notes(q, o) /\ o \notin taken
           /\ q \notin Tries => \A o \in Things : ~Notes(q, o)'
           /\ Once(stack'[q].cleanups)
  PROVE  NotesInv'
<1>1. BuiltSomewhere'
  BY DEF BuiltSomewhere
<1>2. ASSUME NEW q \in Tries', NEW o \in Things
      PROVE  (Notes(q, o) <=> built[o] # 0 /\ Noter(q, built[o]))'
  <2>1. CASE o \in taken
    BY <2>1
  <2>2. CASE o \notin taken /\ built[o] = 0
    BY <2>2 DEF NotesInv, TrueNotes
  <2>3. CASE o \notin taken /\ built[o] # 0
    <3>1. /\ built'[o] = built[o]
          /\ \A r \in Tries \cup Tries' : r <= built[o] => (r \in Tries' <=> r \in Tries)
      BY <2>3
    <3>2. CASE q \in Tries
      <4>1. Notes(q, o)' <=> Noter(q, built[o])
        BY <2>3, <3>2 DEF NotesInv, TrueNotes
      <4>2. Noter(q, built[o])' <=> Noter(q, built[o])
        BY <3>1, <3>2 DEF Noter
      <4> QED BY <2>3, <3>1, <4>1, <4>2
    <3>3. CASE q \notin Tries
      <4>1. ~Notes(q, o)'
        BY <3>3
      <4>2. ~(q <= built'[o])
        BY <3>1, <3>3
      <4>3. ~Noter(q, built[o])'
        BY <4>2 DEF Noter
      <4> QED BY <4>1, <4>3
    <3> QED BY <3>2, <3>3
  <2> QED BY <2>1, <2>2, <2>3
<1>3. TrueNotes'
  BY <1>2 DEF TrueNotes
<1> QED BY <1>1, <1>3 DEF NotesInv

\* A frame loses one note: no other frame has a note of that object.
LEMMA NoteTaken ==
  ASSUME ExceptionsTypeOK, NotesInv, NEW i \in Tries,
         NEW k \in DOMAIN stack[i].cleanups,
         stack'[i].cleanups = WithoutNote(stack[i].cleanups, k),
         \A q \in Tries : q # i => stack'[q].cleanups = stack[q].cleanups
  PROVE  LET o == stack[i].cleanups[k]
         IN  /\ o \in Things /\ built[o] # 0 /\ stack'[i].cleanups \in Seq(Things)
             /\ \A q \in Tries :
                  /\ \A a \in Things : Notes(q, a)' <=> Notes(q, a) /\ a \notin {o}
                  /\ Once(stack'[q].cleanups)
<1> DEFINE o == stack[i].cleanups[k]
<1>1. \A q \in Tries : q \in Nat /\ stack[q].cleanups \in Seq(Things) /\ Once(stack[q].cleanups)
  BY TriesTyped DEF NotesInv
<1>2. /\ stack'[i].cleanups \in Seq(Things) /\ Once(stack'[i].cleanups)
      /\ \A a : Notes(i, a)' <=> Notes(i, a) /\ a # o
  <2>1. /\ stack'[i].cleanups \in Seq(Things) /\ Once(stack'[i].cleanups)
        /\ \A a : (\E m \in DOMAIN stack'[i].cleanups : stack'[i].cleanups[m] = a)
                     <=> (\E m \in DOMAIN stack[i].cleanups : stack[i].cleanups[m] = a) /\ a # o
    <3> DEFINE notes == stack[i].cleanups
    <3>1. notes \in Seq(Things) /\ Once(notes) /\ k \in DOMAIN notes
      BY <1>1
    <3>2. stack'[i].cleanups = WithoutNote(notes, k)
      OBVIOUS
    <3>3. o = notes[k]
      OBVIOUS
    <3> HIDE DEF notes, o
    <3>4. /\ WithoutNote(notes, k) \in Seq(Things) /\ Once(WithoutNote(notes, k))
          /\ \A a : (\E m \in DOMAIN WithoutNote(notes, k) : WithoutNote(notes, k)[m] = a)
                     <=> (\E m \in DOMAIN notes : notes[m] = a) /\ a # notes[k]
      BY <3>1, WithoutNoteFacts
    <3> QED BY <3>2, <3>3, <3>4 DEF notes
  <2> HIDE DEF o
  <2>2. \A a : Notes(i, a)' <=> \E m \in DOMAIN stack'[i].cleanups : stack'[i].cleanups[m] = a
    BY DEF Notes
  <2>3. \A a : Notes(i, a) <=> \E m \in DOMAIN stack[i].cleanups : stack[i].cleanups[m] = a
    BY DEF Notes
  <2> QED BY <2>1, <2>2, <2>3
<1>3. o \in Things /\ Notes(i, o)
  <2>1. DOMAIN stack[i].cleanups = 1..Len(stack[i].cleanups)
    BY <1>1, LenProperties
  <2> QED BY <1>1, <2>1, ElementOfSeq DEF Notes
<1> HIDE DEF o
<1>4. built[o] # 0 /\ Noter(i, built[o])
  BY <1>3 DEF NotesInv, TrueNotes
<1>5. ASSUME NEW q \in Tries, q # i, Notes(q, o) PROVE FALSE
  <2>1. Noter(q, built[o])
    BY <1>3, <1>5 DEF NotesInv, TrueNotes
  <2>2. q <= i /\ i <= q
    BY <1>4, <2>1 DEF Noter
  <2> QED BY <1>1, <1>5, <2>2
<1>6. ASSUME NEW q \in Tries
      PROVE  /\ \A a \in Things : Notes(q, a)' <=> Notes(q, a) /\ a \notin {o}
             /\ Once(stack'[q].cleanups)
  <2>1. CASE q = i
    BY <1>2, <2>1
  <2>2. CASE q # i
    <3>1. stack'[q].cleanups = stack[q].cleanups
      BY <2>2
    <3>2. \A a : Notes(q, a)' <=> Notes(q, a)
      BY <3>1 DEF Notes
    <3> QED BY <1>1, <1>5, <2>2, <3>1, <3>2
  <2> QED BY <2>1, <2>2
<1> QED BY <1>2, <1>3, <1>4, <1>6 DEF o

\* What a step that takes notes away leaves of them.
LosesNotesOf(taken) ==
  /\ \A o \in Things : built'[o] = IF o \in taken THEN 0 ELSE built[o]
  /\ \A q \in Tries \cap Tries' :
       /\ \A o \in Things : Notes(q, o)' <=> Notes(q, o) /\ o \notin taken
       /\ Once(stack'[q].cleanups)

LEMMA NothingTaken ==
  ASSUME ExceptionsTypeOK, NotesInv, built' = built,
         \A q \in Tries \cap Tries' : stack'[q].cleanups = stack[q].cleanups
  PROVE  LosesNotesOf({})
<1>1. ASSUME NEW q \in Tries \cap Tries'
      PROVE  /\ \A o \in Things : Notes(q, o)' <=> Notes(q, o)
             /\ Once(stack'[q].cleanups)
  BY DEF NotesInv, Notes
<1> QED BY <1>1 DEF LosesNotesOf

LEMMA NotesStay ==
  ASSUME ExceptionsTypeOK, NotesInv, Stays, NEW taken \in SUBSET Things, LosesNotesOf(taken)
  PROVE  NotesInv'
<1>1. Depths' = Depths /\ Tries' = Tries /\ Throws' = Throws
  BY StayingPlaces
<1>2. \A o \in Things : built[o] # 0 => built[o] \in Depths \ Throws
  BY DEF NotesInv, BuiltSomewhere
<1>3. \A q \in Tries' : q \in Tries
  BY <1>1
<1>4. \A o \in Things : built'[o] = IF o \in taken THEN 0 ELSE built[o]
  BY DEF LosesNotesOf
<1>5. \A q \in Tries' :
        /\ q \in Tries => \A o \in Things : Notes(q, o)' <=> Notes(q, o) /\ o \notin taken
        /\ q \notin Tries => \A o \in Things : ~Notes(q, o)'
        /\ Once(stack'[q].cleanups)
  <2>1. \A q \in Tries \cap Tries' :
          /\ \A o \in Things : Notes(q, o)' <=> Notes(q, o) /\ o \notin taken
          /\ Once(stack'[q].cleanups)
    BY DEF LosesNotesOf
  <2> QED BY <1>3, <2>1
<1>6. \A o \in Things \ taken : built[o] # 0 =>
        /\ built[o] \in Depths' \ Throws'
        /\ \A q \in Tries \cup Tries' : q <= built[o] => (q \in Tries' <=> q \in Tries)
  BY <1>1, <1>2
<1> QED BY <1>4, <1>5, <1>6, NotesSurvive

LEMMA NotesGrow ==
  ASSUME ExceptionsTypeOK, NotesInv, NEW x, Grows(x), x.kind = "try" => x.cleanups = <<>>,
         NEW taken \in SUBSET Things, LosesNotesOf(taken)
  PROVE  NotesInv'
<1>1. /\ Above \in Nat /\ Above \notin Depths /\ \A p \in Depths : p < Above /\ p \in Nat
      /\ \A p : p \in Depths' <=> p \in Depths \/ p = Above
      /\ \A p : p \in Tries' <=> p \in Tries \/ (p = Above /\ x.kind = "try")
      /\ \A p : p \in Throws' <=> p \in Throws \/ (p = Above /\ x.kind = "throw")
      /\ stack'[Above] = x
  BY GrownPlaces, PlacesTyped
<1>2. ASSUME NEW o \in Things, built[o] # 0
      PROVE  /\ built[o] \in Depths' \ Throws'
             /\ \A q \in Tries \cup Tries' : q <= built[o] => (q \in Tries' <=> q \in Tries)
  <2>1. built[o] \in Depths \ Throws
    BY <1>2 DEF NotesInv, BuiltSomewhere
  <2>2. built[o] \in Depths' \ Throws'
    BY <1>1, <2>1
  <2>3. ~(Above <= built[o])
    BY <1>1, <2>1
  <2> QED BY <1>1, <2>2, <2>3
<1>3. ASSUME NEW q \in Tries', q \notin Tries
      PROVE  (\A o \in Things : ~Notes(q, o)') /\ Once(stack'[q].cleanups)
  <2>1. stack'[q].cleanups = <<>>
    BY <1>1, <1>3
  <2> QED BY <2>1 DEF Notes, Once
<1>4. \A o \in Things : built'[o] = IF o \in taken THEN 0 ELSE built[o]
  BY DEF LosesNotesOf
<1>5. \A q \in Tries' :
        /\ q \in Tries => \A o \in Things : Notes(q, o)' <=> Notes(q, o) /\ o \notin taken
        /\ q \notin Tries => \A o \in Things : ~Notes(q, o)'
        /\ Once(stack'[q].cleanups)
  <2>1. \A q \in Tries \cap Tries' :
          /\ \A o \in Things : Notes(q, o)' <=> Notes(q, o) /\ o \notin taken
          /\ Once(stack'[q].cleanups)
    BY DEF LosesNotesOf
  <2> QED BY <1>3, <2>1
<1> QED BY <1>2, <1>4, <1>5, NotesSurvive

\* What was built under what returns is dead.
LEMMA NotesShrink ==
  ASSUME ExceptionsTypeOK, NotesInv, stack # <<>>, Shrinks, BuiltHere = {}, LosesNotesOf({})
  PROVE  NotesInv'
<1>1. /\ Len(stack) \in Nat /\ Here = Len(stack)
      /\ \A p \in Depths : p \in Nat /\ p <= Len(stack)
      /\ \A p : p \in Depths' <=> p \in Depths /\ p # Here
      /\ \A p : p \in Tries' <=> p \in Tries /\ p # Here
      /\ \A p : p \in Throws' <=> p \in Throws /\ p # Here
  BY ShrunkPlaces, PlacesTyped
<1>2. ASSUME NEW o \in Things, built[o] # 0
      PROVE  /\ built[o] \in Depths' \ Throws'
             /\ \A q \in Tries \cup Tries' : q <= built[o] => (q \in Tries' <=> q \in Tries)
  <2>1. built[o] \in Depths \ Throws /\ built[o] # Here
    BY <1>2 DEF NotesInv, BuiltSomewhere, BuiltHere
  <2>2. built[o] \in Depths' \ Throws'
    BY <1>1, <2>1
  <2>3. ~(Here <= built[o])
    BY <1>1, <2>1
  <2> QED BY <1>1, <2>2, <2>3
<1>3. \A q \in Tries' : q \in Tries
  BY <1>1
<1> QED BY <1>2, <1>3, NotesSurvive DEF LosesNotesOf

\* Nothing built at the frame or above it is alive when its cleanups are done.
LEMMA AllDeadAbove ==
  ASSUME ExceptionsTypeOK, StackShape, NotesInv, stack # <<>>, Here \in Throws,
         stack[stack[Here].frame].cleanups = <<>>, NEW o \in Things, built[o] # 0
  PROVE  /\ built[o] \in Depths \ Throws /\ built[o] < stack[Here].frame
         /\ ~(built[o] >= stack[Here].frame)
<1> DEFINE i == stack[Here].frame
<1>1. /\ Here \in Depths /\ Here = Len(stack) /\ i \in Tries /\ i < Here
      /\ \A p \in Depths : i < p /\ p < Here => p \notin Tries
      /\ \A p \in Depths : p \in Nat /\ p <= Len(stack)
      /\ Tries \subseteq Depths
  BY PlacesTyped DEF StackShape, ThrowShape
<1> HIDE DEF i
<1>2. built[o] \in Depths \ Throws
  BY DEF NotesInv, BuiltSomewhere
<1>3. ~Notes(i, o)
  BY DEF Notes, i
<1>4. ~Noter(i, built[o])
  BY <1>1, <1>3 DEF NotesInv, TrueNotes
<1>5. built[o] < Here
  BY <1>1, <1>2
<1>6. ASSUME i <= built[o] PROVE FALSE
  <2>1. Here \notin Tries
    BY DEF Throws, Tries
  <2>2. ASSUME NEW r \in Tries, r <= built[o] PROVE r <= i
    BY <1>1, <1>2, <1>5, <2>1, <2>2
  <2> QED BY <1>1, <1>4, <1>6, <2>2 DEF Noter
<1>7. built[o] < i /\ ~(built[o] >= i)
  BY <1>1, <1>2, <1>6
<1> QED BY <1>2, <1>7 DEF i

LEMMA NotesCut ==
  ASSUME ExceptionsTypeOK, StackShape, NotesInv, stack # <<>>, Here \in Throws,
         stack[stack[Here].frame].cleanups = <<>>,
         NEW x, CutTo(stack[Here].frame, x), x.kind = "handler", LosesNotesOf({})
  PROVE  NotesInv'
<1> DEFINE i == stack[Here].frame
<1>1. i \in Tries /\ i \in Depths
  BY PlacesTyped DEF StackShape, ThrowShape
<1>2. /\ \A p : p \in Depths' <=> p \in Depths /\ p <= i
      /\ \A p : p \in Tries' <=> p \in Tries /\ p < i
      /\ \A p : p \in Throws' <=> p \in Throws /\ p < i
  BY <1>1, CutPlaces
<1>3. \A o \in Things : built[o] # 0 => built[o] \in Depths \ Throws /\ built[o] < i
  BY AllDeadAbove
<1>4. \A p \in Depths : p \in Nat
  BY PlacesTyped
<1> HIDE DEF i
<1>5. ASSUME NEW o \in Things, built[o] # 0
      PROVE  /\ built[o] \in Depths' \ Throws'
             /\ \A q \in Tries \cup Tries' : q <= built[o] => (q \in Tries' <=> q \in Tries)
  <2>1. built[o] \in Depths \ Throws /\ built[o] < i /\ built[o] \in Nat /\ i \in Nat
    BY <1>1, <1>3, <1>4, <1>5
  <2>2. built[o] \in Depths' \ Throws'
    BY <1>2, <2>1
  <2>3. ASSUME NEW q \in Tries, q <= built[o] PROVE q < i
    <3>1. q \in Nat
      BY <1>4 DEF Tries
    <3> QED BY <2>1, <2>3, <3>1
  <2> QED BY <1>2, <2>2, <2>3
<1>6. \A q \in Tries' : q \in Tries
  BY <1>2
<1>7. /\ \A o \in Things : built'[o] = IF o \in {} THEN 0 ELSE built[o]
      /\ \A q \in Tries \cap Tries' :
           /\ \A o \in Things : Notes(q, o)' <=> Notes(q, o) /\ o \notin {}
           /\ Once(stack'[q].cleanups)
  BY DEF LosesNotesOf
<1>8. \A q \in Tries' :
        /\ q \in Tries => \A o \in Things : Notes(q, o)' <=> Notes(q, o) /\ o \notin {}
        /\ q \notin Tries => \A o \in Things : ~Notes(q, o)'
        /\ Once(stack'[q].cleanups)
  BY <1>6, <1>7
<1>9. {} \in SUBSET Things
  OBVIOUS
<1> QED BY <1>5, <1>7, <1>8, <1>9, NotesSurvive

\* Handlers and what is thrown out of them.
ThrownBetween(a, b) == \E t \in Throws : a < t /\ t < b

\* A handler under the next throw is being left by it with what it caught; two
\* handlers have a throw between them.
HandlerShape ==
  /\ \A h \in Handlers, t \in Throws : h < t /\ ~ThrownBetween(h, t) =>
       t = h + 1 /\ stack[t].value = stack[h].value /\ stack[t].frame < h
  /\ \A h, g \in Handlers : h < g => ThrownBetween(h, g)

Carriers == Throws \cup Handlers

\* What is carried is there; the throw, and the current exception of a handler
\* that no throw leaves, know whether it has a destructor; and only a handler and
\* the throw that leaves it carry the same.
CopiesInv ==
  /\ \A p \in Carriers : copies[stack[p].value] # "none"
  /\ \A t \in Throws : stack[t].cleanup <=> copies[stack[t].value] = "owned"
  /\ \A h \in Handlers : (\A t \in Throws : ~(h < t)) =>
       /\ current.value = stack[h].value
       /\ current.cleanup <=> copies[stack[h].value] = "owned"
  /\ \A p, r \in Carriers : stack[p].value = stack[r].value /\ p < r =>
       p \in Handlers /\ r = p + 1 /\ r \in Throws

HoldersInv == HandlerShape /\ CopiesInv

LEMMA HoldersSurvive ==
  ASSUME HoldersInv, Throws' = Throws, Handlers' = Handlers,
         \A p \in Carriers : stack'[p] = stack[p], current' = current, copies' = copies
  PROVE  HoldersInv'
<1>1. Carriers' = Carriers
  BY DEF Carriers
<1>2. \A a, b : ThrownBetween(a, b)' <=> ThrownBetween(a, b)
  BY DEF ThrownBetween
<1>3. HandlerShape'
  BY <1>2 DEF HoldersInv, HandlerShape, Carriers
<1>4. CopiesInv'
  BY <1>1 DEF HoldersInv, CopiesInv, Carriers
<1> QED BY <1>3, <1>4 DEF HoldersInv

LEMMA HoldersStay ==
  ASSUME ExceptionsTypeOK, HoldersInv, Stays, current' = current, copies' = copies
  PROVE  HoldersInv'
<1>1. /\ Throws' = Throws /\ Handlers' = Handlers
      /\ \A p \in Depths : p \notin Tries => stack'[p] = stack[p]
  BY StayingPlaces
<1>2. \A p \in Carriers : stack'[p] = stack[p]
  BY <1>1 DEF Carriers, Throws, Handlers, Tries
<1> QED BY <1>1, <1>2, HoldersSurvive

LEMMA HoldersGrow ==
  ASSUME ExceptionsTypeOK, HoldersInv, NEW x, Grows(x), x.kind \in {"try", "destructor"},
         current' = current, copies' = copies
  PROVE  HoldersInv'
<1>1. /\ \A p : p \in Throws' <=> p \in Throws
      /\ \A p : p \in Handlers' <=> p \in Handlers
      /\ \A p \in Depths : p \notin Tries => stack'[p] = stack[p]
  BY GrownPlaces
<1>2. \A p \in Carriers : stack'[p] = stack[p]
  BY <1>1 DEF Carriers, Throws, Handlers, Tries
<1> QED BY <1>1, <1>2, HoldersSurvive

LEMMA HoldersShrink ==
  ASSUME ExceptionsTypeOK, HoldersInv, stack # <<>>, Shrinks,
         Here \notin Carriers, current' = current, copies' = copies
  PROVE  HoldersInv'
<1>1. /\ \A p : p \in Throws' <=> p \in Throws
      /\ \A p : p \in Handlers' <=> p \in Handlers
      /\ \A p \in Depths : p \notin Tries /\ p # Here => stack'[p] = stack[p]
  BY ShrunkPlaces DEF Carriers
<1>2. \A p \in Carriers : stack'[p] = stack[p]
  BY <1>1 DEF Carriers, Throws, Handlers, Tries
<1> QED BY <1>1, <1>2, HoldersSurvive

LEMMA HoldersThrow ==
  ASSUME ExceptionsTypeOK, HoldersInv, stack # <<>>, NEW x, Grows(x), x.kind = "throw",
         Here \notin Throws, current' = current, copies' \in [Exceptions -> {"none", "plain", "owned"}],
         x.value \in Exceptions, copies'[x.value] # "none",
         x.cleanup <=> copies'[x.value] = "owned",
         x.frame \in Nat, x.frame <= Here, x.frame \notin Handlers,
         \A p \in Carriers : stack[p].value # x.value => copies'[stack[p].value] = copies[stack[p].value],
         \/ (\A h \in Handlers : ThrownBetween(h, Above)) /\ copies[x.value] = "none"
         \/ Here \in Handlers /\ stack[Here].value = x.value /\ copies' = copies
  PROVE  HoldersInv'
<1>1. /\ Above \in Nat /\ Above \notin Depths /\ Above = Here + 1 /\ Here \in Depths
      /\ \A p \in Depths : p < Above /\ p \in Nat /\ p <= Here
      /\ \A p : p \in Throws' <=> p \in Throws \/ p = Above
      /\ \A p : p \in Handlers' <=> p \in Handlers
      /\ \A p \in Carriers : stack'[p] = stack[p] /\ p \in Depths
      /\ stack'[Above] = x /\ Above \notin Handlers
  <2>1. \A p \in Carriers : p \in Depths /\ p \notin Tries
    BY DEF Carriers, Throws, Handlers, Tries
  <2>2. /\ Above \in Nat /\ Above \notin Depths
        /\ \A p : p \in Throws' <=> p \in Throws \/ p = Above
        /\ \A p : p \in Handlers' <=> p \in Handlers
        /\ \A p \in Depths : p \notin Tries => stack'[p] = stack[p]
        /\ stack'[Above] = x
    BY GrownPlaces
  <2>3. /\ Above = Here + 1 /\ Here \in Depths
        /\ \A p \in Depths : p < Above /\ p \in Nat /\ p <= Here
    BY PlacesTyped DEF Above, Here
  <2> QED BY <2>1, <2>2, <2>3 DEF Carriers
<1>2. ASSUME NEW a \in Depths, NEW b \in Depths
      PROVE  ThrownBetween(a, b)' <=> ThrownBetween(a, b)
  <2>1. ~(Above < b)
    BY <1>1
  <2> QED BY <1>1, <2>1 DEF ThrownBetween
<1>3. \A a \in Depths :
        (\E t \in Throws' : a < t /\ t < Above) <=> \E t \in Throws : a < t
  <2>1. \A t \in Throws : t < Above
    BY <1>1 DEF Carriers
  <2>2. ~(Above < Above)
    BY <1>1
  <2> QED BY <1>1, <2>1, <2>2
<1>4. \A h \in Handlers : ThrownBetween(h, Above) <=> \E t \in Throws : h < t
  <2>1. \A t \in Throws : t < Above
    BY <1>1 DEF Carriers
  <2> QED BY <2>1 DEF ThrownBetween
<1>5. Here \in Handlers => /\ ~ThrownBetween(Here, Above)
                           /\ \A h \in Handlers : h # Here => ThrownBetween(h, Above)
  <2> SUFFICES ASSUME Here \in Handlers
               PROVE  /\ ~ThrownBetween(Here, Above)
                      /\ \A h \in Handlers : h # Here => ThrownBetween(h, Above)
    OBVIOUS
  <2>1. \A t \in Throws : ~(Here < t)
    BY <1>1 DEF Carriers
  <2>2. ASSUME NEW h \in Handlers, h # Here PROVE \E t \in Throws : h < t
    <3>1. h < Here
      BY <1>1, <2>2 DEF Carriers
    <3> QED BY <3>1 DEF HoldersInv, HandlerShape, ThrownBetween
  <2> QED BY <1>4, <2>1, <2>2
<1>6. ASSUME NEW h \in Handlers, ~ThrownBetween(h, Above)
      PROVE  h = Here /\ stack[Here].value = x.value /\ copies' = copies
  BY <1>5, <1>6
<1>7. HandlerShape'
  <2>1. ASSUME NEW h \in Handlers, NEW t \in Throws', h < t, ~ThrownBetween(h, t)'
        PROVE  t = h + 1 /\ stack'[t].value = stack'[h].value /\ stack'[t].frame < h
    <3>1. CASE t \in Throws
      <4>1. h \in Depths /\ t \in Depths /\ stack'[t] = stack[t] /\ stack'[h] = stack[h]
        BY <1>1, <3>1 DEF Carriers
      <4>2. ~ThrownBetween(h, t)
        BY <1>2, <2>1, <4>1
      <4> QED BY <2>1, <3>1, <4>1, <4>2 DEF HoldersInv, HandlerShape
    <3>2. CASE t = Above
      <4>1. h \in Depths /\ stack'[h] = stack[h]
        BY <1>1 DEF Carriers
      <4>2. ~ThrownBetween(h, Above)
        BY <1>3, <1>4, <2>1, <3>2, <4>1 DEF ThrownBetween
      <4>3. h = Here /\ stack[Here].value = x.value
        BY <1>6, <4>2
      <4>4. x.frame < Here
        BY <1>1, <4>3
      <4> QED BY <1>1, <3>2, <4>1, <4>3, <4>4
    <3> QED BY <1>1, <3>1, <3>2
  <2>2. ASSUME NEW h \in Handlers, NEW g \in Handlers, h < g PROVE ThrownBetween(h, g)'
    <3>1. h \in Depths /\ g \in Depths
      BY <1>1 DEF Carriers
    <3> QED BY <1>2, <2>2, <3>1 DEF HoldersInv, HandlerShape
  <2> QED BY <1>1, <2>1, <2>2 DEF HandlerShape
<1>8. \A p : p \in Carriers' <=> p \in Carriers \/ p = Above
  BY <1>1 DEF Carriers
<1>9. ASSUME NEW p \in Carriers, stack[p].value = x.value
      PROVE  /\ p = Here /\ Here \in Handlers /\ copies' = copies
  <2>1. copies[x.value] # "none"
    BY <1>9 DEF HoldersInv, CopiesInv
  <2>2. Here \in Handlers /\ stack[Here].value = x.value /\ copies' = copies
    BY <2>1
  <2>3. ASSUME p # Here PROVE FALSE
    <3>1. p < Here /\ Here \in Carriers
      BY <1>1, <2>2, <2>3 DEF Carriers
    <3>2. Here \in Throws
      BY <1>9, <2>2, <3>1 DEF HoldersInv, CopiesInv
    <3> QED BY <3>2
  <2> QED BY <2>2, <2>3
<1>10. \A p \in Carriers : copies'[stack[p].value] = copies[stack[p].value]
  BY <1>9
<1>11. CopiesInv'
  <2>1. \A p \in Carriers' : copies'[stack'[p].value] # "none"
    BY <1>1, <1>8, <1>10 DEF HoldersInv, CopiesInv
  <2>2. \A t \in Throws' : stack'[t].cleanup <=> copies'[stack'[t].value] = "owned"
    <3>1. \A t \in Throws : t \in Carriers
      BY DEF Carriers
    <3> QED BY <1>1, <1>10, <3>1 DEF HoldersInv, CopiesInv
  <2>3. \A h \in Handlers : h < Above /\ Above \in Throws'
    BY <1>1 DEF Carriers
  <2>4. ASSUME NEW p \in Carriers', NEW r \in Carriers',
               stack'[p].value = stack'[r].value, p < r
        PROVE  p \in Handlers' /\ r = p + 1 /\ r \in Throws'
    <3>1. CASE p \in Carriers /\ r \in Carriers
      BY <1>1, <2>4, <3>1 DEF HoldersInv, CopiesInv
    <3>2. CASE p \in Carriers /\ r = Above
      <4>1. stack[p].value = x.value
        BY <1>1, <2>4, <3>2
      <4> QED BY <1>1, <1>9, <3>2, <4>1
    <3>3. CASE p = Above
      <4>1. ~(Above < r)
        BY <1>1, <1>8, <3>3
      <4> QED BY <2>4, <3>3, <4>1
    <3> QED BY <1>8, <3>1, <3>2, <3>3
  <2> QED BY <1>1, <2>1, <2>2, <2>3, <2>4 DEF CopiesInv
<1> QED BY <1>7, <1>11 DEF HoldersInv

LEMMA HoldersCut ==
  ASSUME ExceptionsTypeOK, StackShape, HoldersInv, stack # <<>>, Here \in Throws,
         NEW x, CutTo(stack[Here].frame, x), x.kind = "handler",
         x.value = stack[Here].value, current' = CurrentAfter(stack[Here]), copies' = copies
  PROVE  HoldersInv'
<1> DEFINE i == stack[Here].frame
<1>1. /\ Here \in Depths /\ i \in Tries /\ i \in Depths /\ i < Here
      /\ \A p \in Depths : i < p /\ p < Here => p \notin Tries /\ p \notin Throws
      /\ \A p \in Depths : p \in Nat /\ p <= Here
  BY PlacesTyped DEF StackShape, ThrowShape, Here
<1>2. /\ \A p : p \in Throws' <=> p \in Throws /\ p < i
      /\ \A p : p \in Handlers' <=> p = i \/ (p \in Handlers /\ p < i)
      /\ \A p \in Depths : p \notin Tries /\ p < i => stack'[p] = stack[p]
      /\ stack'[i] = x
  BY <1>1, CutPlaces
<1>3. stack[Here].frame = i
  OBVIOUS
<1> HIDE DEF i
<1>4. /\ i \notin Handlers /\ i \notin Throws
      /\ \A p \in Carriers : p \in Depths /\ p \notin Tries
  BY <1>1 DEF Carriers, Throws, Handlers, Tries
<1>5. \A p : p \in Carriers' <=> p = i \/ (p \in Carriers /\ p < i)
  BY <1>2 DEF Carriers
<1>6. \A p \in Carriers : p < i => stack'[p] = stack[p]
  BY <1>2, <1>4
<1>7. ASSUME NEW a \in Depths, NEW b \in Depths, b <= i
      PROVE  ThrownBetween(a, b)' <=> ThrownBetween(a, b)
  <2>1. \A t \in Throws : t < b => t < i
    <3>1. \A t \in Throws : t \in Depths
      BY <1>4 DEF Carriers
    <3> QED BY <1>1, <1>7, <3>1
  <2> QED BY <1>2, <2>1 DEF ThrownBetween
<1>8. ASSUME NEW h \in Handlers, h < i PROVE ThrownBetween(h, i)
  <2>0. h \in Depths /\ h < Here
    BY <1>1, <1>4, <1>8 DEF Carriers
  <2>1. ~(i < h)
    BY <1>1, <1>8, <2>0
  <2>2. ThrownBetween(h, Here)
    BY <1>3, <2>0, <2>1, <1>1, <1>8 DEF HoldersInv, HandlerShape
  <2>3. PICK t \in Throws : h < t /\ t < Here
    BY <2>2 DEF ThrownBetween
  <2>4. t \in Depths /\ ~(i < t) /\ t # i
    BY <1>1, <1>4, <2>3 DEF Carriers
  <2>5. t < i
    BY <1>1, <2>4
  <2> QED BY <2>3, <2>5 DEF ThrownBetween
<1>9. HandlerShape'
  <2>1. ASSUME NEW h \in Handlers', NEW t \in Throws', h < t, ~ThrownBetween(h, t)'
        PROVE  t = h + 1 /\ stack'[t].value = stack'[h].value /\ stack'[t].frame < h
    <3>1. t \in Throws /\ t < i /\ t \in Depths /\ t \in Carriers
      BY <1>2, <1>4 DEF Carriers
    <3>2. h # i
      BY <1>1, <2>1, <3>1
    <3>3. h \in Handlers /\ h < i /\ h \in Depths /\ h \in Carriers
      BY <1>2, <1>4, <3>2 DEF Carriers
    <3>4. ~ThrownBetween(h, t)
      BY <1>1, <1>7, <2>1, <3>1, <3>3
    <3> QED BY <1>6, <2>1, <3>1, <3>3, <3>4 DEF HoldersInv, HandlerShape
  <2>2. ASSUME NEW h \in Handlers', NEW g \in Handlers', h < g PROVE ThrownBetween(h, g)'
    <3>1. h \in Depths /\ g \in Depths /\ g <= i
      BY <1>1, <1>2, <1>4 DEF Carriers
    <3>2. h \in Handlers /\ h < i
      BY <1>1, <1>2, <2>2, <3>1
    <3>3. ThrownBetween(h, g)
      <4>1. CASE g = i
        BY <1>8, <3>2, <4>1
      <4>2. CASE g # i
        BY <1>2, <2>2, <3>2, <4>2 DEF HoldersInv, HandlerShape
      <4> QED BY <4>1, <4>2
    <3> QED BY <1>7, <3>1, <3>3
  <2> QED BY <2>1, <2>2 DEF HandlerShape
<1>10. stack[Here] \in ThrowType
  BY TriesTyped
<1>11. CopiesInv'
  <2>1. Here \in Carriers
    BY DEF Carriers
  <2>2. \A p \in Carriers' : copies'[stack'[p].value] # "none"
    BY <1>2, <1>5, <1>6, <2>1 DEF HoldersInv, CopiesInv
  <2>3. \A t \in Throws' : stack'[t].cleanup <=> copies'[stack'[t].value] = "owned"
    BY <1>2, <1>6 DEF HoldersInv, CopiesInv, Carriers
  <2>4. ASSUME NEW h \in Handlers', \A t \in Throws' : ~(h < t)
        PROVE  /\ current'.value = stack'[h].value
               /\ current'.cleanup <=> copies'[stack'[h].value] = "owned"
    <3>1. h = i
      <4> SUFFICES ASSUME h \in Handlers, h < i PROVE FALSE
        BY <1>2
      <4>1. PICK t \in Throws : h < t /\ t < i
        BY <1>8 DEF ThrownBetween
      <4> QED BY <1>2, <2>4, <4>1
    <3>2. /\ current'.value = stack[Here].value
          /\ current'.cleanup = stack[Here].cleanup
      BY DEF CurrentAfter
    <3> QED BY <1>2, <3>1, <3>2 DEF HoldersInv, CopiesInv
  <2>5. ASSUME NEW p \in Carriers', NEW r \in Carriers',
               stack'[p].value = stack'[r].value, p < r
        PROVE  p \in Handlers' /\ r = p + 1 /\ r \in Throws'
    <3>1. CASE p \in Carriers /\ p < i /\ r \in Carriers /\ r < i
      BY <1>2, <1>6, <2>5, <3>1 DEF HoldersInv, CopiesInv
    <3>2. CASE p \in Carriers /\ p < i /\ r = i
      <4>1. p \in Depths /\ p < Here /\ stack[p].value = stack[Here].value
        BY <1>1, <1>2, <1>4, <1>6, <2>5, <3>2
      <4>2. Here = p + 1
        BY <2>1, <3>2, <4>1 DEF HoldersInv, CopiesInv
      <4> QED BY <1>1, <3>2, <4>1, <4>2
    <3>3. CASE p = i
      BY <1>1, <1>4, <1>5, <2>5, <3>3
    <3> QED BY <1>5, <3>1, <3>2, <3>3
  <2> QED BY <2>2, <2>3, <2>4, <2>5 DEF CopiesInv
<1> QED BY <1>9, <1>11 DEF HoldersInv

LEMMA HoldersRelease ==
  ASSUME ExceptionsTypeOK, HoldersInv, stack # <<>>, Shrinks, Here \in Handlers,
         Released(stack[Here].value)
  PROVE  /\ HoldersInv' /\ misused' = misused
         /\ current' \in [value : Exceptions \cup {NoException}, cleanup : BOOLEAN]
         /\ copies' \in [Exceptions -> {"none", "plain", "owned"}]
<1> DEFINE v == stack[Here].value
<1>1. /\ Here \in Depths
      /\ \A p \in Depths : p \in Nat /\ p <= Here
      /\ \A p : p \in Throws' <=> p \in Throws /\ p # Here
      /\ \A p : p \in Handlers' <=> p \in Handlers /\ p # Here
      /\ \A p \in Depths : p \notin Tries /\ p # Here => stack'[p] = stack[p]
  BY ShrunkPlaces, PlacesTyped DEF Here
<1>2. \A p \in Carriers : p \in Depths /\ p \notin Tries
  BY DEF Carriers, Throws, Handlers, Tries
<1>3. /\ \A p : p \in Throws' <=> p \in Throws
      /\ \A p : p \in Carriers' <=> p \in Carriers /\ p # Here
      /\ \A p \in Carriers : p # Here => stack'[p] = stack[p]
  <2>1. Here \notin Throws
    BY DEF Throws, Handlers
  <2> QED BY <1>1, <1>2, <2>1 DEF Carriers
<1>4. /\ v \in Exceptions /\ copies[v] \in {"none", "plain", "owned"} /\ copies[v] # "none"
      /\ current.cleanup \in BOOLEAN
  BY TriesTyped DEF HandlerType, ExceptionsTypeOK, HoldersInv, CopiesInv, Carriers
<1>5. current.value = v /\ (current.cleanup <=> copies[v] = "owned")
  <2>1. \A t \in Throws : ~(Here < t)
    BY <1>1, <1>2 DEF Carriers
  <2> QED BY <2>1 DEF HoldersInv, CopiesInv
<1>6. /\ current' \in [value : Exceptions \cup {NoException}, cleanup : BOOLEAN]
      /\ copies' \in [Exceptions -> {"none", "plain", "owned"}]
  BY <1>4 DEF Released, ExceptionsTypeOK
<1>7. /\ copies' = [copies EXCEPT ![v] = "none"]
      /\ misused' = misused
  BY <1>4, <1>5 DEF Released
<1>8. ASSUME NEW p \in Carriers, p # Here
      PROVE  copies'[stack[p].value] = copies[stack[p].value]
  <2>1. stack[p].value # v
    <3> SUFFICES ASSUME stack[p].value = v PROVE FALSE
      OBVIOUS
    <3>1. p < Here /\ Here \in Carriers
      BY <1>1, <1>2, <1>8 DEF Carriers
    <3>2. Here \in Throws
      BY <3>1 DEF HoldersInv, CopiesInv
    <3> QED BY <3>2 DEF Throws, Handlers
  <2>2. stack[p].value \in Exceptions
    BY TriesTyped DEF Carriers, ThrowType, HandlerType
  <2> QED BY <1>7, <2>1, <2>2 DEF ExceptionsTypeOK
<1>9. \A a, b : ThrownBetween(a, b)' <=> ThrownBetween(a, b)
  BY <1>3 DEF ThrownBetween
<1>10. HandlerShape'
  <2>1. \A h \in Handlers' : h \in Handlers /\ stack'[h] = stack[h]
    BY <1>1, <1>3 DEF Carriers
  <2>2. \A t \in Throws' : t \in Throws /\ stack'[t] = stack[t]
    BY <1>1, <1>3 DEF Carriers
  <2> QED BY <1>9, <2>1, <2>2 DEF HoldersInv, HandlerShape
<1>11. CopiesInv'
  <2>1. \A p \in Carriers' : copies'[stack'[p].value] # "none"
    BY <1>3, <1>8 DEF HoldersInv, CopiesInv
  <2>2. \A t \in Throws' : stack'[t].cleanup <=> copies'[stack'[t].value] = "owned"
    <3>1. \A t \in Throws' : t \in Throws /\ t \in Carriers /\ t # Here
      BY <1>1 DEF Carriers
    <3> QED BY <1>3, <1>8, <3>1 DEF HoldersInv, CopiesInv
  <2>3. ASSUME NEW h \in Handlers' PROVE \E t \in Throws' : h < t
    <3>1. h \in Handlers /\ h < Here
      BY <1>1, <1>2 DEF Carriers
    <3>2. \E t \in Throws : h < t
      BY <3>1 DEF HoldersInv, HandlerShape, ThrownBetween
    <3> QED BY <1>3, <3>2
  <2>4. ASSUME NEW p \in Carriers', NEW r \in Carriers',
               stack'[p].value = stack'[r].value, p < r
        PROVE  p \in Handlers' /\ r = p + 1 /\ r \in Throws'
    <3>1. p \in Handlers /\ r = p + 1 /\ r \in Throws
      BY <1>3, <2>4 DEF HoldersInv, CopiesInv
    <3> QED BY <1>1, <1>3, <3>1
  <2> QED BY <2>1, <2>2, <2>3, <2>4 DEF CopiesInv
<1> QED BY <1>6, <1>7, <1>10, <1>11 DEF HoldersInv

ExceptionsInv ==
  /\ ExceptionsTypeOK /\ StackShape /\ NotesInv /\ HoldersInv /\ EachDiesOnce

\* What a step may do to the stack, with types.
LEMMA StackAppended ==
  ASSUME ExceptionsTypeOK, NEW s \in Seq(ActivityType), NEW x \in ActivityType,
         Len(s) = Len(stack), stack' = Append(s, x),
         \A p \in Depths :
           IF stack[p].kind = "try" THEN s[p].kind = "try" /\ s[p].guard = stack[p].guard
           ELSE s[p] = stack[p]
  PROVE  /\ stack' \in Seq(ActivityType) /\ Grows(x)
         /\ \A p \in Depths : stack'[p] = s[p]
<1>1. Len(s) \in Nat
  BY LenProperties
<1>2. /\ stack' \in Seq(ActivityType) /\ Len(stack') = Len(s) + 1
      /\ \A p \in 1..Len(s) : stack'[p] = s[p]
      /\ stack'[Len(s) + 1] = x
  BY AppendProperties
<1>3. \A p \in Depths : stack'[p] = s[p]
  BY <1>2 DEF Depths
<1>4. \A p \in Depths : Alike(p)
  BY <1>3 DEF Alike
<1>5. Len(stack') = Above /\ stack'[Above] = x
  BY <1>2 DEF Above
<1> QED BY <1>2, <1>3, <1>4, <1>5 DEF Grows

LEMMA StackReturned ==
  ASSUME ExceptionsTypeOK, stack # <<>>, stack' = Returned
  PROVE  /\ stack' \in Seq(ActivityType) /\ Shrinks
         /\ \A p \in Depths : p # Here => stack'[p] = stack[p]
<1>1. Len(stack) \in Nat /\ Len(stack) >= 1 /\ Here = Len(stack)
  BY PlacesTyped
<1>2. /\ stack' \in Seq(ActivityType) /\ Len(stack') = Len(stack) - 1
      /\ \A p \in 1..(Len(stack) - 1) : stack'[p] = stack[p]
  BY <1>1, SubSeqProperties DEF Returned, ExceptionsTypeOK
<1>3. \A p \in Depths : p # Here => p \in 1..(Len(stack) - 1)
  BY <1>1 DEF Depths
<1>4. \A p \in Depths : p # Here => stack'[p] = stack[p]
  BY <1>2, <1>3
<1>5. \A p \in Depths : p # Here => Alike(p)
  BY <1>4 DEF Alike
<1> QED BY <1>2, <1>4, <1>5 DEF Shrinks

LEMMA StackCut ==
  ASSUME ExceptionsTypeOK, NEW i \in Depths, NEW x \in ActivityType,
         stack' = Append(SubSeq(stack, 1, i - 1), x)
  PROVE  /\ stack' \in Seq(ActivityType) /\ CutTo(i, x)
         /\ \A p \in Depths : p < i => stack'[p] = stack[p]
<1>1. /\ Len(stack) \in Nat /\ i \in Nat /\ 1 <= i /\ i <= Len(stack)
  BY PlacesTyped
<1> DEFINE s == SubSeq(stack, 1, i - 1)
<1>2. /\ s \in Seq(ActivityType) /\ Len(s) = i - 1
      /\ \A p \in 1..(i - 1) : s[p] = stack[p]
  BY <1>1, SubSeqProperties DEF ExceptionsTypeOK
<1>3. stack' = Append(s, x)
  OBVIOUS
<1> HIDE DEF s
<1>4. /\ stack' \in Seq(ActivityType) /\ Len(stack') = Len(s) + 1
      /\ \A p \in 1..Len(s) : stack'[p] = s[p]
      /\ stack'[Len(s) + 1] = x
  BY <1>2, <1>3, AppendProperties
<1>5. Len(stack') = i /\ stack'[i] = x
  BY <1>1, <1>2, <1>4
<1>6. \A p \in Depths : p < i => p \in 1..(i - 1)
  BY <1>1 DEF Depths
<1>7. \A p \in Depths : p < i => stack'[p] = stack[p]
  BY <1>2, <1>4, <1>6
<1>8. \A p \in Depths : p < i => Alike(p)
  BY <1>7 DEF Alike
<1> QED BY <1>4, <1>5, <1>7, <1>8 DEF CutTo

\* Another list of cleanups for a frame.
LEMMA Renoted ==
  ASSUME ExceptionsTypeOK, NEW i \in Tries, NEW notes \in Seq(Things)
  PROVE  LET s == [stack EXCEPT ![i].cleanups = notes]
         IN  /\ s \in Seq(ActivityType) /\ Len(s) = Len(stack)
             /\ s[i].cleanups = notes
             /\ \A p \in Depths : p # i => s[p] = stack[p]
             /\ \A p \in Depths :
                  IF stack[p].kind = "try" THEN s[p].kind = "try" /\ s[p].guard = stack[p].guard
                  ELSE s[p] = stack[p]
<1> DEFINE frame == [stack[i] EXCEPT !.cleanups = notes]
           s == [stack EXCEPT ![i].cleanups = notes]
<1>1. i \in Depths /\ stack[i] \in TryType /\ stack[i].kind = "try"
  BY TriesTyped DEF Tries
<1>2. frame \in TryType /\ frame.kind = "try" /\ frame.guard = stack[i].guard
      /\ frame.cleanups = notes
  BY <1>1 DEF TryType
<1>3. s = [stack EXCEPT ![i] = frame]
  OBVIOUS
<1> HIDE DEF s
<1>4. DOMAIN stack = Depths /\ stack \in Seq(ActivityType) /\ frame \in ActivityType
  BY <1>2, LenProperties DEF ExceptionsTypeOK, Depths, ActivityType
<1> HIDE DEF frame
<1>5. s \in Seq(ActivityType) /\ Len(s) = Len(stack)
  BY <1>1, <1>3, <1>4, ExceptSeq, LenProperties DEF Depths
<1>6. s[i] = frame /\ \A p \in Depths : p # i => s[p] = stack[p]
  BY <1>1, <1>3, <1>4
<1> QED BY <1>1, <1>2, <1>5, <1>6 DEF s

\* The step of a frame that is installed.
LEMMA FrameTyped ==
  ASSUME NEW g \in BOOLEAN
  PROVE  /\ Frame(g) \in ActivityType /\ Frame(g).kind = "try" /\ Frame(g).guard = g
         /\ Frame(g).cleanups = <<>>
  BY DEF Frame, ActivityType, TryType

\* The newest cleanup of a frame is taken off and called.
LEMMA UnwoundFacts ==
  ASSUME ExceptionsInv, NEW i \in Tries, stack[i].cleanups # <<>>
  PROVE  /\ WithoutNewest(i) \in Seq(ActivityType) /\ Len(WithoutNewest(i)) = Len(stack)
         /\ \A p \in Depths :
              IF stack[p].kind = "try"
                THEN WithoutNewest(i)[p].kind = "try" /\ WithoutNewest(i)[p].guard = stack[p].guard
                ELSE WithoutNewest(i)[p] = stack[p]
         /\ NewestCleanup(i) \in Things /\ built[NewestCleanup(i)] # 0
         /\ (/\ Called(NewestCleanup(i))
             /\ \A p \in Depths : stack'[p] = WithoutNewest(i)[p]) =>
              /\ LosesNotesOf({NewestCleanup(i)}) /\ misused' = misused
              /\ built' \in [Things -> Nat]
<1> DEFINE notes == stack[i].cleanups
           k == Len(notes)
           s == [stack EXCEPT ![i].cleanups = WithoutNote(notes, k)]
<1>1. notes \in Seq(Things) /\ Once(notes)
  BY TriesTyped DEF ExceptionsInv, NotesInv
<1>2. k \in DOMAIN notes /\ DOMAIN notes = 1..k
  <2>1. k \in Nat /\ k >= 1 /\ DOMAIN notes = 1..k
    BY <1>1, EmptySeq, LenProperties
  <2> QED BY <2>1
<1>3. WithoutNote(notes, k) \in Seq(Things)
  <2> HIDE DEF notes, k
  <2> QED BY <1>1, <1>2, WithoutNoteFacts
<1>4. WithoutNewest(i) = s /\ NewestCleanup(i) = notes[k]
  BY DEF WithoutNewest, NewestCleanup
<1>5. /\ s \in Seq(ActivityType) /\ Len(s) = Len(stack) /\ s[i].cleanups = WithoutNote(notes, k)
      /\ \A p \in Depths : p # i => s[p] = stack[p]
      /\ \A p \in Depths :
           IF stack[p].kind = "try" THEN s[p].kind = "try" /\ s[p].guard = stack[p].guard
           ELSE s[p] = stack[p]
  <2> HIDE DEF k
  <2> QED BY <1>3, Renoted DEF ExceptionsInv
<1>6. notes[k] \in Things /\ Notes(i, notes[k])
  BY <1>1, <1>2, ElementOfSeq DEF Notes
<1>7. built[notes[k]] # 0
  BY <1>6 DEF ExceptionsInv, NotesInv, TrueNotes
<1> HIDE DEF s
<1>8. ASSUME Called(notes[k]), \A p \in Depths : stack'[p] = s[p]
      PROVE  /\ LosesNotesOf({notes[k]}) /\ misused' = misused /\ built' \in [Things -> Nat]
  <2>1. built' = [built EXCEPT ![notes[k]] = 0] /\ misused' = misused
    BY <1>7, <1>8 DEF Called
  <2>2. built' \in [Things -> Nat]
    BY <2>1 DEF ExceptionsInv, ExceptionsTypeOK
  <2>3. \A q \in Tries : q \in Depths
    BY DEF Tries
  <2>4. stack'[i].cleanups = WithoutNote(notes, k)
    BY <1>5, <1>8, <2>3
  <2>5. \A q \in Tries : q # i => stack'[q].cleanups = stack[q].cleanups
    BY <1>5, <1>8, <2>3
  <2>6. \A q \in Tries :
          /\ \A a \in Things : Notes(q, a)' <=> Notes(q, a) /\ a \notin {notes[k]}
          /\ Once(stack'[q].cleanups)
    <3> HIDE DEF k
    <3> QED BY <1>2, <2>4, <2>5, NoteTaken DEF ExceptionsInv
  <2>7. \A o \in Things : built'[o] = IF o \in {notes[k]} THEN 0 ELSE built[o]
    BY <2>1 DEF ExceptionsInv, ExceptionsTypeOK
  <2> QED BY <2>1, <2>2, <2>6, <2>7 DEF LosesNotesOf
<1> QED BY <1>4, <1>5, <1>6, <1>7, <1>8

LEMMA TryStep ==
  ASSUME ExceptionsInv, Try
  PROVE  ExceptionsInv'
<1> USE DEF ExceptionsInv
<1>1. /\ stack # <<>> /\ Here \notin Throws
      /\ stack' = Append(stack, Frame(FALSE)) /\ frames' = Append(frames, Above)
      /\ UNCHANGED <<current, built, copies, misused>>
  BY DEF Try, Running, Doing, Installed, Throws, Above
<1>2. /\ Frame(FALSE) \in ActivityType /\ Frame(FALSE).kind = "try"
      /\ Frame(FALSE).guard = FALSE /\ Frame(FALSE).cleanups = <<>>
  BY FrameTyped
<1>3. /\ stack' \in Seq(ActivityType) /\ Grows(Frame(FALSE))
      /\ \A p \in Depths : stack'[p] = stack[p]
  BY <1>1, <1>2, StackAppended DEF ExceptionsTypeOK
<1>4. frames' \in Seq(Nat) /\ StackShape'
  BY <1>1, <1>2, <1>3, ShapeGrows
<1>5. ExceptionsTypeOK'
  BY <1>1, <1>3, <1>4 DEF ExceptionsTypeOK
<1>6. LosesNotesOf({})
  BY <1>1, <1>3, NothingTaken DEF Tries
<1>7. NotesInv'
  BY <1>2, <1>3, <1>6, NotesGrow
<1>8. HoldersInv'
  BY <1>1, <1>2, <1>3, HoldersGrow
<1> QED BY <1>1, <1>4, <1>5, <1>7, <1>8 DEF EachDiesOnce

LEMMA LeavingStep ==
  ASSUME ExceptionsInv, Leave
  PROVE  ExceptionsInv'
<1> USE DEF ExceptionsInv
<1> DEFINE frame == [stack[Here] EXCEPT !.leaving = TRUE]
<1>1. /\ stack # <<>> /\ stack[Here].kind = "try"
      /\ stack' = [stack EXCEPT ![Here] = frame]
      /\ UNCHANGED <<frames, current, built, copies, misused>>
  BY DEF Leave, Doing
<1>2. Here \in Depths /\ Here \in Tries /\ stack[Here] \in TryType
  BY <1>1, PlacesTyped, TriesTyped DEF Tries
<1>3. /\ frame \in ActivityType /\ frame.kind = "try" /\ frame.guard = stack[Here].guard
      /\ frame.cleanups = stack[Here].cleanups
  BY <1>2 DEF TryType, ActivityType
<1> HIDE DEF frame
<1>4. DOMAIN stack = Depths /\ stack \in Seq(ActivityType)
  BY LenProperties DEF ExceptionsTypeOK, Depths
<1>5. stack' \in Seq(ActivityType) /\ Len(stack') = Len(stack)
  BY <1>1, <1>2, <1>3, <1>4, ExceptSeq DEF Depths
<1>6. stack'[Here] = frame /\ \A p \in Depths : p # Here => stack'[p] = stack[p]
  BY <1>1, <1>2, <1>4
<1>7. \A p \in Depths : Alike(p)
  BY <1>1, <1>3, <1>6 DEF Alike
<1>8. Stays
  BY <1>5, <1>7 DEF Stays
<1>9. \A q \in Tries : stack'[q].cleanups = stack[q].cleanups
  BY <1>3, <1>6 DEF Tries
<1>10. StackShape' /\ ExceptionsTypeOK'
  BY <1>1, <1>5, <1>8, ShapeStays DEF ExceptionsTypeOK
<1>11. NotesInv'
  BY <1>1, <1>8, <1>9, NothingTaken, NotesStay
<1>12. HoldersInv'
  BY <1>1, <1>8, HoldersStay
<1> QED BY <1>1, <1>10, <1>11, <1>12 DEF EachDiesOnce

LEMMA LeaveUnwindsStep ==
  ASSUME ExceptionsInv, LeaveUnwinds
  PROVE  ExceptionsInv'
<1> USE DEF ExceptionsInv
<1> DEFINE x == [kind |-> "destructor"]
<1>1. /\ stack # <<>> /\ stack[Here].kind = "try" /\ stack[Here].cleanups # <<>>
      /\ stack' = Append(WithoutNewest(Here), x) /\ Called(NewestCleanup(Here))
      /\ UNCHANGED <<frames, current, copies>>
  BY DEF LeaveUnwinds, Doing
<1>2. Here \in Tries /\ Here \notin Throws
  BY <1>1, PlacesTyped DEF Tries, Throws
<1>3. /\ WithoutNewest(Here) \in Seq(ActivityType) /\ Len(WithoutNewest(Here)) = Len(stack)
      /\ \A p \in Depths :
           IF stack[p].kind = "try"
             THEN WithoutNewest(Here)[p].kind = "try"
                  /\ WithoutNewest(Here)[p].guard = stack[p].guard
             ELSE WithoutNewest(Here)[p] = stack[p]
      /\ NewestCleanup(Here) \in Things
  BY <1>1, <1>2, UnwoundFacts
<1>4. x \in ActivityType /\ x.kind = "destructor"
  BY DEF ActivityType, PlainType
<1> HIDE DEF x
<1>5. /\ stack' \in Seq(ActivityType) /\ Grows(x)
      /\ \A p \in Depths : stack'[p] = WithoutNewest(Here)[p]
  BY <1>1, <1>3, <1>4, StackAppended
<1>6. LosesNotesOf({NewestCleanup(Here)}) /\ misused' = misused /\ built' \in [Things -> Nat]
  BY <1>1, <1>2, <1>5, UnwoundFacts
<1>7. StackShape' /\ ExceptionsTypeOK'
  BY <1>1, <1>2, <1>4, <1>5, <1>6, ShapeGrows DEF ExceptionsTypeOK
<1>8. NotesInv'
  BY <1>3, <1>4, <1>5, <1>6, NotesGrow
<1>9. HoldersInv'
  BY <1>1, <1>4, <1>5, HoldersGrow
<1> QED BY <1>6, <1>7, <1>8, <1>9 DEF EachDiesOnce

LEMMA ThrowUnwindsStep ==
  ASSUME ExceptionsInv, ThrowUnwinds
  PROVE  ExceptionsInv'
<1> USE DEF ExceptionsInv
<1> DEFINE i == stack[Here].frame
           x == Frame(TRUE)
<1>1. /\ stack # <<>> /\ stack[Here].kind = "throw" /\ stack[i].cleanups # <<>>
      /\ stack' = Append(WithoutNewest(i), x)
      /\ frames' = Append(frames, Len(WithoutNewest(i)) + 1)
      /\ Called(NewestCleanup(i)) /\ UNCHANGED <<current, copies>>
  BY DEF ThrowUnwinds, Doing, Installed
<1>2. Here \in Throws /\ i \in Tries
  <2>1. Here \in Throws
    BY <1>1, PlacesTyped DEF Throws
  <2> QED BY <2>1 DEF StackShape, ThrowShape
<1>3. x \in ActivityType /\ x.kind = "try" /\ x.guard /\ x.cleanups = <<>>
  BY FrameTyped
<1> HIDE DEF i, x
<1>4. /\ WithoutNewest(i) \in Seq(ActivityType) /\ Len(WithoutNewest(i)) = Len(stack)
      /\ \A p \in Depths :
           IF stack[p].kind = "try"
             THEN WithoutNewest(i)[p].kind = "try" /\ WithoutNewest(i)[p].guard = stack[p].guard
             ELSE WithoutNewest(i)[p] = stack[p]
      /\ NewestCleanup(i) \in Things
  BY <1>1, <1>2, UnwoundFacts
<1>5. /\ stack' \in Seq(ActivityType) /\ Grows(x)
      /\ \A p \in Depths : stack'[p] = WithoutNewest(i)[p]
  BY <1>1, <1>3, <1>4, StackAppended
<1>6. LosesNotesOf({NewestCleanup(i)}) /\ misused' = misused /\ built' \in [Things -> Nat]
  BY <1>1, <1>2, <1>5, UnwoundFacts
<1>7. frames' = Append(frames, Above)
  BY <1>1, <1>4 DEF Above
<1>8. StackShape' /\ ExceptionsTypeOK'
  BY <1>1, <1>3, <1>5, <1>6, <1>7, ShapeGrows DEF ExceptionsTypeOK
<1>9. NotesInv'
  BY <1>3, <1>4, <1>5, <1>6, NotesGrow
<1>10. HoldersInv'
  BY <1>1, <1>3, <1>5, HoldersGrow
<1> QED BY <1>6, <1>8, <1>9, <1>10 DEF EachDiesOnce

LEMMA ReturnedNotes ==
  ASSUME ExceptionsTypeOK, NotesInv, stack # <<>>, Shrinks, BuiltHere = {},
         \A p \in Depths : p # Here => stack'[p] = stack[p], built' = built
  PROVE  NotesInv'
<1>1. \A p : p \in Tries' <=> p \in Tries /\ p # Here
  BY ShrunkPlaces
<1>2. \A q \in Tries \cap Tries' : stack'[q].cleanups = stack[q].cleanups
  BY <1>1 DEF Tries
<1> QED BY <1>2, NothingTaken, NotesShrink

\* A frame that is left has let go of everything built in it.
LEMMA LeftStep ==
  ASSUME ExceptionsInv, Left
  PROVE  ExceptionsInv'
<1> USE DEF ExceptionsInv
<1>1. /\ stack # <<>> /\ stack[Here].kind = "try" /\ stack[Here].cleanups = <<>>
      /\ stack' = Returned /\ frames' = FramesBelow
      /\ misused' = misused \cup BuiltHere /\ UNCHANGED <<current, built, copies>>
  BY DEF Left, Doing
<1>2. /\ Here \in Depths /\ Here \in Tries /\ Here \notin Throws /\ Here \notin Carriers
      /\ \A p \in Depths : p \in Nat /\ p <= Here
  BY <1>1, PlacesTyped DEF Tries, Throws, Handlers, Carriers, Here
<1>3. BuiltHere = {}
  <2> SUFFICES ASSUME NEW o \in Things, built[o] = Here PROVE FALSE
    BY DEF BuiltHere
  <2>1. Noter(Here, Here)
    BY <1>2 DEF Noter, Tries
  <2>2. Here # 0
    BY <1>2 DEF Depths
  <2>3. Notes(Here, o)
    BY <1>2, <2>1, <2>2 DEF NotesInv, TrueNotes
  <2> QED BY <1>1, <2>3 DEF Notes
<1>4. /\ stack' \in Seq(ActivityType) /\ Shrinks
      /\ \A p \in Depths : p # Here => stack'[p] = stack[p]
  BY <1>1, StackReturned
<1>5. StackShape' /\ ExceptionsTypeOK'
  BY <1>1, <1>2, <1>4, ShapeShrinks DEF ExceptionsTypeOK
<1>6. NotesInv'
  BY <1>1, <1>3, <1>4, ReturnedNotes
<1>7. HoldersInv'
  BY <1>1, <1>2, <1>4, HoldersShrink
<1> QED BY <1>1, <1>3, <1>5, <1>6, <1>7 DEF EachDiesOnce

LEMMA DestructorReturnsStep ==
  ASSUME ExceptionsInv, DestructorReturns
  PROVE  ExceptionsInv'
<1> USE DEF ExceptionsInv
<1>1. /\ stack # <<>> /\ stack[Here].kind = "destructor" /\ BuiltHere = {}
      /\ stack' = Returned /\ UNCHANGED <<frames, current, built, copies, misused>>
  BY DEF DestructorReturns, Doing
<1>2. Here \notin Tries /\ Here \notin Throws /\ Here \notin Carriers
  BY <1>1 DEF Tries, Throws, Handlers, Carriers
<1>3. /\ stack' \in Seq(ActivityType) /\ Shrinks
      /\ \A p \in Depths : p # Here => stack'[p] = stack[p]
  BY <1>1, StackReturned
<1>4. StackShape' /\ ExceptionsTypeOK'
  BY <1>1, <1>2, <1>3, ShapeShrinks DEF ExceptionsTypeOK
<1>5. NotesInv'
  BY <1>1, <1>3, ReturnedNotes
<1>6. HoldersInv'
  BY <1>1, <1>2, <1>3, HoldersShrink
<1> QED BY <1>1, <1>4, <1>5, <1>6 DEF EachDiesOnce

LEMMA ReleaseStep ==
  ASSUME ExceptionsInv, Release
  PROVE  ExceptionsInv'
<1> USE DEF ExceptionsInv
<1>1. /\ stack # <<>> /\ stack[Here].kind = "handler" /\ BuiltHere = {}
      /\ Released(stack[Here].value)
      /\ stack' = Returned /\ UNCHANGED <<frames, built>>
  BY DEF Release, Doing
<1>2. Here \in Handlers /\ Here \notin Tries /\ Here \notin Throws
  BY <1>1, PlacesTyped DEF Tries, Throws, Handlers
<1>3. /\ stack' \in Seq(ActivityType) /\ Shrinks
      /\ \A p \in Depths : p # Here => stack'[p] = stack[p]
  BY <1>1, StackReturned
<1>4. /\ HoldersInv' /\ misused' = misused
      /\ current' \in [value : Exceptions \cup {NoException}, cleanup : BOOLEAN]
      /\ copies' \in [Exceptions -> {"none", "plain", "owned"}]
  BY <1>1, <1>2, <1>3, HoldersRelease
<1>5. StackShape' /\ ExceptionsTypeOK'
  BY <1>1, <1>2, <1>3, <1>4, ShapeShrinks DEF ExceptionsTypeOK
<1>6. NotesInv'
  BY <1>1, <1>3, ReturnedNotes
<1> QED BY <1>4, <1>5, <1>6 DEF EachDiesOnce

\* The process ends: nothing is left.
LEMMA ExitStep ==
  ASSUME ExceptionsInv, Exit
  PROVE  ExceptionsInv'
<1>1. /\ stack' = <<>> /\ frames' = <<>> /\ current' = NoCurrent
      /\ built' = [o \in Things |-> 0] /\ copies' = [e \in Exceptions |-> "none"]
      /\ misused' = misused
  BY DEF Exit
<1>2. Depths' = {} /\ Tries' = {} /\ Throws' = {} /\ Handlers' = {} /\ Carriers' = {}
  BY <1>1 DEF Depths, Tries, Throws, Handlers, Carriers
<1>3. ExceptionsTypeOK'
  BY <1>1 DEF ExceptionsTypeOK, NoCurrent
<1>4. StackShape'
  BY <1>1, <1>2 DEF StackShape, FrameShape, ThrowShape, TryShape, On, Rising
<1>5. NotesInv'
  BY <1>1, <1>2 DEF NotesInv, TrueNotes, BuiltSomewhere
<1>6. HoldersInv'
  BY <1>2 DEF HoldersInv, HandlerShape, CopiesInv
<1> QED BY <1>1, <1>3, <1>4, <1>5, <1>6 DEF ExceptionsInv, EachDiesOnce

LEMMA CaughtStep ==
  ASSUME ExceptionsInv, Caught
  PROVE  ExceptionsInv'
<1> DEFINE i == stack[Here].frame
           x == [kind |-> "handler", value |-> stack[Here].value]
<1>1. /\ stack # <<>> /\ stack[Here].kind = "throw" /\ stack[i].cleanups = <<>>
      /\ IF stack[i].guard THEN Exit
         ELSE /\ stack' = Append(SubSeq(stack, 1, i - 1), x)
              /\ current' = CurrentAfter(stack[Here])
              /\ misused' = misused \cup {o \in Things : built[o] >= i}
              /\ UNCHANGED <<frames, built, copies>>
  BY DEF Caught, Doing
<1>2. CASE stack[i].guard
  BY <1>1, <1>2, ExitStep
<1>3. CASE ~stack[i].guard
  <2> USE DEF ExceptionsInv
  <2>1. Here \in Throws /\ i \in Tries /\ i \in Depths /\ i \in Nat /\ i >= 1
        /\ stack[Here] \in ThrowType
    <3>1. Here \in Throws
      BY <1>1, PlacesTyped DEF Throws
    <3> QED BY <3>1, PlacesTyped, TriesTyped DEF StackShape, ThrowShape
  <2>2. x \in ActivityType /\ x.kind = "handler" /\ x.value = stack[Here].value
    BY <2>1 DEF ActivityType, HandlerType, ThrowType
  <2>3. /\ stack' \in Seq(ActivityType) /\ CutTo(i, x)
        /\ \A p \in Depths : p < i => stack'[p] = stack[p]
    <3> HIDE DEF i, x
    <3> QED BY <1>1, <1>3, <2>1, <2>2, StackCut
  <2>4. current' \in [value : Exceptions \cup {NoException}, cleanup : BOOLEAN]
    BY <1>1, <1>3, <2>1 DEF CurrentAfter, ThrowType
  <2>5. StackShape'
    <3> HIDE DEF x
    <3> QED BY <1>1, <1>3, <2>1, <2>2, <2>3, ShapeCut
  <2>6. ExceptionsTypeOK'
    BY <1>1, <1>3, <2>3, <2>4 DEF ExceptionsTypeOK
  <2>7. NotesInv'
    <3> HIDE DEF x
    <3>1. LosesNotesOf({})
      <4>1. \A p : p \in Tries' <=> p \in Tries /\ p < i
        BY <2>1, <2>2, <2>3, CutPlaces
      <4>2. \A q \in Tries \cap Tries' : stack'[q].cleanups = stack[q].cleanups
        BY <2>3, <4>1 DEF Tries
      <4> QED BY <1>1, <1>3, <4>2, NothingTaken
    <3> QED BY <1>1, <1>3, <2>1, <2>2, <2>3, <3>1, NotesCut
  <2>8. HoldersInv'
    <3> HIDE DEF x
    <3> QED BY <1>1, <1>3, <2>1, <2>2, <2>3, HoldersCut
  <2>9. \A o \in Things : ~(built[o] >= i)
    <3> SUFFICES ASSUME NEW o \in Things PROVE ~(built[o] >= i)
      OBVIOUS
    <3>1. CASE built[o] = 0
      BY <2>1, <3>1
    <3>2. CASE built[o] # 0
      BY <1>1, <2>1, <3>2, AllDeadAbove
    <3> QED BY <3>1, <3>2
  <2> QED BY <1>1, <1>3, <2>5, <2>6, <2>7, <2>8, <2>9 DEF EachDiesOnce
<1> QED BY <1>2, <1>3

\* What is thrown on the way to the frame on top.
LEMMA ThrowingStep ==
  ASSUME ExceptionsInv, stack # <<>>, Here \notin Throws, frames # <<>>,
         NEW e \in Exceptions, NEW c \in BOOLEAN, ThrowOwned(e, c),
         copies' \in [Exceptions -> {"none", "plain", "owned"}], copies'[e] # "none",
         c <=> copies'[e] = "owned",
         \A p \in Carriers : stack[p].value # e => copies'[stack[p].value] = copies[stack[p].value],
         \/ (\A h \in Handlers : ThrownBetween(h, Above)) /\ copies[e] = "none"
         \/ Here \in Handlers /\ stack[Here].value = e /\ copies' = copies
  PROVE  ExceptionsInv'
<1> USE DEF ExceptionsInv
<1> DEFINE x == [kind |-> "throw", frame |-> TopFrame, value |-> e, cleanup |-> c]
<1>1. /\ stack' = Append(stack, x) /\ frames' = FramesBelow
      /\ UNCHANGED <<current, built, misused>>
  BY DEF ThrowOwned
<1>2. TopFrame \in Tries /\ TopFrame \in Depths /\ TopFrame \in Nat /\ TopFrame <= Here
      /\ TopFrame \notin Handlers
  <2>1. TopFrame \in Tries
    BY LastTry
  <2> QED BY <2>1, PlacesTyped DEF Tries, Handlers, Here
<1>3. /\ x \in ActivityType /\ x.kind = "throw" /\ x.frame = TopFrame /\ x.value = e
      /\ x.cleanup = c
  BY <1>2 DEF ActivityType, ThrowType
<1> HIDE DEF x
<1>4. /\ stack' \in Seq(ActivityType) /\ Grows(x)
      /\ \A p \in Depths : stack'[p] = stack[p]
  BY <1>1, <1>3, StackAppended DEF ExceptionsTypeOK
<1>5. StackShape' /\ ExceptionsTypeOK'
  BY <1>1, <1>3, <1>4, ShapeGrows DEF ExceptionsTypeOK
<1>6. NotesInv'
  <2>1. LosesNotesOf({})
    BY <1>1, <1>4, NothingTaken DEF Tries
  <2> QED BY <1>3, <1>4, <2>1, NotesGrow
<1>7. HoldersInv'
  BY <1>1, <1>2, <1>3, <1>4, HoldersThrow
<1> QED BY <1>1, <1>5, <1>6, <1>7 DEF EachDiesOnce

\* Something new is thrown: no handler is exposed.
LEMMA ThrowStep ==
  ASSUME QuietHandlers, ExceptionsInv, NEW e \in Exceptions, NEW c \in BOOLEAN, Throw(e, c)
  PROVE  ExceptionsInv'
<1>1. CASE frames = <<>>
  BY <1>1, ExitStep DEF Throw, ThrowOwned
<1>2. CASE frames # <<>>
  <2>1. /\ stack # <<>> /\ Here \notin Throws /\ copies[e] = "none" /\ ~Exposed
        /\ ThrowOwned(e, c)
        /\ copies' = [copies EXCEPT ![e] = IF c THEN "owned" ELSE "plain"]
    BY <1>2 DEF Throw, Running, Doing, Throws
  <2>2. copies' \in [Exceptions -> {"none", "plain", "owned"}]
        /\ copies'[e] # "none" /\ (c <=> copies'[e] = "owned")
    BY <2>1 DEF ExceptionsInv, ExceptionsTypeOK
  <2>3. ASSUME NEW p \in Carriers, stack[p].value # e
        PROVE  copies'[stack[p].value] = copies[stack[p].value]
    BY <2>1, <2>3, TriesTyped
       DEF Carriers, ThrowType, HandlerType, ExceptionsInv, ExceptionsTypeOK
  <2>4. ASSUME NEW h \in Handlers PROVE ThrownBetween(h, Above)
    <3>1. /\ h \in Depths /\ stack[h].kind = "handler" /\ DOMAIN stack = Depths
          /\ Depths = 1..Here
      BY LenProperties DEF Handlers, Depths, Here, ExceptionsInv, ExceptionsTypeOK
    <3>2. PICK t \in h..Here : stack[t].kind = "throw"
      BY <2>1, <3>1 DEF Exposed
    <3>3. t # h
      BY <3>1, <3>2
    <3>4. h \in Nat /\ Here \in Nat /\ 1 <= h /\ Above = Here + 1
      BY <3>1, PlacesTyped DEF ExceptionsInv, Above, Here
    <3>5. t \in Depths /\ h < t /\ t < Above
      BY <3>1, <3>2, <3>3, <3>4
    <3> QED BY <3>2, <3>5 DEF ThrownBetween, Throws
  <2> QED BY <1>2, <2>1, <2>2, <2>3, <2>4, ThrowingStep
<1> QED BY <1>1, <1>2

\* A handler throws on what it caught.
LEMMA RethrowStep ==
  ASSUME ExceptionsInv, Rethrow \/ RethrowCurrent
  PROVE  ExceptionsInv'
<1> DEFINE e == stack[Here].value
           c == current.value = e /\ current.cleanup
<1>1. stack # <<>> /\ stack[Here].kind = "handler"
  BY DEF Rethrow, RethrowCurrent, Doing
<1>2. Here \in Handlers /\ Here \notin Throws /\ e \in Exceptions
  <2>1. Here \in Handlers
    BY <1>1, PlacesTyped DEF Handlers, ExceptionsInv
  <2> QED BY <1>1, <2>1, TriesTyped DEF Throws, HandlerType, ExceptionsInv
<1>3. \A t \in Throws : ~(Here < t)
  BY PlacesTyped DEF Throws, Here, ExceptionsInv
<1>4. copies[e] # "none" /\ current.value = e /\ (current.cleanup <=> copies[e] = "owned")
  BY <1>2, <1>3 DEF ExceptionsInv, HoldersInv, CopiesInv, Carriers
<1>5. current.cleanup \in BOOLEAN /\ copies \in [Exceptions -> {"none", "plain", "owned"}]
  BY DEF ExceptionsInv, ExceptionsTypeOK
<1>6. c = current.cleanup
  BY <1>4, <1>5
<1>7. ThrowOwned(e, current.cleanup) /\ (frames # <<>> => copies' = copies)
  <2>1. CASE Rethrow
    BY <1>6, <2>1 DEF Rethrow
  <2>2. CASE RethrowCurrent
    BY <1>4, <2>2 DEF RethrowCurrent
  <2> QED BY <2>1, <2>2
<1>8. CASE frames = <<>>
  BY <1>7, <1>8, ExitStep DEF ThrowOwned
<1>9. CASE frames # <<>>
  <2> HIDE DEF c
  <2> QED BY <1>1, <1>2, <1>4, <1>5, <1>7, <1>9, ThrowingStep
<1> QED BY <1>8, <1>9

LEMMA NoteAdded ==
  ASSUME NEW notes \in Seq(Things), Once(notes), NEW o \in Things,
         \A k \in DOMAIN notes : notes[k] # o
  PROVE  /\ Append(notes, o) \in Seq(Things) /\ Once(Append(notes, o))
         /\ \A a : (\E k \in DOMAIN Append(notes, o) : Append(notes, o)[k] = a)
                     <=> (\E k \in DOMAIN notes : notes[k] = a) \/ a = o
<1>1. /\ Append(notes, o) \in Seq(Things) /\ Len(notes) \in Nat /\ DOMAIN notes = 1..Len(notes)
      /\ DOMAIN Append(notes, o) = 1..(Len(notes) + 1)
      /\ \A k \in 1..Len(notes) : Append(notes, o)[k] = notes[k]
      /\ Append(notes, o)[Len(notes) + 1] = o
  BY AppendProperties, LenProperties
<1>2. \A k : k \in 1..(Len(notes) + 1) <=> k \in 1..Len(notes) \/ k = Len(notes) + 1
  BY <1>1
<1>3. Once(Append(notes, o))
  BY <1>1, <1>2 DEF Once
<1>4. \A a : (\E k \in DOMAIN Append(notes, o) : Append(notes, o)[k] = a)
               <=> (\E k \in DOMAIN notes : notes[k] = a) \/ a = o
  BY <1>1, <1>2
<1> QED BY <1>1, <1>3, <1>4

LEMMA BuildStep ==
  ASSUME ExceptionsInv, NEW o \in Things, Build(o)
  PROVE  ExceptionsInv'
<1> USE DEF ExceptionsInv
<1>1. /\ stack # <<>> /\ Here \notin Throws /\ built[o] = 0
      /\ built' = [built EXCEPT ![o] = Here]
      /\ UNCHANGED <<frames, current, copies, misused>>
      /\ frames = <<>> => stack' = stack
      /\ frames # <<>> => stack' = [stack EXCEPT ![TopFrame].cleanups = Append(@, o)]
  BY DEF Build, Running, Doing, Throws
<1>2. /\ Here \in Depths /\ Here \in Nat /\ Here >= 1
      /\ \A p \in Depths : p \in Nat /\ p <= Here
  BY <1>1, PlacesTyped DEF Here
<1>3. /\ \A q \in Tries : frames # <<>> /\ q <= TopFrame
      /\ frames # <<>> => TopFrame \in Tries
  BY <1>1, LastTry
<1>4. \A q \in Tries : ~Notes(q, o)
  BY <1>1 DEF NotesInv, TrueNotes
<1>5. /\ stack' \in Seq(ActivityType) /\ Stays
      /\ \A q \in Tries :
           /\ Once(stack'[q].cleanups)
           /\ \A a : Notes(q, a)' <=> Notes(q, a) \/ (a = o /\ q = TopFrame)
  <2>1. CASE frames = <<>>
    <3>1. stack' = stack /\ Tries = {}
      BY <1>1, <1>3, <2>1
    <3>2. Stays
      BY <3>1 DEF Stays, Alike
    <3> QED BY <3>1, <3>2 DEF ExceptionsTypeOK
  <2>2. CASE frames # <<>>
    <3> DEFINE notes == stack[TopFrame].cleanups
               more == Append(notes, o)
               s == [stack EXCEPT ![TopFrame].cleanups = more]
    <3>1. TopFrame \in Tries /\ notes \in Seq(Things) /\ Once(notes)
      BY <1>3, <2>2, TriesTyped DEF NotesInv
    <3>2. \A k \in DOMAIN notes : notes[k] # o
      BY <1>4, <3>1 DEF Notes
    <3>3. /\ more \in Seq(Things) /\ Once(more)
          /\ \A a : (\E k \in DOMAIN more : more[k] = a)
                      <=> (\E k \in DOMAIN notes : notes[k] = a) \/ a = o
      <4> HIDE DEF notes
      <4> QED BY <3>1, <3>2, NoteAdded
    <3>4. stack' = s
      BY <1>1, <2>2
    <3> HIDE DEF notes, more
    <3>5. /\ s \in Seq(ActivityType) /\ Len(s) = Len(stack) /\ s[TopFrame].cleanups = more
          /\ \A p \in Depths : p # TopFrame => s[p] = stack[p]
          /\ \A p \in Depths :
               IF stack[p].kind = "try" THEN s[p].kind = "try" /\ s[p].guard = stack[p].guard
               ELSE s[p] = stack[p]
      BY <3>1, <3>3, Renoted
    <3> HIDE DEF s
    <3>6. Stays
      BY <3>4, <3>5 DEF Stays, Alike
    <3>7. ASSUME NEW q \in Tries
          PROVE  /\ Once(stack'[q].cleanups)
                 /\ \A a : Notes(q, a)' <=> Notes(q, a) \/ (a = o /\ q = TopFrame)
      <4>1. CASE q = TopFrame
        <5>1. stack'[q].cleanups = more /\ stack[q].cleanups = notes
          BY <3>4, <3>5, <4>1 DEF notes
        <5> QED BY <3>3, <4>1, <5>1 DEF Notes
      <4>2. CASE q # TopFrame
        <5>1. stack'[q] = stack[q]
          BY <3>4, <3>5, <4>2 DEF Tries
        <5> QED BY <4>2, <5>1 DEF Notes, NotesInv
      <4> QED BY <4>1, <4>2
    <3> QED BY <3>4, <3>5, <3>6, <3>7
  <2> QED BY <2>1, <2>2
<1>6. Depths' = Depths /\ Tries' = Tries /\ Throws' = Throws
  BY <1>5, StayingPlaces
<1>7. /\ built' \in [Things -> Nat] /\ built'[o] = Here
      /\ \A a \in Things : a # o => built'[a] = built[a]
  BY <1>1, <1>2 DEF ExceptionsTypeOK
<1>8. NotesInv'
  <2>1. BuiltSomewhere'
    BY <1>1, <1>2, <1>6, <1>7 DEF NotesInv, BuiltSomewhere
  <2>2. ASSUME NEW q \in Tries, NEW a \in Things
        PROVE  (Notes(q, a) <=> built[a] # 0 /\ Noter(q, built[a]))'
    <3>1. CASE a # o
      <4>1. Notes(q, a)' <=> Notes(q, a)
        BY <1>5, <3>1
      <4>2. Noter(q, built[a])' <=> Noter(q, built[a])
        BY <1>6, <1>7, <3>1 DEF Noter
      <4> QED BY <1>7, <3>1, <4>1, <4>2 DEF NotesInv, TrueNotes
    <3>2. CASE a = o
      <4>1. Notes(q, a)' <=> q = TopFrame
        BY <1>4, <1>5, <3>2
      <4>2. \A r \in Tries : r \in Nat /\ r <= Here
        BY <1>2 DEF Tries
      <4>3. Noter(q, built[a])' <=> \A r \in Tries : r <= q
        BY <1>6, <1>7, <3>2, <4>2 DEF Noter
      <4>4. TopFrame \in Tries /\ \A r \in Tries : r <= TopFrame
        BY <1>3
      <4>5. (\A r \in Tries : r <= q) <=> q = TopFrame
        BY <4>2, <4>4
      <4>6. built'[a] # 0
        BY <1>2, <1>7, <3>2
      <4> QED BY <4>1, <4>3, <4>5, <4>6
    <3> QED BY <3>1, <3>2
  <2>3. TrueNotes'
    BY <1>6, <2>2 DEF TrueNotes
  <2> QED BY <1>5, <1>6, <2>1, <2>3 DEF NotesInv
<1>9. StackShape' /\ ExceptionsTypeOK'
  BY <1>1, <1>5, <1>7, ShapeStays DEF ExceptionsTypeOK
<1>10. HoldersInv'
  BY <1>1, <1>5, HoldersStay
<1> QED BY <1>1, <1>8, <1>9, <1>10 DEF EachDiesOnce

\* The one note of an object is found and removed.
LEMMA DestroyStep ==
  ASSUME ExceptionsInv, NEW o \in Things, Destroy(o)
  PROVE  ExceptionsInv'
<1> USE DEF ExceptionsInv
<1> DEFINE b == built[o]
<1>1. /\ stack # <<>> /\ Here \notin Throws /\ b # 0 /\ b \in {Here, Here - 1}
      /\ built' = [built EXCEPT ![o] = 0]
      /\ stack' = [i \in DOMAIN stack |->
           IF i \in Noting(o) /\ \A j \in Noting(o) : j <= i
             THEN [stack[i] EXCEPT !.cleanups = WithoutNote(@, NewestNote(@, o))] ELSE stack[i]]
      /\ UNCHANGED <<frames, current, copies, misused>>
  BY DEF Destroy, Running, Doing, Throws
<1>2. /\ Here \in Depths /\ \A p \in Depths : p \in Nat /\ p <= Here
      /\ DOMAIN stack = Depths
  BY <1>1, PlacesTyped, LenProperties DEF Here, Depths, ExceptionsTypeOK
<1>3. b \in Depths \ Throws
  BY <1>1 DEF NotesInv, BuiltSomewhere
<1>4. ASSUME NEW q \in Tries, Notes(q, o) PROVE q \in Noting(o)
  <2>1. Noter(q, b)
    BY <1>4 DEF NotesInv, TrueNotes
  <2>2. PICK r \in Tries : /\ q <= r /\ r <= b
                           /\ On(frames, r) \/ \E t \in Throws : b < t
    BY <1>3, <2>1 DEF StackShape, TryShape, Noter
  <2>3. ASSUME NEW t \in Throws, b < t PROVE FALSE
    <3>1. t \in Depths /\ t # Here
      BY <1>1 DEF Throws
    <3> QED BY <1>1, <1>2, <1>3, <2>3, <3>1
  <2>4. r = q
    <3>1. r <= q
      BY <2>1, <2>2 DEF Noter
    <3> QED BY <1>2, <2>2, <3>1 DEF Tries
  <2>5. On(frames, q)
    BY <2>2, <2>3, <2>4
  <2> QED BY <1>4, <2>5 DEF Noting, On
<1>5. ASSUME NEW q \in Noting(o) PROVE q \in Tries /\ Notes(q, o) /\ Noter(q, b)
  <2>1. Notes(q, o) /\ On(frames, q)
    BY <1>5 DEF Noting, On
  <2>2. q \in Nat
    BY <2>1, ElementOfSeq, LenProperties DEF ExceptionsTypeOK, On
  <2>3. q \in Tries
    BY <2>1, <2>2 DEF StackShape, FrameShape
  <2> QED BY <2>1, <2>3 DEF NotesInv, TrueNotes
<1>6. ASSUME NEW q \in Noting(o), NEW r \in Noting(o) PROVE q = r
  <2>1. q <= r /\ r <= q
    BY <1>5 DEF Noter
  <2> QED BY <1>2, <1>5, <2>1 DEF Tries
<1>7. /\ built' \in [Things -> Nat]
      /\ \A a \in Things : built'[a] = IF a \in {o} THEN 0 ELSE built[a]
  BY <1>1 DEF ExceptionsTypeOK
<1>8. stack' \in Seq(ActivityType) /\ Stays /\ LosesNotesOf({o})
  <2>1. CASE Noting(o) = {}
    <3>1. stack' = [i \in DOMAIN stack |-> stack[i]]
      BY <1>1, <2>1
    <3>2. stack \in Seq(ActivityType)
      BY DEF ExceptionsTypeOK
    <3>3. stack' = stack
      BY <3>1, <3>2, LenProperties
    <3>4. Stays
      BY <3>3 DEF Stays, Alike
    <3>5. ASSUME NEW q \in Tries
          PROVE  /\ \A a \in Things : Notes(q, a)' <=> Notes(q, a) /\ a \notin {o}
                 /\ Once(stack'[q].cleanups)
      <4>1. ~Notes(q, o)
        BY <1>4, <2>1
      <4>2. \A a : Notes(q, a)' <=> Notes(q, a)
        BY <3>3 DEF Notes
      <4>3. Once(stack'[q].cleanups)
        BY <3>3 DEF NotesInv
      <4> QED BY <4>1, <4>2, <4>3
    <3> QED BY <1>7, <3>2, <3>3, <3>4, <3>5 DEF LosesNotesOf
  <2>2. CASE Noting(o) # {}
    <3>1. PICK i \in Noting(o) : TRUE
      BY <2>2
    <3>2. i \in Tries /\ Notes(i, o) /\ i \in Depths /\ i \in Nat
      BY <1>2, <1>5, <3>1 DEF Tries
    <3>3. \A p : (p \in Noting(o) /\ \A j \in Noting(o) : j <= p) <=> p = i
      <4>1. \A j \in Noting(o) : j = i
        BY <1>6, <3>1
      <4>2. i <= i
        BY <3>2
      <4> QED BY <3>1, <4>1, <4>2
    <3> DEFINE notes == stack[i].cleanups
               k == NewestNote(notes, o)
               s == [stack EXCEPT ![i].cleanups = WithoutNote(notes, k)]
    <3>4. notes \in Seq(Things) /\ Once(notes)
      BY <3>2, TriesTyped DEF NotesInv
    <3>5. k \in DOMAIN notes /\ notes[k] = o
      <4>1. PICK m \in DOMAIN notes : notes[m] = o
        BY <3>2 DEF Notes
      <4>2. m \in Nat
        BY <3>4, LenProperties
      <4>3. \A n \in DOMAIN notes : notes[n] = o => n <= m
        <5>1. \A n \in DOMAIN notes : notes[n] = o => n = m
          BY <3>4, <4>1 DEF Once
        <5> QED BY <4>2, <5>1
      <4> HIDE DEF notes
      <4> QED BY <4>1, <4>3 DEF NewestNote
    <3>6. WithoutNote(notes, k) \in Seq(Things)
      <4> HIDE DEF notes, k
      <4> QED BY <3>4, <3>5, WithoutNoteFacts
    <3>7. stack' = s
      <4>1. stack' = [p \in DOMAIN stack |->
              IF p = i THEN [stack[i] EXCEPT !.cleanups = WithoutNote(notes, k)] ELSE stack[p]]
        BY <1>1, <3>3
      <4> HIDE DEF k, notes
      <4>2. stack = [p \in DOMAIN stack |-> stack[p]]
        BY LenProperties DEF ExceptionsTypeOK
      <4> QED BY <4>1, <4>2
    <3>8. /\ s \in Seq(ActivityType) /\ Len(s) = Len(stack)
          /\ s[i].cleanups = WithoutNote(notes, k)
          /\ \A p \in Depths : p # i => s[p] = stack[p]
          /\ \A p \in Depths :
               IF stack[p].kind = "try" THEN s[p].kind = "try" /\ s[p].guard = stack[p].guard
               ELSE s[p] = stack[p]
      <4> HIDE DEF k
      <4> QED BY <3>2, <3>6, Renoted
    <3> HIDE DEF s
    <3>9. Stays
      BY <3>7, <3>8 DEF Stays, Alike
    <3>10. \A q \in Tries : q # i => stack'[q].cleanups = stack[q].cleanups
      BY <3>7, <3>8 DEF Tries
    <3>11. \A q \in Tries :
             /\ \A a \in Things : Notes(q, a)' <=> Notes(q, a) /\ a \notin {o}
             /\ Once(stack'[q].cleanups)
      <4>1. stack'[i].cleanups = WithoutNote(notes, k)
        BY <3>7, <3>8
      <4> HIDE DEF k
      <4> QED BY <3>2, <3>5, <3>10, <4>1, NoteTaken
    <3> QED BY <1>7, <3>7, <3>8, <3>9, <3>11 DEF LosesNotesOf
  <2> QED BY <2>1, <2>2
<1>9. NotesInv'
  BY <1>8, NotesStay
<1>10. StackShape' /\ ExceptionsTypeOK'
  BY <1>1, <1>7, <1>8, ShapeStays DEF ExceptionsTypeOK
<1>11. HoldersInv'
  BY <1>1, <1>8, HoldersStay
<1> QED BY <1>1, <1>9, <1>10, <1>11 DEF EachDiesOnce

LEMMA ExceptionsInvInit == ExceptionsInit => ExceptionsInv
<1> SUFFICES ASSUME ExceptionsInit PROVE ExceptionsInv
  OBVIOUS
<1> DEFINE m == [kind |-> "main"]
<1>1. /\ stack = <<m>> /\ frames = <<>> /\ current = NoCurrent
      /\ built = [o \in Things |-> 0] /\ copies = [e \in Exceptions |-> "none"]
      /\ misused = {}
  BY DEF ExceptionsInit
<1>2. m \in ActivityType /\ m.kind = "main"
  BY DEF ActivityType, PlainType
<1> HIDE DEF m
<1>3. stack \in Seq(ActivityType) /\ Len(stack) = 1 /\ stack[1] = m
  BY <1>1, <1>2
<1>4. Depths = {1} /\ Tries = {} /\ Throws = {} /\ Handlers = {} /\ Carriers = {}
  <2>1. Depths = {1}
    BY <1>3 DEF Depths
  <2> QED BY <1>2, <1>3, <2>1 DEF Tries, Throws, Handlers, Carriers
<1>5. ExceptionsTypeOK
  BY <1>1, <1>3 DEF ExceptionsTypeOK, NoCurrent
<1>6. StackShape
  BY <1>1, <1>4 DEF StackShape, FrameShape, ThrowShape, TryShape, On, Rising
<1>7. NotesInv
  BY <1>1, <1>4 DEF NotesInv, TrueNotes, BuiltSomewhere
<1>8. HoldersInv
  BY <1>4 DEF HoldersInv, HandlerShape, CopiesInv
<1> QED BY <1>1, <1>5, <1>6, <1>7, <1>8 DEF ExceptionsInv, EachDiesOnce

LEMMA ExceptionsInvNext ==
  ASSUME QuietHandlers, ExceptionsInv, [ExceptionsNext]_exceptionVars
  PROVE  ExceptionsInv'
<1>1. CASE UNCHANGED exceptionVars
  <2>1. UNCHANGED <<stack, frames, current, built, copies, misused>>
    BY <1>1 DEF exceptionVars
  <2>2. /\ Tries' = Tries /\ Throws' = Throws /\ Handlers' = Handlers /\ Depths' = Depths
        /\ Carriers' = Carriers
    BY <2>1 DEF Depths, Tries, Throws, Handlers, Carriers
  <2>3. ExceptionsTypeOK' /\ EachDiesOnce'
    BY <2>1 DEF ExceptionsInv, ExceptionsTypeOK, EachDiesOnce
  <2>4. StackShape'
    BY <2>1, <2>2 DEF ExceptionsInv, StackShape, FrameShape, ThrowShape, TryShape
  <2>5. NotesInv'
    BY <2>1, <2>2 DEF ExceptionsInv, NotesInv, TrueNotes, BuiltSomewhere, Notes, Noter
  <2>6. HoldersInv'
    BY <2>1, <2>2 DEF ExceptionsInv, HoldersInv, HandlerShape, CopiesInv, ThrownBetween
  <2> QED BY <2>3, <2>4, <2>5, <2>6 DEF ExceptionsInv
<1>2. CASE BuildFails
  BY <1>2, ExitStep DEF BuildFails
<1>3. CASE \E e \in Exceptions, cleanup \in BOOLEAN : Throw(e, cleanup)
  BY <1>3, ThrowStep
<1>4. CASE \E o \in Things : Build(o) \/ Destroy(o)
  BY <1>4, BuildStep, DestroyStep
<1> QED BY <1>1, <1>2, <1>3, <1>4, TryStep, LeavingStep, LeaveUnwindsStep, LeftStep,
           DestructorReturnsStep, ThrowUnwindsStep, CaughtStep, ReleaseStep, RethrowStep
    DEF ExceptionsNext

\* As long as nothing but what it caught is thrown out of a handler or in it,
\* every object dies once and every copy of a thrown object is destroyed and
\* freed once, on however deep a stack and through whatever destructors.
THEOREM AllDieOnce == QuietHandlers => (ExceptionsSpec => []EachDiesOnce)
<1> SUFFICES ASSUME QuietHandlers PROVE ExceptionsSpec => []EachDiesOnce
  OBVIOUS
<1>1. ExceptionsInv /\ [ExceptionsNext]_exceptionVars => ExceptionsInv'
  BY ExceptionsInvNext
<1>2. ExceptionsInv => EachDiesOnce
  BY DEF ExceptionsInv
<1> QED BY ExceptionsInvInit, <1>1, <1>2, PTL DEF ExceptionsSpec

=============================================================================
