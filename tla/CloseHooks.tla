----------------------------- MODULE CloseHooks -----------------------------
(***************************************************************************)
(* The object close hooks of the SDK core (rinsdk_v1.c).  Libraries        *)
(* register a hook with a token, or for the life of the process, and       *)
(* unregister it before they are unloaded; every object close calls the    *)
(* hooks it noted, without the lock.  What the code does under the spin    *)
(* lock is one step.                                                       *)
(***************************************************************************)
EXTENDS Naturals, FiniteSets

CONSTANTS
  HookSlots,       \* RIN_SDK_OBJECT_CLOSE_HOOK_CAPACITY_V1
  MaxHookGen,      \* RIN_SDK_OBJECT_CLOSE_HOOK_GENERATION_MAX_V1
  MaxInFlight,     \* UINT64_MAX, the limit of in_flight
  Closers,         \* threads that close objects
  Hooks,           \* functions, each in a module that can be unloaded
  NoHook           \* NULL

ASSUME HookLimitsAssumption ==
  HookSlots \in Nat \ {0} /\ MaxHookGen \in Nat \ {0} /\ MaxInFlight \in Nat \ {0}
ASSUME NoHookAssumption == NoHook \notin Hooks

VARIABLES
  entries,         \* g_object_close_hooks
  nextGen,         \* g_object_close_hook_next_generation
  exhausted,       \* g_object_close_hook_generation_exhausted
  calls,           \* per closer: the noted slots still to be called, and their entry
  issued,          \* every token handed out: [slot, generation]
  retired          \* history: tokens whose unregistration succeeded

hookVars == <<entries, nextGen, exhausted, calls, issued, retired>>

EmptyEntry ==
  [hook |-> NoHook, generation |-> 0, in_flight |-> 0, active |-> FALSE,
   process_lifetime |-> FALSE]
Indices == 1..HookSlots

HooksInit ==
  /\ entries = [i \in Indices |-> EmptyEntry]
  /\ nextGen = 1
  /\ exhausted = FALSE
  /\ calls = [c \in Closers |-> <<>>]
  /\ issued = {}
  /\ retired = {}

Registered(h) == \E i \in Indices : entries[i].hook = h

\* The first slot whose hook is NULL.
FreeIndex(i) ==
  /\ entries[i].hook = NoHook
  /\ \A j \in 1..(i - 1) : entries[j].hook # NoHook

-----------------------------------------------------------------------------
\* rin_sdk_register_object_close_hook_v1: for the life of the process.  A hook
\* that is active already is promoted; one that drains is refused.
RegisterForLife(h) ==
  /\ \/ \E i \in Indices :
          /\ entries[i].hook = h
          /\ entries[i].active
          /\ entries' = [entries EXCEPT ![i].process_lifetime = TRUE]
     \/ \E i \in Indices :
          /\ ~Registered(h)
          /\ FreeIndex(i)
          /\ entries' = [entries EXCEPT ![i] =
               [EmptyEntry EXCEPT !.hook = h, !.active = TRUE, !.process_lifetime = TRUE]]
  /\ UNCHANGED <<nextGen, exhausted, calls, issued, retired>>

\* The counter stops at its maximum and is not handed out twice.
NextGeneration ==
  /\ exhausted' = (nextGen = MaxHookGen)
  /\ nextGen' = IF nextGen = MaxHookGen THEN nextGen ELSE nextGen + 1

\* rin_sdk_register_object_close_hook_owned_v1.
RegisterOwned(h) ==
  /\ ~Registered(h)
  /\ ~exhausted
  /\ \E i \in Indices :
       /\ FreeIndex(i)
       /\ entries' = [entries EXCEPT ![i] =
            [EmptyEntry EXCEPT !.hook = h, !.generation = nextGen, !.active = TRUE]]
       /\ issued' = issued \cup {[slot |-> i, generation |-> nextGen]}
  /\ NextGeneration
  /\ UNCHANGED <<calls, retired>>

\* Mutant: calls under way are not waited for.
MayFreeAlways(e) == TRUE

MayFree(e) == e.in_flight = 0

\* rin_sdk_unregister_object_close_hook_v1 with any token ever handed out.  The
\* first call makes the entry inactive, the one that finds no call under way
\* frees it.
Unregister(k) ==
  LET e == entries[k.slot]
  IN  /\ e.hook # NoHook
      /\ e.generation = k.generation
      /\ ~e.process_lifetime
      /\ IF MayFree(e)
           THEN /\ entries' = [entries EXCEPT ![k.slot] = EmptyEntry]
                /\ retired' = retired \cup {k}
           ELSE /\ entries' = [entries EXCEPT ![k.slot].active = FALSE]
                /\ UNCHANGED retired
  /\ UNCHANGED <<nextGen, exhausted, calls, issued>>

-----------------------------------------------------------------------------
(* rin_sdk_notify_object_close_v1, called by rin_object_close_v1.           *)

ActiveIndices == {i \in Indices : entries[i].hook # NoHook /\ entries[i].active}

\* Mutant: every hook in the table is noted, also those that drain.
NotedAll == {i \in Indices : entries[i].hook # NoHook}

Noted == ActiveIndices

\* The hooks to call are noted and their entries held in one locked piece.
BeginClose(c) ==
  /\ calls[c] = <<>>
  /\ \A i \in ActiveIndices : entries[i].in_flight < MaxInFlight
  /\ Noted # {}
  /\ entries' = [i \in Indices |->
       IF i \in Noted THEN [entries[i] EXCEPT !.in_flight = @ + 1] ELSE entries[i]]
  /\ \E order \in {f \in [1..Cardinality(Noted) -> Noted] :
                     \A a, b \in DOMAIN f : a < b => f[a] < f[b]} :
       calls' = [calls EXCEPT ![c] = [n \in DOMAIN order |->
         [slot |-> order[n], hook |-> entries[order[n]].hook,
          generation |-> entries[order[n]].generation]]]
  /\ UNCHANGED <<nextGen, exhausted, issued, retired>>

\* Only the registration that was called is let go.
Releases(e, call) == e.hook = call.hook /\ e.generation = call.generation

\* The hook that is being called returns; the next one is called.
HookReturns(c) ==
  /\ calls[c] # <<>>
  /\ LET call == calls[c][1]
         e == entries[call.slot]
     IN  entries' = IF Releases(e, call) /\ e.in_flight # 0
                      THEN [entries EXCEPT ![call.slot].in_flight = @ - 1]
                      ELSE entries
  /\ calls' = [calls EXCEPT ![c] = [n \in 1..(Cardinality(DOMAIN @) - 1) |-> @[n + 1]]]
  /\ UNCHANGED <<nextGen, exhausted, issued, retired>>

HooksNext ==
  \/ \E h \in Hooks : RegisterForLife(h) \/ RegisterOwned(h)
  \/ \E k \in issued : Unregister(k)
  \/ \E c \in Closers : BeginClose(c) \/ HookReturns(c)

\* Hooks return, and a module that is told BUSY asks again with its token.
RetryUnregister(i) ==
  /\ entries[i].hook # NoHook /\ ~entries[i].active
  /\ \E k \in issued : k.slot = i /\ Unregister(k)
HooksFairness ==
  /\ \A c \in Closers : WF_hookVars(HookReturns(c))
  /\ \A i \in Indices : WF_hookVars(RetryUnregister(i))

HooksSpec == HooksInit /\ [][HooksNext]_hookVars /\ HooksFairness

-----------------------------------------------------------------------------
(* Properties.                                                              *)

\* Unloading after a successful unregistration is safe: the calls a close has
\* noted and not finished are of entries that are still there, in the same
\* registration, so none enters a module whose token was retired.  A token is
\* single-use (base.h:20): once retired it names no later registration of its
\* slot, and no two registrations have the same one, so that an old token cannot
\* free a hook that another library still relies on.
UnloadIsSafe ==
  /\ \A c \in Closers : \A n \in DOMAIN calls[c] :
       LET call == calls[c][n]
           e == entries[call.slot]
       IN  /\ e.hook = call.hook
           /\ e.generation = call.generation
           /\ e.in_flight > 0
  /\ \A k \in retired : entries[k.slot].generation # k.generation
  /\ \A i, j \in Indices :
       (i # j /\ entries[i].generation # 0) => entries[i].generation # entries[j].generation

\* A registration that drains is freed: no close that began afterwards holds it
\* up, and every call that holds it is counted exactly once.
DrainsEnd ==
  \A i \in Indices :
    (entries[i].hook # NoHook /\ ~entries[i].active) ~> (entries[i].hook = NoHook)
=============================================================================
