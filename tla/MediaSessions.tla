---------------------------- MODULE MediaSessions ---------------------------
(***************************************************************************)
(* The session table of the media client (rinmedia_sdk_client_v1.c): 64    *)
(* slots, each with an atomic state and a spin lock of its own, used by    *)
(* the threads of a process without any lock around the table.  A thread   *)
(* takes one step per atomic access or locked piece.                       *)
(*                                                                         *)
(* A fork is followed into the child: the table is copied as it stands and *)
(* the threads that were not forking are gone.                             *)
(***************************************************************************)
EXTENDS Naturals, FiniteSets

CONSTANTS
  NumSlots,      \* RIN_MEDIA_MDC1_MAX_SESSIONS
  Threads,
  Objects,       \* kernel object handles
  NoObject,      \* RIN_OBJECT_HANDLE_INVALID
  MaxPid         \* bound: the first process is 1, each fork adds one

ASSUME NumSlotsAssumption == NumSlots \in Nat \ {0}
ASSUME NoObjectAssumption == NoObject \notin Objects

VARIABLES
  rows,          \* g_media_sessions
  threads,       \* where each thread is, on which slot, for which object
  pid,           \* this process; a row's owner_pid is compared with it
  abandoned      \* history: slots that the fork left reserved

mediaVars == <<rows, threads, pid, abandoned>>

Slots == 1..NumSlots

Free == 0
Live == 1
Reserved == 2

IdleThread == [pc |-> "idle", slot |-> 0, object |-> NoObject]
FreeRow == [state |-> Free, lock |-> FALSE, object |-> NoObject, owner |-> 0]

MediaInit ==
  /\ rows = [i \in Slots |-> FreeRow]
  /\ threads = [t \in Threads |-> IdleThread]
  /\ pid = 1
  /\ abandoned = {}

At(t, pc) == threads[t].pc = pc
Goto(t, pc) == threads' = [threads EXCEPT ![t].pc = pc]
Finish(t) == threads' = [threads EXCEPT ![t] = IdleThread]
SlotOf(t) == threads[t].slot
Row(t) == rows[SlotOf(t)]
SetRow(t, row) == rows' = [rows EXCEPT ![SlotOf(t)] = row]

\* The scan of find_locked goes on with the next slot, or finds nothing.
NextSlot(t) ==
  IF SlotOf(t) + 1 \in Slots
    THEN threads' = [threads EXCEPT ![t].pc = "scan", ![t].slot = @ + 1]
    ELSE Finish(t)

-----------------------------------------------------------------------------
(* Opening.                                                                 *)

\* session_reserve: the compare-and-swap that takes a free slot.
Reserve(t) ==
  /\ At(t, "idle")
  /\ \E i \in Slots, o \in Objects :
       /\ rows[i].state = Free
       /\ rows' = [rows EXCEPT ![i].state = Reserved]
       /\ threads' = [threads EXCEPT ![t] = [pc |-> "reset", slot |-> i, object |-> o]]
  /\ UNCHANGED <<pid, abandoned>>

\* The rest of session_reserve: every field but the state, the lock too.
ResetReserved(t) ==
  /\ At(t, "reset")
  /\ SetRow(t, [FreeRow EXCEPT !.state = Row(t).state])
  /\ Goto(t, "opening")
  /\ UNCHANGED <<pid, abandoned>>

\* An image's session gets its object and its owner before the service is asked.
OwnReserved(t) ==
  /\ At(t, "opening")
  /\ SetRow(t, [Row(t) EXCEPT !.object = threads[t].object, !.owner = pid])
  /\ UNCHANGED <<threads, pid, abandoned>>

\* The service answered: the session is filled in and published.
Publish(t) ==
  /\ At(t, "opening")
  /\ SetRow(t, [Row(t) EXCEPT !.state = Live, !.object = threads[t].object, !.owner = pid])
  /\ Finish(t)
  /\ UNCHANGED <<pid, abandoned>>

\* It did not: session_discard_reserved.
DiscardReserved(t) ==
  /\ At(t, "opening")
  /\ SetRow(t, [FreeRow EXCEPT !.lock = Row(t).lock])
  /\ Finish(t)
  /\ UNCHANGED <<pid, abandoned>>

-----------------------------------------------------------------------------
(* Finding the session of an object, for a request or for the close hook.  *)

Find(t) ==
  /\ At(t, "idle")
  /\ \E o \in Objects :
       threads' = [threads EXCEPT ![t] = [pc |-> "scan", slot |-> 1, object |-> o]]
  /\ UNCHANGED <<rows, pid, abandoned>>

ScanState(t) ==
  /\ At(t, "scan")
  /\ IF Row(t).state = Live THEN Goto(t, "owner") ELSE NextSlot(t)
  /\ UNCHANGED <<rows, pid, abandoned>>

\* Mutant: an inherited row is locked like one of this process.
ScanForeign(t) ==
  /\ At(t, "owner")
  /\ Goto(t, "lock")
  /\ UNCHANGED <<rows, pid, abandoned>>

ScanOwner(t) ==
  /\ At(t, "owner")
  /\ Goto(t, IF Row(t).owner = pid THEN "lock" ELSE "retire")
  /\ UNCHANGED <<rows, pid, abandoned>>

\* session_discard_inherited: another thread may have been faster.
Retire(t) ==
  /\ At(t, "retire")
  /\ IF Row(t).state = Live
       THEN SetRow(t, [Row(t) EXCEPT !.state = Reserved]) /\ Goto(t, "retiring")
       ELSE NextSlot(t) /\ UNCHANGED rows
  /\ UNCHANGED <<pid, abandoned>>

Retired(t) ==
  /\ At(t, "retiring")
  /\ SetRow(t, FreeRow)
  /\ NextSlot(t)
  /\ UNCHANGED <<pid, abandoned>>

TakeLock(t) ==
  /\ At(t, "lock")
  /\ ~Row(t).lock
  /\ SetRow(t, [Row(t) EXCEPT !.lock = TRUE])
  /\ Goto(t, "check")
  /\ UNCHANGED <<pid, abandoned>>

Matches(t) == Row(t).state = Live /\ Row(t).object = threads[t].object

Recheck(t) ==
  /\ At(t, "check")
  /\ Goto(t, IF Matches(t) /\ Row(t).owner = pid THEN "held" ELSE "pass")
  /\ UNCHANGED <<rows, pid, abandoned>>

Unlock(t) == SetRow(t, [Row(t) EXCEPT !.lock = FALSE])

PassOn(t) ==
  /\ At(t, "pass")
  /\ Unlock(t)
  /\ NextSlot(t)
  /\ UNCHANGED <<pid, abandoned>>

-----------------------------------------------------------------------------
(* With the session locked.                                                 *)

\* A request that is answered, or the row is no longer the caller's.
Served(t) ==
  /\ At(t, "held")
  /\ Unlock(t)
  /\ Finish(t)
  /\ UNCHANGED <<pid, abandoned>>

\* A request that failed, or the close hook: session_drop_locked.  The state is
\* not read again after the I/O.
Drop(t) ==
  /\ At(t, "held")
  /\ SetRow(t, [FreeRow EXCEPT !.state = Reserved, !.lock = Row(t).lock])
  /\ Goto(t, "unlock")
  /\ UNCHANGED <<pid, abandoned>>

\* A request that failed without ending the session, and finds the row reserved
\* all the same, frees it as one that did.
FreeReserved(t) ==
  /\ At(t, "held")
  /\ Row(t).state = Reserved
  /\ Goto(t, "unlock")
  /\ UNCHANGED <<rows, pid, abandoned>>

\* session_unlock_free: the lock first, the state after it.
DropUnlock(t) ==
  /\ At(t, "unlock")
  /\ Unlock(t)
  /\ Goto(t, "free")
  /\ UNCHANGED <<pid, abandoned>>

DropFree(t) ==
  /\ At(t, "free")
  /\ SetRow(t, [Row(t) EXCEPT !.state = Free])
  /\ Finish(t)
  /\ UNCHANGED <<pid, abandoned>>

-----------------------------------------------------------------------------
\* An idle thread forks; the child goes on with it alone.
Fork(t) ==
  /\ At(t, "idle")
  /\ pid < MaxPid
  /\ pid' = pid + 1
  /\ threads' = [u \in Threads |-> IdleThread]
  /\ abandoned' = {i \in Slots : rows[i].state = Reserved}
  /\ UNCHANGED rows

Opening(t) ==
  Reserve(t) \/ ResetReserved(t) \/ OwnReserved(t) \/ Publish(t) \/ DiscardReserved(t)
Finding(t) ==
  \/ Find(t) \/ ScanState(t) \/ ScanOwner(t) \/ Retire(t) \/ Retired(t)
  \/ TakeLock(t) \/ Recheck(t) \/ PassOn(t)
Using(t) == Served(t) \/ Drop(t) \/ FreeReserved(t) \/ DropUnlock(t) \/ DropFree(t)

MediaNext == \E t \in Threads : Opening(t) \/ Finding(t) \/ Using(t) \/ Fork(t)

MediaSpec == MediaInit /\ [][MediaNext]_mediaVars

-----------------------------------------------------------------------------
(* Properties.                                                              *)

Holds(t, i) == SlotOf(t) = i /\ threads[t].pc \in {"check", "pass", "held", "unlock"}

\* A session's requests and its end are one at a time: two threads are never
\* between lock and unlock of one slot, also when the slot was given to another
\* session while one of them waited.
OneHolder ==
  \A i \in Slots : Cardinality({t \in Threads : Holds(t, i)}) <= 1

\* A live session of this process ends only by a thread that holds its lock;
\* retiring rows without the lock is for sessions inherited by a fork.
EndsUnderItsLock ==
  [][\A i \in Slots :
       (/\ pid' = pid
        /\ rows[i].state = Live /\ rows[i].owner = pid
        /\ rows'[i].state # Live)
       => \E t \in Threads : Holds(t, i)]_mediaVars

\* Whoever waits for a lock that is taken waits for a thread of this process, not
\* for one that was lost in a fork; and a slot that is reserved is in the hands of
\* some thread, or was left so by the fork: no slot is lost for good, whatever the
\* order of opens, requests and closes.
LocksAreHeld ==
  \A i \in Slots :
    /\ (rows[i].lock /\ \E t \in Threads : SlotOf(t) = i /\ At(t, "lock"))
         => \E u \in Threads : Holds(u, i)
    /\ (rows[i].state = Reserved /\ i \notin abandoned)
         => \E u \in Threads :
              /\ SlotOf(u) = i
              /\ threads[u].pc \in {"reset", "opening", "retiring", "unlock", "free"}
=============================================================================
