----------------------------- MODULE PidEffects -----------------------------
(***************************************************************************)
(* The effect pool of a gamepad (gamepad_pid_effects_v1.c).  Applications  *)
(* create, start, stop and destroy effects; each call gives up the lock    *)
(* around its authorize and submit callbacks.  A submission reaches the    *)
(* device at some moment before its callback returns.                      *)
(***************************************************************************)
EXTENDS Naturals, FiniteSets

CONSTANTS
  PoolThreads,    \* callers
  PoolSlots,      \* RIN_USB_HID_GAMEPAD_PID_EFFECTS_MAX_EFFECTS
  MaxSequence     \* UINT32_MAX, the limit of the sequence

VARIABLES
  pool,           \* RinUsbHidGamepadPidEffectsOwnerV1
  poolSlots,      \* its slots: the effect and whether it runs
  poolCalls,      \* per caller: the operation under way
  poolPlaying,    \* the device: the effects that play
  poolTangled     \* history: the effects that a call or a recovery came upon
                  \* while another call was out on their slot, and numbers that
                  \* create gave again while they were in use

poolVars == <<pool, poolSlots, poolCalls, poolPlaying, poolTangled>>

SlotIndices == 1..PoolSlots

NoEffect == [id |-> 0, running |-> FALSE]
PoolNoCall == [op |-> "none", id |-> 0, slot |-> 0, pc |-> "idle"]

PoolInit ==
  /\ pool = [attached |-> TRUE, sequence |-> 0, recovery |-> FALSE, callback |-> FALSE]
  /\ poolSlots = [i \in SlotIndices |-> NoEffect]
  /\ poolCalls = [t \in PoolThreads |-> PoolNoCall]
  /\ poolPlaying = {}
  /\ poolTangled = {}

SlotWith(i, id) == poolSlots[i].id = id /\ \A j \in 1..(i - 1) : poolSlots[j].id # id

\* The checks of each operation, with the lock held.  destroy does not look at the
\* callback flag, and clears it when its authorization returns.
PoolAdmits(op, id, i) ==
  /\ pool.attached /\ ~pool.recovery
  /\ SlotWith(i, id)
  /\ CASE op = "create" -> id = 0 /\ pool.sequence < MaxSequence /\ ~pool.callback
       [] op = "start" -> id # 0 /\ ~poolSlots[i].running /\ ~pool.callback
       [] op = "stop" -> id # 0 /\ poolSlots[i].running /\ ~pool.callback
       [] op = "destroy" -> id # 0 /\ ~poolSlots[i].running

\* Every operation authorizes first; start marks the effect before it asks.
PoolBegin(t, op, i) ==
  LET id == poolSlots[i].id
  IN  /\ poolCalls[t] = PoolNoCall /\ PoolAdmits(op, id, i)
      /\ poolCalls' = [poolCalls EXCEPT ![t] =
           [op |-> op, id |-> id, slot |-> i, pc |-> "authorize"]]
      /\ poolSlots' = IF op = "start" THEN [poolSlots EXCEPT ![i].running = TRUE] ELSE poolSlots
      /\ pool' = [pool EXCEPT !.callback = TRUE]
      /\ poolTangled' = IF id # 0 /\ \E u \in PoolThreads : poolCalls[u].slot = i
                          THEN poolTangled \cup {id} ELSE poolTangled
      /\ UNCHANGED poolPlaying

PoolEnd(t) == poolCalls' = [poolCalls EXCEPT ![t] = PoolNoCall]

\* Mutant: a refused start takes its mark back and forgets that the device may
\* have started.
SubmissionFailedQuietly(call) ==
  /\ pool' = [pool EXCEPT !.callback = FALSE]
  /\ poolSlots' = IF call.op = "start" THEN [poolSlots EXCEPT ![call.slot].running = FALSE]
                                        ELSE poolSlots

\* start and stop after a refusal, by the authorization or by the device.
SubmissionFailed(call) ==
  /\ pool' = [pool EXCEPT !.callback = FALSE, !.recovery = TRUE]
  /\ poolSlots' = IF call.op = "start" THEN [poolSlots EXCEPT ![call.slot].running = FALSE]
                                        ELSE poolSlots

PoolReturned == [pool EXCEPT !.callback = FALSE]

PoolUses(id) ==
  \/ id \in poolPlaying
  \/ \E i \in SlotIndices : poolSlots[i].id = id
  \/ \E u \in PoolThreads : poolCalls[u].id = id

\* create takes the next number, which tick uses up as well and while the
\* authorization is out; after the last number comes 1.
Created(t) ==
  LET next == IF pool.sequence = MaxSequence THEN 1 ELSE pool.sequence + 1
  IN  /\ PoolEnd(t)
      /\ pool' = [PoolReturned EXCEPT !.sequence = next]
      /\ poolSlots' = [poolSlots EXCEPT ![poolCalls[t].slot].id = next]
      /\ poolTangled' = IF PoolUses(next) THEN poolTangled \cup {next} ELSE poolTangled

Destroyed(t) ==
  /\ PoolEnd(t)
  /\ pool' = PoolReturned
  /\ poolSlots' = [poolSlots EXCEPT ![poolCalls[t].slot] = NoEffect]
  /\ UNCHANGED poolTangled

\* start and stop go on to submit, create and destroy are done; without the
\* authorization, or after a detach, nothing of that happens.
Authorized(t, granted) ==
  LET call == poolCalls[t]
      submits == call.op \in {"start", "stop"}
      proceeds == granted /\ pool.attached
  IN  /\ call.pc = "authorize"
      /\ \/ /\ proceeds /\ submits
            /\ poolCalls' = [poolCalls EXCEPT ![t].pc = "submit"]
            /\ pool' = [pool EXCEPT !.callback = TRUE]
            /\ UNCHANGED <<poolSlots, poolTangled>>
         \/ proceeds /\ call.op = "create" /\ Created(t)
         \/ proceeds /\ call.op = "destroy" /\ Destroyed(t)
         \/ /\ ~proceeds /\ submits
            /\ PoolEnd(t) /\ SubmissionFailed(call) /\ UNCHANGED poolTangled
         \/ /\ ~proceeds /\ ~submits
            /\ PoolEnd(t) /\ pool' = PoolReturned /\ UNCHANGED <<poolSlots, poolTangled>>
      /\ UNCHANGED poolPlaying

\* The device does as it is told, if the submission reaches it.
PoolActs(t) ==
  LET call == poolCalls[t]
  IN  /\ call.pc = "submit"
      /\ poolCalls' = [poolCalls EXCEPT ![t].pc = "submitted"]
      /\ poolPlaying' = IF call.op = "start" THEN poolPlaying \cup {call.id}
                                              ELSE poolPlaying \ {call.id}
      /\ UNCHANGED <<pool, poolSlots, poolTangled>>

\* The submit callback returns; it says it was accepted only if it was.
Submitted(t, accepted) ==
  LET call == poolCalls[t]
      current == pool.attached /\ \E i \in SlotIndices : poolSlots[i].id = call.id
  IN  /\ call.pc = "submitted" \/ (call.pc = "submit" /\ ~accepted)
      /\ PoolEnd(t)
      /\ IF accepted /\ current
           THEN /\ pool' = [pool EXCEPT !.callback = FALSE]
                /\ poolSlots' = IF call.op = "stop" THEN [poolSlots EXCEPT ![call.slot].running = FALSE]
                                                     ELSE poolSlots
           ELSE SubmissionFailed(call)
      /\ UNCHANGED <<poolPlaying, poolTangled>>

\* tick: the running effects are mixed and a number is used up.
PoolTick ==
  /\ pool.attached /\ ~pool.recovery /\ pool.sequence < MaxSequence
  /\ pool' = [pool EXCEPT !.sequence = @ + 1]
  /\ UNCHANGED <<poolSlots, poolCalls, poolPlaying, poolTangled>>

\* recover and detach send nothing: their privileged caller has silenced the
\* device by other means before.
PoolRecover ==
  /\ pool.attached /\ ~pool.callback
  /\ pool' = [pool EXCEPT !.recovery = FALSE]
  /\ poolSlots' = [i \in SlotIndices |-> [poolSlots[i] EXCEPT !.running = FALSE]]
  /\ poolPlaying' = {}
  /\ poolTangled' = poolTangled \cup
       {poolCalls[u].id : u \in {v \in PoolThreads : poolCalls[v].op \in {"start", "stop"}}}
  /\ UNCHANGED poolCalls

PoolDetach ==
  /\ pool.attached /\ ~pool.callback
  /\ pool' = [pool EXCEPT !.attached = FALSE]
  /\ poolSlots' = [i \in SlotIndices |-> NoEffect]
  /\ poolPlaying' = {}
  /\ UNCHANGED <<poolCalls, poolTangled>>

PoolNext ==
  \/ \E t \in PoolThreads :
       \/ \E op \in {"create", "start", "stop", "destroy"}, i \in SlotIndices : PoolBegin(t, op, i)
       \/ \E yes \in BOOLEAN : Authorized(t, yes) \/ Submitted(t, yes)
       \/ PoolActs(t)
  \/ PoolTick \/ PoolRecover \/ PoolDetach

PoolSpec == PoolInit /\ [][PoolNext]_poolVars

-----------------------------------------------------------------------------
(* Properties.                                                              *)

Submitting(id) == \E t \in PoolThreads : poolCalls[t].id = id /\ poolCalls[t].pc # "idle"

\* An effect that plays can be stopped, whatever else goes on: its slot says it
\* runs, or its start or stop is under way, or recovery is required.  The effects
\* that tangled calls lost are the exceptions, and no others: a destroy of another
\* effect, which clears the flag that keeps calls apart, a tick or a refused
\* submission never costs an effect its stop.
PlayingCanBeStopped ==
  \A id \in poolPlaying \ poolTangled :
    \/ pool.recovery
    \/ Submitting(id)
    \/ \E i \in SlotIndices : poolSlots[i] = [id |-> id, running |-> TRUE]
=============================================================================
