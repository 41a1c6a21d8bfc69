----------------------------- MODULE PidActuator ----------------------------
(***************************************************************************)
(* The PID actuator (gamepad_pid_actuator_v1.c): one of several effects of *)
(* a device at a time, driven by an application and by the scheduler,      *)
(* whose sync reads the active effect, gives up the lock and acts on what  *)
(* it read.  A step is the return of a callback with all the code up to    *)
(* the next one.                                                           *)
(***************************************************************************)
EXTENDS Naturals, Sequences, FiniteSets

CONSTANTS
  PidThreads,    \* callers
  MaxEffect,     \* bound: effect block indices
  MaxPidPort     \* bound: port generations, one per attachment

VARIABLES
  actuator,      \* RinUsbHidGamepadPidActuatorOwnerV1
  pidCalls,      \* per caller: its operation, effect and the callbacks to come
  pidPlaying     \* the device: the effects that play

pidVars == <<actuator, pidCalls, pidPlaying>>

Effects == 1..MaxEffect

PidNoCall == [op |-> "none", effect |-> 0, todo |-> <<>>, cleanup |-> FALSE]

Attached(port) ==
  [attached |-> TRUE, port |-> port, active |-> 0, recovery |-> FALSE, callback |-> FALSE]

PidInit ==
  /\ actuator = Attached(1)
  /\ pidCalls = [t \in PidThreads |-> PidNoCall]
  /\ pidPlaying = {}

Silence == <<"operation_stop", "stop_all">>

PidReports(op) ==
  CASE op = "start" -> <<"authorize", "set_effect", "constant", "operation_start">>
    [] op = "submit" -> <<"authorize", "constant">>
    [] op = "stop" -> <<"authorize", "operation_stop", "authorize", "stop_all">>
    [] op = "recover" -> Silence

Ready == actuator.attached /\ ~actuator.recovery /\ ~actuator.callback

\* Mutant: start trusts the effect that the scheduler has read as idle.
StartAdmittedUnread(effect) == Ready

StartAdmitted(effect) == Ready /\ actuator.active = 0

\* The checks of each operation, made with the lock held; recover stops effect 1
\* and then all.
PidAdmits(op, effect) ==
  CASE op = "start" -> StartAdmitted(effect)
    [] op \in {"submit", "stop"} -> Ready /\ actuator.active \in {0, effect}
    [] op = "recover" -> actuator.attached /\ ~actuator.callback /\ effect = 1

PidBegin(t, op, effect) ==
  /\ PidAdmits(op, effect)
  /\ pidCalls' = [pidCalls EXCEPT ![t] =
       [op |-> op, effect |-> effect, todo |-> PidReports(op), cleanup |-> FALSE]]
  /\ actuator' = [actuator EXCEPT !.callback = TRUE]
  /\ UNCHANGED pidPlaying

\* What sync_output decides to do on the active effect it read.
SyncChoice(effect, playsNow) ==
  IF playsNow
    THEN IF actuator.active = 0 THEN "start" ELSE "submit"
    ELSE "stop"

SyncRead(t, effect, playsNow) ==
  /\ pidCalls[t] = PidNoCall /\ Ready
  /\ actuator.active = effect \/ (playsNow /\ actuator.active = 0)
  /\ pidCalls' = [pidCalls EXCEPT ![t] =
       [PidNoCall EXCEPT !.op = SyncChoice(effect, playsNow), !.effect = effect]]
  /\ UNCHANGED <<actuator, pidPlaying>>

\* The lock was given up in between: the call that follows checks for itself.
SyncAct(t) ==
  LET call == pidCalls[t]
  IN  /\ call # PidNoCall /\ call.todo = <<>>
      /\ \/ PidBegin(t, call.op, call.effect)
         \/ /\ ~PidAdmits(call.op, call.effect)
            /\ pidCalls' = [pidCalls EXCEPT ![t] = PidNoCall]
            /\ UNCHANGED <<actuator, pidPlaying>>

PidActs(report, effect) ==
  pidPlaying' =
    CASE report = "operation_start" -> pidPlaying \cup {effect}
      [] report = "operation_stop" -> pidPlaying \ {effect}
      [] report = "stop_all" -> {}
      [] OTHER -> pidPlaying

PidDone(op, effect, a) ==
  CASE op = "start" -> [a EXCEPT !.active = effect]
    [] op = "submit" -> a
    [] op = "stop" -> [a EXCEPT !.active = 0]
    [] op = "recover" -> [a EXCEPT !.active = 0, !.recovery = FALSE]

PidEnd(t, a) ==
  /\ pidCalls' = [pidCalls EXCEPT ![t] = PidNoCall]
  /\ actuator' = a

\* actuator_send_locked after a report that was not accepted.
ReportRefused(a) == [a EXCEPT !.recovery = TRUE]

\* The callback in front returns with the lock taken again.  A start that has
\* sent anything stops the effect again when it fails.
PidReturn(t) ==
  LET call == pidCalls[t]
      report == Head(call.todo)
      rest == Tail(call.todo)
      returned == [actuator EXCEPT !.callback = FALSE]
      Accepted ==
        IF rest # <<>>
          THEN /\ pidCalls' = [pidCalls EXCEPT ![t].todo = rest]
               /\ UNCHANGED actuator
          ELSE PidEnd(t, IF call.cleanup THEN [returned EXCEPT !.recovery = TRUE]
                                         ELSE PidDone(call.op, call.effect, returned))
      Refused ==
        IF report = "authorize" THEN PidEnd(t, returned)
        ELSE IF call.op = "start" /\ ~call.cleanup
          THEN /\ pidCalls' = [pidCalls EXCEPT ![t].todo = Silence, ![t].cleanup = TRUE]
               /\ actuator' = ReportRefused(actuator)
        ELSE PidEnd(t, ReportRefused(returned))
  IN  /\ call.todo # <<>>
      /\ \/ Accepted /\ PidActs(report, call.effect)
         \/ Refused /\ PidActs(report, call.effect)
         \/ Refused /\ UNCHANGED pidPlaying

\* detach clears the whole record and asks nothing of the device.
PidDetach(t) ==
  /\ pidCalls[t] = PidNoCall
  /\ actuator.attached /\ ~actuator.callback
  /\ actuator' = [Attached(actuator.port) EXCEPT !.attached = FALSE]
  /\ UNCHANGED <<pidCalls, pidPlaying>>

PidAttach ==
  /\ ~actuator.attached /\ actuator.port < MaxPidPort
  /\ \A t \in PidThreads : pidCalls[t] = PidNoCall
  /\ actuator' = Attached(actuator.port + 1)
  /\ pidPlaying' = {}
  /\ UNCHANGED pidCalls

PidNext ==
  \/ \E t \in PidThreads, effect \in Effects :
       \/ /\ pidCalls[t] = PidNoCall
          /\ \E op \in {"start", "submit", "stop", "recover"} : PidBegin(t, op, effect)
       \/ \E playsNow \in BOOLEAN : SyncRead(t, effect, playsNow)
  \/ \E t \in PidThreads : SyncAct(t) \/ PidReturn(t) \/ PidDetach(t)
  \/ PidAttach

PidSpec == PidInit /\ [][PidNext]_pidVars

-----------------------------------------------------------------------------
(* Properties.                                                              *)

\* The actuator admits one effect at a time (gamepad_pid_actuator_v1.h:126), two
\* schedulers that read it as idle included; and while the device is attached,
\* what plays is the active effect, or recovery is required, or the call that
\* will decide it is under way.
OneEffectAtATime ==
  /\ Cardinality(pidPlaying) <= 1
  /\ actuator.attached =>
       \/ pidPlaying \subseteq {actuator.active}
       \/ actuator.recovery
       \/ \E t \in PidThreads : pidCalls[t].todo # <<>>
=============================================================================
