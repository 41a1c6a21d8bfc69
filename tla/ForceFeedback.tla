---------------------------- MODULE ForceFeedback ---------------------------
(***************************************************************************)
(* The force-feedback owner of a gamepad (gamepad_force_feedback_v1.c):    *)
(* one effect that an application starts and stops, and the privileged     *)
(* recover and detach.  Every call sends one report after another and      *)
(* gives up the owner's lock for each; a step is the return of a callback  *)
(* with all the code up to the next one.                                   *)
(***************************************************************************)
EXTENDS Naturals, Sequences

CONSTANTS
  FFThreads,     \* callers
  MaxPort        \* bound: port generations, one per attachment

VARIABLES
  ffOwner,       \* RinUsbHidGamepadForceFeedbackOwnerV1
  ffCalls,       \* per caller: its operation and the callbacks still to come
  ffPlaying      \* the device: whether the effect is playing

ffVars == <<ffOwner, ffCalls, ffPlaying>>

FFNoCall == [op |-> "none", todo |-> <<>>, port |-> 0, failed |-> FALSE]

FFAttached(port) ==
  [attached |-> TRUE, port |-> port, active |-> FALSE, recovery |-> FALSE, callback |-> FALSE]

FFInit ==
  /\ ffOwner = FFAttached(1)
  /\ ffCalls = [t \in FFThreads |-> FFNoCall]
  /\ ffPlaying = FALSE

StopReports == <<"operation_stop", "control_stop">>

FFReports(op) ==
  CASE op = "start" -> <<"authorize", "set_effect", "set_constant", "operation_start">>
    [] op = "stop" -> <<"authorize", "operation_stop", "control_stop">>
    [] OTHER -> StopReports

\* The checks of each operation, made with the lock held.
FFAdmits(op) ==
  /\ ffOwner.attached /\ ~ffOwner.callback
  /\ op \in {"start", "stop"} => ~ffOwner.recovery
  /\ op = "start" => ~ffOwner.active

\* The owner asks the device to be silent before it forgets it.
MustSilence == ffOwner.active

FFDetach(t) ==
  /\ ffCalls[t] = FFNoCall /\ FFAdmits("detach") /\ ~MustSilence
  /\ ffOwner' = [ffOwner EXCEPT !.attached = FALSE]
  /\ UNCHANGED <<ffCalls, ffPlaying>>

FFBegin(t, op) ==
  /\ ffCalls[t] = FFNoCall /\ FFAdmits(op)
  /\ op = "detach" => MustSilence
  /\ ffCalls' = [ffCalls EXCEPT ![t] =
       [op |-> op, todo |-> FFReports(op), port |-> ffOwner.port, failed |-> FALSE]]
  /\ ffOwner' = [ffOwner EXCEPT !.callback = TRUE]
  /\ UNCHANGED ffPlaying

\* A report acts on the device, whatever its submission is said to have done.
ReportActs(report) ==
  ffPlaying' = (report = "operation_start" \/ (ffPlaying /\ report \notin {"operation_stop", "control_stop"}))

\* What an operation leaves behind once all its reports are accepted.
FFDone(op, o) ==
  CASE op = "start" -> [o EXCEPT !.active = TRUE]
    [] op = "stop" -> [o EXCEPT !.active = FALSE]
    [] op = "recover" -> [o EXCEPT !.active = FALSE, !.recovery = FALSE]
    [] op = "detach" -> [o EXCEPT !.active = FALSE, !.attached = FALSE]

FFEnd(t, owner) ==
  /\ ffCalls' = [ffCalls EXCEPT ![t] = FFNoCall]
  /\ ffOwner' = owner

FFGoOn(t, todo, failed) ==
  /\ ffCalls' = [ffCalls EXCEPT ![t].todo = todo, ![t].failed = failed]
  /\ UNCHANGED ffOwner

\* Mutant: a start whose reports were refused leaves no recovery behind when
\* its stop reports are accepted or not.
FFStartRefusedQuietly(t, returned) ==
  IF ~ffCalls[t].failed THEN FFGoOn(t, StopReports, TRUE) ELSE FFEnd(t, returned)

\* A start that was refused half-way sends the stop reports, and requires
\* recovery whether they are accepted or not.
FFStartRefused(t, returned) ==
  IF ~ffCalls[t].failed
    THEN FFGoOn(t, StopReports, TRUE)
    ELSE FFEnd(t, [returned EXCEPT !.recovery = TRUE])

\* The callback in front returns with the lock taken again.
FFReturn(t) ==
  LET call == ffCalls[t]
      rest == Tail(call.todo)
      returned == [ffOwner EXCEPT !.callback = FALSE]
      current == ffOwner.attached /\ ffOwner.port = call.port
      Accepted ==
        IF rest # <<>> THEN FFGoOn(t, rest, call.failed)
        ELSE IF call.failed THEN FFStartRefused(t, returned)
        ELSE FFEnd(t, FFDone(call.op, returned))
      Refused ==
        IF Head(call.todo) = "authorize" THEN FFEnd(t, returned)
        ELSE IF call.op = "start" THEN FFStartRefused(t, returned)
        ELSE FFEnd(t, [returned EXCEPT !.recovery = TRUE])
  IN  /\ call # FFNoCall
      /\ \/ current /\ Accepted /\ ReportActs(Head(call.todo))
         \/ Refused /\ ReportActs(Head(call.todo))
         \/ Refused /\ UNCHANGED ffPlaying

\* The device is attached again: init of the record, after its detach.
FFAttach ==
  /\ ~ffOwner.attached /\ ffOwner.port < MaxPort
  /\ \A t \in FFThreads : ffCalls[t] = FFNoCall
  /\ ffOwner' = FFAttached(ffOwner.port + 1)
  /\ ffPlaying' = FALSE
  /\ UNCHANGED ffCalls

FFNext ==
  \/ \E t \in FFThreads :
       \/ \E op \in {"start", "stop", "recover", "detach"} : FFBegin(t, op)
       \/ FFReturn(t)
       \/ FFDetach(t)
  \/ FFAttach

FFSpec == FFInit /\ [][FFNext]_ffVars

-----------------------------------------------------------------------------
(* Properties.                                                              *)

\* A device that plays is known to play: the owner has the effect as active, or
\* requires recovery, or a call that will decide it is under way, and this one
\* call alone, for the flag keeps the others off between its reports.
PlayingIsKnown ==
  /\ ffPlaying =>
       \/ ffOwner.active \/ ffOwner.recovery
       \/ \E t \in FFThreads : ffCalls[t] # FFNoCall
  /\ \A t, u \in FFThreads : (ffCalls[t] # FFNoCall /\ ffCalls[u] # FFNoCall) => t = u

\* What the header says of detach: it does not forget an active effect unless
\* the physical stop reports were accepted (gamepad_force_feedback_v1.h:136).
DetachedIsSilent == ~ffOwner.attached => ~ffPlaying
=============================================================================
