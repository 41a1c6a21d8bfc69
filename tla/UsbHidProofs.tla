----------------------------- MODULE UsbHidProofs -----------------------------
(***************************************************************************)
(* Proofs about the owners of a gamepad's outputs and settings:            *)
(* ForceFeedback, PidActuator, PidEffects and MappingDatabase, for every   *)
(* set of callers, number of effects, slots and records.  Each owner gives *)
(* up its lock around callbacks and keeps others off with a flag; each     *)
(* invariant says what the flag protects while the lock is not held.       *)
(***************************************************************************)
EXTENDS ForceFeedback, PidActuator, PidEffects, MappingDatabase,
        FiniteSetTheorems, SequenceTheorems, TLAPS

\* A sequence whose tail is empty has one element.
LEMMA LastOne ==
  ASSUME NEW S, NEW s \in Seq(S), s # <<>>, Tail(s) = <<>>
  PROVE  Len(s) = 1 /\ Head(s) = s[Len(s)]
<1>1. Len(Tail(s)) = Len(s) - 1 /\ Len(s) \in Nat
  BY HeadTailProperties, LenProperties
<1>2. Len(Tail(s)) = 0
  BY EmptySeq
<1> QED BY <1>1, <1>2

-----------------------------------------------------------------------------
(* Force feedback *)

FFReportNames == {"authorize", "set_effect", "set_constant", "operation_start",
                  "operation_stop", "control_stop"}

FFOps == {"start", "stop", "recover", "detach"}

FFBusy(t) == ffCalls[t] # FFNoCall

FFTypeOK ==
  /\ ffOwner \in [attached : BOOLEAN, port : Nat, active : BOOLEAN,
                  recovery : BOOLEAN, callback : BOOLEAN]
  /\ ffCalls \in [FFThreads -> [op : FFOps \cup {"none"}, todo : Seq(FFReportNames),
                                port : Nat, failed : BOOLEAN]]
  /\ ffPlaying \in BOOLEAN

(* What a call has still to send: a call that can end well ends with the   *)
(* stop report, or with the start of the effect; authorize comes first.    *)
FFTodoOK(todo, starts) ==
  /\ todo # <<>>
  /\ ~starts => todo[Len(todo)] = "control_stop"
  /\ \A i \in 2 .. Len(todo) : todo[i] # "authorize"

(* While authorize is asked nothing was sent: the effect is as known as it *)
(* was before the call.                                                    *)
FFCallInv ==
  \A t \in FFThreads :
     FFBusy(t) =>
       /\ ffOwner.callback
       /\ ffCalls[t].op \in FFOps
       /\ FFTodoOK(ffCalls[t].todo, ffCalls[t].op = "start" /\ ~ffCalls[t].failed)
       /\ Head(ffCalls[t].todo) = "authorize" =>
            /\ ~ffCalls[t].failed
            /\ ffPlaying => ffOwner.active \/ ffOwner.recovery

FFOneCall ==
  \A t, u \in FFThreads : FFBusy(t) /\ FFBusy(u) => t = u

FFKnown ==
  ffPlaying =>
    ffOwner.active \/ ffOwner.recovery \/ \E t \in FFThreads : FFBusy(t)

FFInv == FFTypeOK /\ FFCallInv /\ FFOneCall /\ FFKnown

\* The reports of an operation, as they are left to be sent when it begins.
LEMMA FFReportsOK ==
  ASSUME NEW op \in FFOps
  PROVE  /\ FFReports(op) \in Seq(FFReportNames)
         /\ FFTodoOK(FFReports(op), op = "start")
         /\ Head(FFReports(op)) = "authorize" => op \in {"start", "stop"}
<1>1. CASE op = "start"
  <2>1. FFReports(op) =
          <<"authorize", "set_effect", "set_constant", "operation_start">>
    BY <1>1 DEF FFReports
  <2>2. FFReports(op) \in Seq(FFReportNames)
    BY <2>1 DEF FFReportNames
  <2>3. FFReports(op) # <<>>
    BY <2>1
  <2>4. \A i \in 2 .. Len(FFReports(op)) : FFReports(op)[i] # "authorize"
    BY <2>1
  <2> QED BY <1>1, <2>2, <2>3, <2>4 DEF FFTodoOK
<1>2. CASE op = "stop"
  <2>1. FFReports(op) = <<"authorize", "operation_stop", "control_stop">>
    BY <1>2 DEF FFReports
  <2>2. FFReports(op) \in Seq(FFReportNames)
    BY <2>1 DEF FFReportNames
  <2>3. FFReports(op) # <<>> /\ FFReports(op)[Len(FFReports(op))] = "control_stop"
    BY <2>1
  <2>4. \A i \in 2 .. Len(FFReports(op)) : FFReports(op)[i] # "authorize"
    BY <2>1
  <2> QED BY <1>2, <2>2, <2>3, <2>4 DEF FFTodoOK
<1>3. CASE op \in {"recover", "detach"}
  <2>1. FFReports(op) = <<"operation_stop", "control_stop">>
    BY <1>3 DEF FFReports, StopReports
  <2>2. FFReports(op) \in Seq(FFReportNames)
    BY <2>1 DEF FFReportNames
  <2>3. FFReports(op) # <<>> /\ FFReports(op)[Len(FFReports(op))] = "control_stop"
    BY <2>1
  <2>4. \A i \in 2 .. Len(FFReports(op)) : FFReports(op)[i] # "authorize"
    BY <2>1
  <2>5. Head(FFReports(op)) # "authorize"
    BY <2>1
  <2> QED BY <1>3, <2>2, <2>3, <2>4, <2>5 DEF FFTodoOK
<1> QED BY <1>1, <1>2, <1>3 DEF FFOps

\* What is left after a report was accepted.
LEMMA FFRestOK ==
  ASSUME NEW todo \in Seq(FFReportNames), NEW starts \in BOOLEAN,
         FFTodoOK(todo, starts), Tail(todo) # <<>>
  PROVE  /\ Tail(todo) \in Seq(FFReportNames)
         /\ FFTodoOK(Tail(todo), starts)
         /\ Head(Tail(todo)) # "authorize"
<1>1. /\ Len(todo) >= 2 /\ Len(Tail(todo)) = Len(todo) - 1
      /\ Tail(todo) \in Seq(FFReportNames)
      /\ \A i \in 1 .. Len(todo) - 1 : Tail(todo)[i] = todo[i + 1]
  BY DEF FFTodoOK
<1> QED BY <1>1 DEF FFTodoOK

FFOwners == [attached : BOOLEAN, port : Nat, active : BOOLEAN,
             recovery : BOOLEAN, callback : BOOLEAN]

\* The return of a callback either leaves the call with stop reports or the
\* rest of its own to send, or ends it with the effect known.
LEMMA FFReturnCases ==
  ASSUME FFInv, NEW t \in FFThreads, FFReturn(t)
  PROVE  /\ FFBusy(t) /\ ffPlaying' \in BOOLEAN
         /\ \/ \E todo \in Seq(FFReportNames), failed \in BOOLEAN :
                 /\ FFGoOn(t, todo, failed)
                 /\ FFTodoOK(todo, ffCalls[t].op = "start" /\ ~failed)
                 /\ Head(todo) # "authorize"
            \/ \E o \in FFOwners :
                 /\ FFEnd(t, o)
                 /\ ffPlaying' => o.active \/ o.recovery
<1> DEFINE call == ffCalls[t]
           returned == [ffOwner EXCEPT !.callback = FALSE]
           report == Head(call.todo)
           starts == call.op = "start" /\ ~call.failed
           GoesOn == \E todo \in Seq(FFReportNames), failed \in BOOLEAN :
                       /\ FFGoOn(t, todo, failed)
                       /\ FFTodoOK(todo, call.op = "start" /\ ~failed)
                       /\ Head(todo) # "authorize"
           Ends == \E o \in FFOwners :
                     /\ FFEnd(t, o)
                     /\ ffPlaying' => o.active \/ o.recovery
<1>1. /\ FFBusy(t) /\ ffPlaying' \in BOOLEAN
      /\ call.op \in FFOps /\ call.todo \in Seq(FFReportNames)
      /\ call.failed \in BOOLEAN
      /\ FFTodoOK(call.todo, starts)
      /\ report = "authorize" =>
           /\ ~call.failed
           /\ ffPlaying => ffOwner.active \/ ffOwner.recovery
  BY DEF FFReturn, FFInv, FFTypeOK, FFCallInv, FFBusy, ReportActs
<1>2. /\ returned \in FFOwners
      /\ returned.active = ffOwner.active /\ returned.recovery = ffOwner.recovery
  BY DEF FFInv, FFTypeOK, FFOwners
<1>3. ASSUME NEW o \in FFOwners, FFEnd(t, [o EXCEPT !.recovery = TRUE])
      PROVE  Ends
  <2>1. [o EXCEPT !.recovery = TRUE] \in FFOwners
    BY DEF FFOwners
  <2>2. [o EXCEPT !.recovery = TRUE].recovery
    BY DEF FFOwners
  <2> QED BY <1>3, <2>1, <2>2
<1>4. ASSUME FFStartRefused(t, returned), call.op = "start"
      PROVE  GoesOn \/ Ends
  <2>1. CASE call.failed
    BY <1>2, <1>3, <1>4, <2>1 DEF FFStartRefused
  <2>2. CASE ~call.failed
    <3>1. FFGoOn(t, StopReports, TRUE)
      BY <1>4, <2>2 DEF FFStartRefused
    <3>2. StopReports \in Seq(FFReportNames) /\ Head(StopReports) # "authorize"
      BY DEF StopReports, FFReportNames
    <3>3. FFTodoOK(StopReports, FALSE)
      BY DEF StopReports, FFTodoOK
    <3> QED BY <3>1, <3>2, <3>3
  <2> QED BY <2>1, <2>2
<1>5. ASSUME Tail(call.todo) # <<>>, FFGoOn(t, Tail(call.todo), call.failed)
      PROVE  GoesOn
  <2>1. /\ Tail(call.todo) \in Seq(FFReportNames)
        /\ FFTodoOK(Tail(call.todo), starts)
        /\ Head(Tail(call.todo)) # "authorize"
    BY <1>1, <1>5, FFRestOK
  <2> QED BY <1>1, <1>5, <2>1
<1>6. ASSUME Tail(call.todo) = <<>>, ReportActs(report),
             IF call.failed THEN FFStartRefused(t, returned)
                            ELSE FFEnd(t, FFDone(call.op, returned))
      PROVE  GoesOn \/ Ends
  <2>1. ~starts => report = "control_stop"
    <3>1. call.todo # <<>>
      BY <1>1 DEF FFTodoOK
    <3> QED BY <1>1, <1>6, <3>1, LastOne DEF FFTodoOK
  <2>2. CASE call.failed
    <3>1. CASE call.op = "start"
      BY <1>1, <1>4, <1>6, <2>2, <3>1
    <3>2. CASE call.op # "start"
      BY <1>1, <1>2, <1>3, <1>6, <2>2, <3>2 DEF FFStartRefused
    <3> QED BY <1>1, <3>1, <3>2
  <2>3. CASE ~call.failed
    <3>1. FFDone(call.op, returned) \in FFOwners
      BY <1>1, <1>2 DEF FFDone, FFOps, FFOwners
    <3>2. ffPlaying' => FFDone(call.op, returned).active
      <4>1. CASE call.op = "start"
        BY <4>1, <1>2 DEF FFDone, FFOwners
      <4>2. CASE call.op # "start"
        BY <4>2, <2>1, <1>6 DEF ReportActs
      <4> QED BY <4>1, <4>2
    <3>3. FFEnd(t, FFDone(call.op, returned))
      BY <1>6, <2>3
    <3> HIDE DEF call, returned
    <3> QED BY <3>1, <3>2, <3>3
  <2> QED BY <1>1, <2>2, <2>3
<1>7. ASSUME IF report = "authorize" THEN FFEnd(t, returned)
             ELSE IF call.op = "start" THEN FFStartRefused(t, returned)
             ELSE FFEnd(t, [returned EXCEPT !.recovery = TRUE]),
             ReportActs(report) \/ UNCHANGED ffPlaying
      PROVE  GoesOn \/ Ends
  <2>1. CASE report = "authorize"
    <3>1. FFEnd(t, returned)
      BY <2>1, <1>7
    <3>2. ffPlaying' => ffPlaying
      BY <2>1, <1>1, <1>7 DEF ReportActs
    <3>3. ffPlaying' => returned.active \/ returned.recovery
      BY <3>2, <2>1, <1>1, <1>2
    <3> QED BY <3>1, <3>3, <1>2
  <2>2. CASE report # "authorize" /\ call.op = "start"
    BY <2>2, <1>1, <1>4, <1>7
  <2>3. CASE report # "authorize" /\ call.op # "start"
    BY <2>3, <1>1, <1>2, <1>3, <1>7
  <2> QED BY <2>1, <2>2, <2>3
<1> HIDE DEF GoesOn, Ends
<1>8. GoesOn \/ Ends
  BY <1>5, <1>6, <1>7 DEF FFReturn
<1> QED BY <1>1, <1>8 DEF GoesOn, Ends

\* A callback that returns keeps the invariant of force feedback.
LEMMA FFReturnKeeps ==
  ASSUME FFInv, NEW t \in FFThreads, FFReturn(t)
  PROVE  FFInv'
<1> USE DEF FFInv
<1>1. FFBusy(t) /\ ffPlaying' \in BOOLEAN
  BY FFReturnCases
<1>2. ASSUME NEW todo \in Seq(FFReportNames), NEW failed \in BOOLEAN,
             FFGoOn(t, todo, failed),
             FFTodoOK(todo, ffCalls[t].op = "start" /\ ~failed),
             Head(todo) # "authorize"
      PROVE  FFInv'
  <2>1. /\ ffOwner' = ffOwner
        /\ ffCalls' \in [FFThreads -> [op : FFOps \cup {"none"},
                              todo : Seq(FFReportNames),
                              port : Nat, failed : BOOLEAN]]
        /\ ffCalls'[t].todo = todo /\ ffCalls'[t].failed = failed
        /\ ffCalls'[t].op = ffCalls[t].op
        /\ \A u \in FFThreads \ {t} : ffCalls'[u] = ffCalls[u]
    BY <1>2 DEF FFGoOn, FFTypeOK
  <2>2. ffCalls[t].op \in FFOps /\ ffOwner.callback
    BY <1>1 DEF FFCallInv
  <2>3. FFBusy(t)'
    BY <2>1, <2>2 DEF FFBusy, FFNoCall, FFOps
  <2>4. \A u \in FFThreads \ {t} : ~FFBusy(u) /\ ~FFBusy(u)'
    BY <1>1, <2>1 DEF FFOneCall, FFBusy
  <2>5. FFTypeOK'
    BY <1>1, <2>1 DEF FFTypeOK
  <2>6. FFCallInv'
    BY <1>2, <2>1, <2>2, <2>4 DEF FFCallInv
  <2> QED BY <2>3, <2>4, <2>5, <2>6 DEF FFOneCall, FFKnown
<1>3. ASSUME NEW o \in FFOwners, FFEnd(t, o), ffPlaying' => o.active \/ o.recovery
      PROVE  FFInv'
  <2>1. /\ ffOwner' = o
        /\ ffCalls' = [ffCalls EXCEPT ![t] = FFNoCall]
    BY <1>3 DEF FFEnd
  <2>2. FFTypeOK'
    <3>1. FFNoCall \in [op : FFOps \cup {"none"}, todo : Seq(FFReportNames),
                        port : Nat, failed : BOOLEAN]
      BY DEF FFNoCall
    <3> QED BY <1>1, <2>1, <3>1 DEF FFTypeOK, FFOwners
  <2>3. \A u \in FFThreads : ~FFBusy(u)'
    BY <1>1, <2>1 DEF FFOneCall, FFBusy, FFTypeOK
  <2> QED BY <1>3, <2>1, <2>2, <2>3 DEF FFCallInv, FFOneCall, FFKnown
<1> QED BY <1>2, <1>3, FFReturnCases

\* A call begins: it is the only one, and asks for authorization or stops.
LEMMA FFBeginKeeps ==
  ASSUME FFInv, NEW t \in FFThreads, NEW op \in FFOps, FFBegin(t, op)
  PROVE  FFInv'
<1> USE DEF FFInv
<1> DEFINE new == [op |-> op, todo |-> FFReports(op), port |-> ffOwner.port,
                   failed |-> FALSE]
<1>1. /\ ~ffOwner.callback /\ ~FFBusy(t)
      /\ op \in {"start", "stop"} => ~ffOwner.recovery
      /\ ffCalls' = [ffCalls EXCEPT ![t] = new]
      /\ ffOwner' = [ffOwner EXCEPT !.callback = TRUE]
      /\ ffPlaying' = ffPlaying
  BY DEF FFBegin, FFAdmits, FFBusy
<1>2. \A u \in FFThreads : ~FFBusy(u)
  BY <1>1 DEF FFCallInv
<1>3. /\ FFReports(op) \in Seq(FFReportNames)
      /\ FFTodoOK(FFReports(op), op = "start")
  BY FFReportsOK
<1>4. /\ ffCalls'[t] = new
      /\ \A u \in FFThreads \ {t} : ffCalls'[u] = ffCalls[u] /\ ~FFBusy(u)'
  BY <1>1, <1>2 DEF FFTypeOK, FFBusy
<1>5. FFBusy(t)'
  BY <1>4 DEF FFBusy, FFNoCall, FFOps
<1>6. FFTypeOK'
  BY <1>1, <1>3 DEF FFTypeOK
<1>7. /\ ffOwner'.callback /\ ffOwner'.active = ffOwner.active
      /\ ffOwner'.recovery = ffOwner.recovery
  BY <1>1 DEF FFTypeOK
<1>8. ffPlaying' => ffOwner'.active \/ ffOwner'.recovery
  BY <1>1, <1>2, <1>7 DEF FFKnown
<1>9. FFCallInv'
  BY <1>3, <1>4, <1>7, <1>8 DEF FFCallInv
<1> QED BY <1>4, <1>5, <1>6, <1>9 DEF FFOneCall, FFKnown

\* The invariant of force feedback holds in every state.
LEMMA FFInvariant == FFSpec => []FFInv
<1>1. FFInit => FFInv
  <2> SUFFICES ASSUME FFInit PROVE FFInv
    OBVIOUS
  <2>1. FFTypeOK
    <3>1. FFNoCall \in [op : FFOps \cup {"none"}, todo : Seq(FFReportNames),
                        port : Nat, failed : BOOLEAN]
      BY DEF FFNoCall
    <3> QED BY <3>1 DEF FFInit, FFTypeOK, FFAttached
  <2>2. \A t \in FFThreads : ~FFBusy(t)
    BY DEF FFInit, FFBusy
  <2> QED BY <2>1, <2>2 DEF FFInit, FFInv, FFCallInv, FFOneCall, FFKnown
<1>2. ASSUME FFInv, [FFNext]_ffVars PROVE FFInv'
  <2>1. CASE UNCHANGED ffVars
    BY <1>2, <2>1 DEF ffVars, FFInv, FFTypeOK, FFCallInv, FFOneCall, FFKnown,
                      FFBusy
  <2>2. ASSUME NEW t \in FFThreads, FFDetach(t)
        PROVE  FFInv'
    <3>1. /\ UNCHANGED <<ffCalls, ffPlaying>> /\ ~ffOwner.callback
          /\ ffOwner' \in FFOwners
          /\ ffOwner'.active = ffOwner.active
          /\ ffOwner'.recovery = ffOwner.recovery
      BY <1>2, <2>2 DEF FFDetach, FFAdmits, FFInv, FFTypeOK, FFOwners
    <3> QED BY <1>2, <3>1 DEF FFInv, FFTypeOK, FFOwners, FFCallInv, FFOneCall,
                              FFKnown, FFBusy
  <2>3. CASE FFAttach
    <3>1. /\ UNCHANGED ffCalls /\ ffPlaying' = FALSE /\ ffOwner' \in FFOwners
          /\ \A t \in FFThreads : ~FFBusy(t) /\ ~FFBusy(t)'
      BY <1>2, <2>3 DEF FFAttach, FFAttached, FFBusy, FFInv, FFTypeOK, FFOwners
    <3> QED BY <1>2, <3>1 DEF FFInv, FFTypeOK, FFOwners, FFCallInv, FFOneCall,
                              FFKnown
  <2> QED BY <1>2, <2>1, <2>2, <2>3, FFReturnKeeps, FFBeginKeeps DEF FFNext, FFOps
<1> QED BY <1>1, <1>2, PTL DEF FFSpec

\* A device that plays is known to play, or the one call that decides it is
\* under way (gamepad_force_feedback_v1.c).
THEOREM PlayingKnown == FFSpec => []PlayingIsKnown
<1>1. FFInv => PlayingIsKnown
  BY DEF FFInv, FFOneCall, FFKnown, FFBusy, PlayingIsKnown
<1> QED BY <1>1, FFInvariant, PTL

-----------------------------------------------------------------------------
(* The PID actuator *)

PidReportNames == {"authorize", "set_effect", "constant", "operation_start",
                   "operation_stop", "stop_all"}

PidOps == {"start", "submit", "stop", "recover"}

Actuators == [attached : BOOLEAN, port : Nat, active : Effects \cup {0},
              recovery : BOOLEAN, callback : BOOLEAN]

PidCalls == [op : PidOps \cup {"none"}, effect : Effects \cup {0},
             todo : Seq(PidReportNames), cleanup : BOOLEAN]

PidSending(t) == pidCalls[t].todo # <<>>

(* Only a start that was not refused yet has operation_start to send, last *)
(* of all; the calls that leave no effect active end with stop_all.        *)
PidTodoOK(todo, starts, silences) ==
  /\ \A i \in 1 .. Len(todo) :
        todo[i] = "operation_start" <=> starts /\ i = Len(todo)
  /\ silences => todo[Len(todo)] = "stop_all"

(* A call under way, with the actuator as it left it: a start has found no *)
(* effect active, and one that was refused has required recovery.          *)
PidCallOK(call, a) ==
  /\ a.attached /\ a.callback
  /\ call.op \in PidOps /\ call.effect \in Effects
  /\ PidTodoOK(call.todo, call.op = "start" /\ ~call.cleanup,
               call.op \in {"stop", "recover"} \/ call.cleanup)
  /\ call.op = "start" /\ ~call.cleanup => a.active = 0 /\ ~a.recovery

PidTypeOK ==
  /\ actuator \in Actuators
  /\ pidCalls \in [PidThreads -> PidCalls]
  /\ pidPlaying \subseteq Effects

PidCallInv == \A t \in PidThreads : PidSending(t) => PidCallOK(pidCalls[t], actuator)

PidOneCall ==
  \A t, u \in PidThreads : PidSending(t) /\ PidSending(u) => t = u

PidKnown ==
  /\ \A x, y \in pidPlaying : x = y
  /\ actuator.attached => actuator.recovery \/ pidPlaying \subseteq {actuator.active}

(* What sync_output has decided to call, too.                              *)
PidChosen ==
  \A t \in PidThreads :
     pidCalls[t] # PidNoCall =>
       pidCalls[t].op \in PidOps /\ pidCalls[t].effect \in Effects

PidInv == PidTypeOK /\ PidCallInv /\ PidOneCall /\ PidChosen /\ PidKnown

\* The reports of an operation, as they are left to be sent when it begins.
LEMMA PidReportsOK ==
  ASSUME NEW op \in PidOps
  PROVE  /\ PidReports(op) \in Seq(PidReportNames) /\ PidReports(op) # <<>>
         /\ PidTodoOK(PidReports(op), op = "start", op \in {"stop", "recover"})
<1>1. CASE op = "start"
  <2>1. PidReports(op) = <<"authorize", "set_effect", "constant", "operation_start">>
    BY <1>1 DEF PidReports
  <2>2. PidReports(op) \in Seq(PidReportNames) /\ PidReports(op) # <<>>
    BY <2>1 DEF PidReportNames
  <2>3. \A i \in 1 .. Len(PidReports(op)) :
           PidReports(op)[i] = "operation_start" <=> i = Len(PidReports(op))
    BY <2>1
  <2> QED BY <1>1, <2>2, <2>3 DEF PidTodoOK
<1>2. CASE op = "submit"
  <2>1. PidReports(op) = <<"authorize", "constant">>
    BY <1>2 DEF PidReports
  <2>2. PidReports(op) \in Seq(PidReportNames) /\ PidReports(op) # <<>>
    BY <2>1 DEF PidReportNames
  <2>3. \A i \in 1 .. Len(PidReports(op)) : PidReports(op)[i] # "operation_start"
    BY <2>1
  <2> QED BY <1>2, <2>2, <2>3 DEF PidTodoOK
<1>3. CASE op = "stop"
  <2>1. PidReports(op) = <<"authorize", "operation_stop", "authorize", "stop_all">>
    BY <1>3 DEF PidReports
  <2>2. PidReports(op) \in Seq(PidReportNames) /\ PidReports(op) # <<>>
    BY <2>1 DEF PidReportNames
  <2>3. /\ \A i \in 1 .. Len(PidReports(op)) : PidReports(op)[i] # "operation_start"
        /\ PidReports(op)[Len(PidReports(op))] = "stop_all"
    BY <2>1
  <2> QED BY <1>3, <2>2, <2>3 DEF PidTodoOK
<1>4. CASE op = "recover"
  <2>1. PidReports(op) = <<"operation_stop", "stop_all">>
    BY <1>4 DEF PidReports, Silence
  <2>2. PidReports(op) \in Seq(PidReportNames) /\ PidReports(op) # <<>>
    BY <2>1 DEF PidReportNames
  <2>3. /\ \A i \in 1 .. Len(PidReports(op)) : PidReports(op)[i] # "operation_start"
        /\ PidReports(op)[Len(PidReports(op))] = "stop_all"
    BY <2>1
  <2> QED BY <1>4, <2>2, <2>3 DEF PidTodoOK
<1> QED BY <1>1, <1>2, <1>3, <1>4 DEF PidOps

\* The reports that silence the actuator start nothing and end with stop_all.
LEMMA SilenceOK ==
  /\ Silence \in Seq(PidReportNames) /\ Silence # <<>>
  /\ PidTodoOK(Silence, FALSE, TRUE)
<1>1. /\ \A i \in 1 .. Len(Silence) : Silence[i] # "operation_start"
      /\ Silence[Len(Silence)] = "stop_all"
  BY DEF Silence
<1> QED BY <1>1 DEF Silence, PidReportNames, PidTodoOK

\* The first report of those left, and the rest.
LEMMA PidFirst ==
  ASSUME NEW todo \in Seq(PidReportNames), todo # <<>>,
         NEW starts \in BOOLEAN, NEW silences \in BOOLEAN,
         PidTodoOK(todo, starts, silences)
  PROVE  /\ Head(todo) \in PidReportNames
         /\ Head(todo) = "operation_start" => starts /\ Tail(todo) = <<>>
         /\ Tail(todo) = <<>> => /\ starts => Head(todo) = "operation_start"
                                 /\ silences => Head(todo) = "stop_all"
         /\ Tail(todo) # <<>> => /\ Tail(todo) \in Seq(PidReportNames)
                                 /\ PidTodoOK(Tail(todo), starts, silences)
<1>1. /\ Len(todo) \in Nat \ {0} /\ Tail(todo) \in Seq(PidReportNames)
      /\ Len(Tail(todo)) = Len(todo) - 1 /\ Head(todo) = todo[1]
      /\ Head(todo) \in PidReportNames
      /\ \A i \in 1 .. Len(todo) - 1 : Tail(todo)[i] = todo[i + 1]
  BY HeadTailProperties, LenProperties, EmptySeq
<1>2. Tail(todo) = <<>> <=> Len(todo) = 1
  <2>1. Tail(todo) = <<>> <=> Len(Tail(todo)) = 0
    BY <1>1, EmptySeq
  <2> QED BY <1>1, <2>1
<1>3. ASSUME Tail(todo) # <<>>
      PROVE  PidTodoOK(Tail(todo), starts, silences)
  <2>1. Len(todo) >= 2
    BY <1>1, <1>2, <1>3
  <2>2. ASSUME NEW i \in 1 .. Len(Tail(todo))
        PROVE  Tail(todo)[i] = "operation_start" <=> starts /\ i = Len(Tail(todo))
    <3>1. i + 1 \in 1 .. Len(todo) /\ Tail(todo)[i] = todo[i + 1]
      BY <1>1, <2>2
    <3>2. i = Len(Tail(todo)) <=> i + 1 = Len(todo)
      BY <1>1, <2>2
    <3> QED BY <3>1, <3>2 DEF PidTodoOK
  <2>3. silences => Tail(todo)[Len(Tail(todo))] = "stop_all"
    <3>1. /\ Len(Tail(todo)) \in 1 .. Len(todo) - 1
          /\ Len(Tail(todo)) + 1 = Len(todo)
      BY <1>1, <2>1
    <3>2. Tail(todo)[Len(Tail(todo))] = todo[Len(todo)]
      BY <1>1, <3>1
    <3> QED BY <3>2 DEF PidTodoOK
  <2> QED BY <2>2, <2>3 DEF PidTodoOK
<1>4. todo[1] = "operation_start" <=> starts /\ 1 = Len(todo)
  <2>1. 1 \in 1 .. Len(todo)
    BY <1>1
  <2> QED BY <2>1 DEF PidTodoOK
<1>5. Len(todo) = 1 /\ silences => todo[1] = "stop_all"
  BY DEF PidTodoOK
<1> QED BY <1>1, <1>2, <1>3, <1>4, <1>5

\* A report other than operation_start starts nothing.
LEMMA PidActsOK ==
  ASSUME NEW report, NEW effect \in Effects, PidTypeOK, PidActs(report, effect)
  PROVE  /\ pidPlaying' \subseteq Effects
         /\ report # "operation_start" => pidPlaying' \subseteq pidPlaying
         /\ report = "operation_start" => pidPlaying' = pidPlaying \cup {effect}
         /\ report = "stop_all" => pidPlaying' = {}
  BY DEF PidActs, PidTypeOK

\* The return of a callback goes on with reports that are in order, or ends
\* the call with the playing effect known.
LEMMA PidReturnCases ==
  ASSUME PidInv, NEW t \in PidThreads, PidReturn(t)
  PROVE  /\ PidSending(t)
         /\ pidPlaying' \subseteq Effects
         /\ \A x, y \in pidPlaying' : x = y
         /\ \/ \E call \in PidCalls, a \in Actuators :
                 /\ pidCalls' = [pidCalls EXCEPT ![t] = call]
                 /\ actuator' = a
                 /\ call.todo # <<>> /\ PidCallOK(call, a)
                 /\ a.recovery \/ pidPlaying' \subseteq {a.active}
            \/ \E a \in Actuators :
                 /\ PidEnd(t, a)
                 /\ a.recovery \/ pidPlaying' \subseteq {a.active}
<1> DEFINE call == pidCalls[t]
           report == Head(call.todo)
           rest == Tail(call.todo)
           returned == [actuator EXCEPT !.callback = FALSE]
           starts == call.op = "start" /\ ~call.cleanup
           silences == call.op \in {"stop", "recover"} \/ call.cleanup
           GoesOn == \E c \in PidCalls, a \in Actuators :
                       /\ pidCalls' = [pidCalls EXCEPT ![t] = c]
                       /\ actuator' = a
                       /\ c.todo # <<>> /\ PidCallOK(c, a)
                       /\ a.recovery \/ pidPlaying' \subseteq {a.active}
           Ends == \E a \in Actuators :
                     /\ PidEnd(t, a)
                     /\ a.recovery \/ pidPlaying' \subseteq {a.active}
<1>1. /\ PidSending(t) /\ call \in PidCalls /\ call.todo # <<>>
      /\ PidCallOK(call, actuator)
      /\ actuator \in Actuators /\ pidPlaying \subseteq Effects
  BY DEF PidReturn, PidInv, PidTypeOK, PidSending, PidCallInv
<1>2. /\ call.todo \in Seq(PidReportNames) /\ call.effect \in Effects
      /\ call.op \in PidOps /\ call.cleanup \in BOOLEAN
      /\ PidTodoOK(call.todo, starts, silences)
      /\ actuator.attached /\ actuator.callback
      /\ starts => actuator.active = 0 /\ ~actuator.recovery
  BY <1>1 DEF PidCalls, PidCallOK
<1>3. /\ report = "operation_start" => starts /\ rest = <<>>
      /\ rest = <<>> => /\ starts => report = "operation_start"
                        /\ silences => report = "stop_all"
      /\ rest # <<>> => /\ rest \in Seq(PidReportNames)
                        /\ PidTodoOK(rest, starts, silences)
  BY <1>1, <1>2, PidFirst
<1>4. /\ actuator.recovery \/ pidPlaying \subseteq {actuator.active}
      /\ starts => pidPlaying = {}
  BY <1>1, <1>2 DEF PidInv, PidKnown, Effects
<1>5. /\ pidPlaying' \subseteq Effects
      /\ report # "operation_start" => pidPlaying' \subseteq pidPlaying
      /\ pidPlaying' \subseteq pidPlaying \/ pidPlaying' = {call.effect}
      /\ \/ pidPlaying' = pidPlaying \/ PidActs(report, call.effect)
  <2>1. CASE PidActs(report, call.effect)
    <3>1. /\ pidPlaying' \subseteq Effects
          /\ report # "operation_start" => pidPlaying' \subseteq pidPlaying
          /\ report = "operation_start" => pidPlaying' = pidPlaying \cup {call.effect}
      BY <1>2, <2>1, PidActsOK DEF PidInv
    <3> QED BY <2>1, <3>1, <1>3, <1>4
  <2>2. CASE pidPlaying' = pidPlaying
    BY <2>2, <1>1
  <2> QED BY <2>1, <2>2 DEF PidReturn
<1>6. \A x, y \in pidPlaying' : x = y
  BY <1>5 DEF PidInv, PidKnown
<1>7. /\ returned \in Actuators
      /\ returned.active = actuator.active /\ returned.recovery = actuator.recovery
  BY <1>1 DEF Actuators
<1>8. ASSUME NEW a \in Actuators
      PROVE  /\ [a EXCEPT !.recovery = TRUE] \in Actuators
             /\ [a EXCEPT !.recovery = TRUE].recovery
             /\ [a EXCEPT !.recovery = TRUE].attached = a.attached
             /\ [a EXCEPT !.recovery = TRUE].callback = a.callback
  BY DEF Actuators
<1>9. ASSUME rest # <<>>, pidCalls' = [pidCalls EXCEPT ![t].todo = rest],
             UNCHANGED actuator
      PROVE  GoesOn
  <2> DEFINE c == [call EXCEPT !.todo = rest]
  <2>1. /\ c \in PidCalls /\ c.todo = rest /\ c.op = call.op
        /\ c.effect = call.effect /\ c.cleanup = call.cleanup
    BY <1>1, <1>3, <1>9 DEF PidCalls
  <2>2. pidCalls' = [pidCalls EXCEPT ![t] = c]
    BY <1>9
  <2>3. PidCallOK(c, actuator)
    BY <2>1, <1>2, <1>3, <1>9 DEF PidCallOK
  <2>4. actuator.recovery \/ pidPlaying' \subseteq {actuator.active}
    BY <1>3, <1>4, <1>5, <1>9
  <2> HIDE DEF c
  <2> QED BY <2>1, <2>2, <2>3, <2>4, <1>1, <1>9
<1>10. ASSUME rest = <<>>, PidActs(report, call.effect),
              PidEnd(t, IF call.cleanup THEN [returned EXCEPT !.recovery = TRUE]
                        ELSE PidDone(call.op, call.effect, returned))
       PROVE  Ends
  <2>1. CASE call.cleanup
    BY <2>1, <1>7, <1>8, <1>10
  <2>2. CASE ~call.cleanup /\ call.op = "start"
    <3> DEFINE a == [returned EXCEPT !.active = call.effect]
    <3>1. a \in Actuators /\ a.active = call.effect
      BY <1>2, <1>7 DEF Actuators
    <3>2. PidEnd(t, a)
      BY <1>10, <2>2 DEF PidDone
    <3>3. pidPlaying' \subseteq {call.effect}
      BY <1>4, <1>5, <2>2
    <3> HIDE DEF a
    <3> QED BY <3>1, <3>2, <3>3
  <2>3. CASE ~call.cleanup /\ call.op = "submit"
    <3>1. PidEnd(t, returned)
      BY <1>10, <2>3 DEF PidDone
    <3>2. pidPlaying' \subseteq pidPlaying
      BY <1>3, <1>5, <2>3
    <3> QED BY <3>1, <3>2, <1>4, <1>7
  <2>4. CASE ~call.cleanup /\ call.op \in {"stop", "recover"}
    <3> DEFINE a == PidDone(call.op, call.effect, returned)
    <3>1. a \in Actuators
      BY <2>4, <1>7 DEF PidDone, Actuators
    <3>2. PidEnd(t, a)
      BY <1>10, <2>4
    <3>3. pidPlaying' = {}
      BY <1>2, <1>3, <1>10, <2>4, PidActsOK DEF PidInv
    <3> HIDE DEF a
    <3> QED BY <3>1, <3>2, <3>3
  <2> QED BY <2>1, <2>2, <2>3, <2>4, <1>2 DEF PidOps
<1>11. ASSUME report = "authorize", PidEnd(t, returned)
       PROVE  Ends
  BY <1>4, <1>5, <1>7, <1>11
<1>12. ASSUME starts,
              pidCalls' = [pidCalls EXCEPT ![t].todo = Silence, ![t].cleanup = TRUE],
              actuator' = ReportRefused(actuator)
       PROVE  GoesOn
  <2> DEFINE c == [call EXCEPT !.todo = Silence, !.cleanup = TRUE]
             a == ReportRefused(actuator)
  <2>1. /\ c \in PidCalls /\ c.todo = Silence /\ c.op = call.op
        /\ c.effect = call.effect /\ c.cleanup
    BY <1>1, SilenceOK DEF PidCalls
  <2>2. pidCalls' = [pidCalls EXCEPT ![t] = c]
    BY <1>12
  <2>3. a \in Actuators /\ a.recovery /\ a.attached /\ a.callback
    BY <1>1, <1>2, <1>8 DEF ReportRefused
  <2>4. PidCallOK(c, a)
    BY <2>1, <2>3, <1>2, <1>12, SilenceOK DEF PidCallOK
  <2> HIDE DEF c, a
  <2> QED BY <2>1, <2>2, <2>3, <2>4, <1>12, SilenceOK DEF a
<1>13. ASSUME PidEnd(t, ReportRefused(returned))
       PROVE  Ends
  BY <1>7, <1>8, <1>13 DEF ReportRefused
<1> HIDE DEF GoesOn, Ends
<1>14. GoesOn \/ Ends
  BY <1>9, <1>10, <1>11, <1>12, <1>13 DEF PidReturn
<1> QED BY <1>1, <1>5, <1>6, <1>14 DEF GoesOn, Ends

\* A callback that returns keeps the invariant of the actuator.
LEMMA PidReturnKeeps ==
  ASSUME PidInv, NEW t \in PidThreads, PidReturn(t)
  PROVE  PidInv'
<1> USE DEF PidInv
<1>1. /\ PidSending(t) /\ pidPlaying' \subseteq Effects
      /\ \A x, y \in pidPlaying' : x = y
  BY PidReturnCases
<1>2. \A u \in PidThreads \ {t} : ~PidSending(u)
  BY <1>1 DEF PidOneCall
<1>3. ASSUME NEW call \in PidCalls, NEW a \in Actuators,
             pidCalls' = [pidCalls EXCEPT ![t] = call], actuator' = a,
             PidCallOK(call, a), a.recovery \/ pidPlaying' \subseteq {a.active}
      PROVE  PidInv'
  <2>1. /\ pidCalls'[t] = call
        /\ \A u \in PidThreads \ {t} : ~PidSending(u)'
    BY <1>2, <1>3 DEF PidTypeOK, PidSending
  <2>2. PidTypeOK'
    BY <1>1, <1>3 DEF PidTypeOK
  <2>3. PidCallInv' /\ PidOneCall'
    BY <1>3, <2>1 DEF PidCallInv, PidOneCall, PidCallOK
  <2>4. PidChosen'
    BY <1>3 DEF PidTypeOK, PidChosen, PidCallOK
  <2> QED BY <1>1, <1>3, <2>2, <2>3, <2>4 DEF PidKnown
<1>4. ASSUME NEW a \in Actuators, PidEnd(t, a),
             a.recovery \/ pidPlaying' \subseteq {a.active}
      PROVE  PidInv'
  <2>1. PidNoCall \in PidCalls /\ PidNoCall.todo = <<>>
    BY DEF PidNoCall, PidCalls
  <2>2. \A u \in PidThreads : ~PidSending(u)'
    BY <1>2, <1>4, <2>1 DEF PidEnd, PidTypeOK, PidSending
  <2>3. PidTypeOK'
    BY <1>1, <1>4, <2>1 DEF PidTypeOK, PidEnd
  <2>4. PidKnown'
    BY <1>1, <1>4 DEF PidKnown, PidEnd
  <2>5. PidChosen'
    BY <1>4 DEF PidTypeOK, PidChosen, PidEnd
  <2> QED BY <2>2, <2>3, <2>4, <2>5 DEF PidCallInv, PidOneCall
<1> QED BY <1>3, <1>4, PidReturnCases

\* A call begins when no other is under way; a start finds nothing playing.
LEMMA PidBeginKeeps ==
  ASSUME PidInv, NEW t \in PidThreads, NEW op \in PidOps, NEW effect \in Effects,
         PidBegin(t, op, effect)
  PROVE  PidInv'
<1> USE DEF PidInv
<1> DEFINE new == [op |-> op, effect |-> effect, todo |-> PidReports(op),
                   cleanup |-> FALSE]
<1>1. /\ actuator.attached /\ ~actuator.callback
      /\ op = "start" => actuator.active = 0 /\ ~actuator.recovery
      /\ pidCalls' = [pidCalls EXCEPT ![t] = new]
      /\ actuator' = [actuator EXCEPT !.callback = TRUE]
      /\ pidPlaying' = pidPlaying
  BY DEF PidBegin, PidAdmits, PidOps, Ready, StartAdmitted
<1>2. \A u \in PidThreads : ~PidSending(u)
  BY <1>1 DEF PidCallInv, PidCallOK
<1>3. /\ PidReports(op) \in Seq(PidReportNames)
      /\ PidTodoOK(PidReports(op), op = "start", op \in {"stop", "recover"})
  BY PidReportsOK
<1>4. /\ pidCalls'[t] = new
      /\ \A u \in PidThreads \ {t} : ~PidSending(u)'
  BY <1>1, <1>2 DEF PidTypeOK, PidSending
<1>5. /\ actuator' \in Actuators
      /\ actuator'.attached = actuator.attached /\ actuator'.callback
      /\ actuator'.active = actuator.active
      /\ actuator'.recovery = actuator.recovery
  BY <1>1 DEF PidTypeOK, Actuators
<1>6. new \in PidCalls
  BY <1>3 DEF PidCalls
<1>7. PidTypeOK'
  BY <1>1, <1>5, <1>6 DEF PidTypeOK
<1>8. PidCallOK(new, actuator')
  BY <1>1, <1>3, <1>5 DEF PidCallOK
<1>9. PidCallInv' /\ PidOneCall'
  BY <1>4, <1>8 DEF PidCallInv, PidOneCall
<1>10. PidKnown'
  BY <1>1, <1>5 DEF PidKnown
<1>11. PidChosen'
  BY <1>1 DEF PidTypeOK, PidChosen
<1> QED BY <1>7, <1>9, <1>10, <1>11

\* The steps of sync_output before it calls, and of an attachment.
LEMMA PidOtherKeeps ==
  ASSUME PidInv,
         \/ \E t \in PidThreads, effect \in Effects, playsNow \in BOOLEAN :
               SyncRead(t, effect, playsNow)
         \/ \E t \in PidThreads :
               \/ PidDetach(t)
               \/ /\ ~PidSending(t) /\ UNCHANGED <<actuator, pidPlaying>>
                  /\ pidCalls' = [pidCalls EXCEPT ![t] = PidNoCall]
         \/ PidAttach
  PROVE  PidInv'
<1> USE DEF PidInv
<1>1. PidNoCall \in PidCalls /\ PidNoCall.todo = <<>>
  BY DEF PidNoCall, PidCalls
<1>2. ASSUME NEW t \in PidThreads, NEW c \in PidCalls, c.todo = <<>>,
             ~PidSending(t), pidCalls' = [pidCalls EXCEPT ![t] = c],
             c = PidNoCall \/ (c.op \in PidOps /\ c.effect \in Effects),
             UNCHANGED <<actuator, pidPlaying>>
      PROVE  PidInv'
  <2>1. \A u \in PidThreads : PidSending(u)' => PidSending(u) /\ pidCalls'[u] = pidCalls[u]
    BY <1>2 DEF PidTypeOK, PidSending
  <2>2. PidTypeOK'
    BY <1>2 DEF PidTypeOK
  <2>3. PidCallInv' /\ PidOneCall'
    BY <1>2, <2>1 DEF PidCallInv, PidOneCall
  <2>4. PidChosen'
    BY <1>2 DEF PidTypeOK, PidChosen
  <2> QED BY <1>2, <2>2, <2>3, <2>4 DEF PidKnown
<1>3. ASSUME NEW t \in PidThreads, NEW effect \in Effects, NEW playsNow \in BOOLEAN,
             SyncRead(t, effect, playsNow)
      PROVE  PidInv'
  <2> DEFINE c == [PidNoCall EXCEPT !.op = SyncChoice(effect, playsNow),
                                    !.effect = effect]
  <2>1. SyncChoice(effect, playsNow) \in PidOps
    BY DEF SyncChoice, PidOps
  <2>2. /\ c \in PidCalls /\ c.todo = <<>>
        /\ c.op \in PidOps /\ c.effect \in Effects
    BY <1>1, <2>1 DEF PidCalls
  <2>3. /\ pidCalls' = [pidCalls EXCEPT ![t] = c] /\ ~PidSending(t)
        /\ UNCHANGED <<actuator, pidPlaying>>
    BY <1>1, <1>3 DEF SyncRead, PidSending
  <2> HIDE DEF c
  <2> QED BY <1>2, <2>2, <2>3
<1>4. ASSUME NEW a \in Actuators, actuator' = a, ~a.attached, UNCHANGED <<pidCalls, pidPlaying>>,
             ~actuator.callback
      PROVE  PidInv'
  BY <1>4 DEF PidTypeOK, PidCallInv, PidCallOK, PidOneCall, PidChosen, PidKnown,
              PidSending
<1>5. ASSUME NEW t \in PidThreads, PidDetach(t)
      PROVE  PidInv'
  <2>1. /\ actuator' \in Actuators /\ ~actuator'.attached
        /\ UNCHANGED <<pidCalls, pidPlaying>> /\ ~actuator.callback
    BY <1>5 DEF PidDetach, PidTypeOK, Actuators, Attached
  <2> QED BY <1>4, <2>1
<1>6. CASE PidAttach
  <2>1. /\ actuator' \in Actuators /\ UNCHANGED pidCalls /\ pidPlaying' = {}
        /\ \A t \in PidThreads : ~PidSending(t)
    BY <1>1, <1>6 DEF PidAttach, PidTypeOK, Actuators, Attached, PidSending
  <2> QED BY <2>1 DEF PidTypeOK, PidCallInv, PidOneCall, PidChosen, PidKnown,
                      PidSending
<1> QED BY <1>1, <1>2, <1>3, <1>5, <1>6

\* The invariant of the actuator holds in every state.
LEMMA PidInvariant == PidSpec => []PidInv
<1>1. PidInit => PidInv
  <2> SUFFICES ASSUME PidInit PROVE PidInv
    OBVIOUS
  <2>1. PidNoCall \in PidCalls /\ PidNoCall.todo = <<>>
    BY DEF PidNoCall, PidCalls
  <2>2. PidTypeOK
    BY <2>1 DEF PidInit, PidTypeOK, Actuators, Attached
  <2>3. \A t \in PidThreads : ~PidSending(t)
    BY <2>1 DEF PidInit, PidSending
  <2> QED BY <2>2, <2>3 DEF PidInit, PidInv, PidCallInv, PidOneCall, PidChosen, PidKnown
<1>2. ASSUME PidInv, [PidNext]_pidVars PROVE PidInv'
  <2>1. CASE UNCHANGED pidVars
    BY <1>2, <2>1 DEF pidVars, PidInv, PidTypeOK, PidCallInv, PidOneCall,
                      PidChosen, PidKnown, PidSending
  <2>2. ASSUME NEW t \in PidThreads, SyncAct(t)
        PROVE  PidInv'
    <3>1. CASE PidBegin(t, pidCalls[t].op, pidCalls[t].effect)
      <4>1. pidCalls[t].op \in PidOps /\ pidCalls[t].effect \in Effects
        BY <1>2, <2>2 DEF SyncAct, PidInv, PidChosen
      <4> QED BY <1>2, <3>1, <4>1, PidBeginKeeps
    <3>2. CASE /\ pidCalls' = [pidCalls EXCEPT ![t] = PidNoCall]
               /\ UNCHANGED <<actuator, pidPlaying>>
      BY <1>2, <2>2, <3>2, PidOtherKeeps DEF SyncAct, PidSending
    <3> QED BY <2>2, <3>1, <3>2 DEF SyncAct
  <2> QED BY <1>2, <2>1, <2>2, PidReturnKeeps, PidBeginKeeps, PidOtherKeeps
          DEF PidNext, PidOps
<1> QED BY <1>1, <1>2, PTL DEF PidSpec

\* One effect at a time plays, and while the device is attached it is the
\* active one unless recovery is required (gamepad_pid_actuator_v1.h:126).
THEOREM OneEffectPlays == PidSpec => []OneEffectAtATime
<1>1. PidInv => OneEffectAtATime
  <2> SUFFICES ASSUME PidInv PROVE OneEffectAtATime
    OBVIOUS
  <2>1. Cardinality(pidPlaying) <= 1
    <3>1. CASE pidPlaying = {}
      BY <3>1, FS_EmptySet
    <3>2. ASSUME NEW x \in pidPlaying
          PROVE  Cardinality(pidPlaying) <= 1
      <4>1. pidPlaying = {x}
        BY <3>2 DEF PidInv, PidKnown
      <4> QED BY <4>1, FS_Singleton
    <3> QED BY <3>1, <3>2
  <2> QED BY <2>1 DEF PidInv, PidKnown, OneEffectAtATime
<1> QED BY <1>1, PidInvariant, PTL

-----------------------------------------------------------------------------
(* The effect pool *)

PoolOps == {"create", "start", "stop", "destroy"}

Pools == [attached : BOOLEAN, sequence : Nat, recovery : BOOLEAN,
          callback : BOOLEAN]

PoolEffects == [id : Nat, running : BOOLEAN]

PoolCallRecords ==
  [op : PoolOps \cup {"none"}, id : Nat, slot : SlotIndices \cup {0},
   pc : {"idle", "authorize", "submit", "submitted"}]

PoolTypeOK ==
  /\ pool \in Pools
  /\ poolSlots \in [SlotIndices -> PoolEffects]
  /\ poolCalls \in [PoolThreads -> PoolCallRecords]
  /\ poolPlaying \subseteq Nat \ {0}

PoolOut(t) == poolCalls[t].pc # "idle"
PoolSubmits(t) == PoolOut(t) /\ poolCalls[t].op \in {"start", "stop"}

PoolCallOK(call) ==
  /\ call.op \in PoolOps /\ call.slot \in SlotIndices
  /\ call.op = "create" <=> call.id = 0
  /\ call.pc \in {"submit", "submitted"} => call.op \in {"start", "stop"}

PoolCallInv ==
  \A t \in PoolThreads :
    IF PoolOut(t) THEN PoolCallOK(poolCalls[t]) ELSE poolCalls[t].slot = 0

(* A number that is not tangled is of one slot, in the table and in the    *)
(* calls.                                                                  *)
PoolOwn(id) == id # 0 /\ id \notin poolTangled

PoolPlaces ==
  /\ \A i, j \in SlotIndices :
       poolSlots[i].id = poolSlots[j].id /\ PoolOwn(poolSlots[i].id) => i = j
  /\ \A t \in PoolThreads, j \in SlotIndices :
       PoolOut(t) /\ poolSlots[j].id = poolCalls[t].id /\ PoolOwn(poolSlots[j].id)
         => j = poolCalls[t].slot
  /\ \A t, u \in PoolThreads :
       PoolOut(t) /\ PoolOut(u) /\ poolCalls[t].id = poolCalls[u].id /\ PoolOwn(poolCalls[t].id)
         => poolCalls[t].slot = poolCalls[u].slot

(* A start or a stop of an effect that is not tangled is the only call on  *)
(* its slot, and finds it as it left it; after its submission a stopped    *)
(* effect does not play.                                                   *)
PoolAlone ==
  \A t \in PoolThreads : PoolSubmits(t) /\ poolCalls[t].id \notin poolTangled =>
    /\ \A u \in PoolThreads : PoolOut(u) /\ poolCalls[u].slot = poolCalls[t].slot => u = t
    /\ pool.attached => /\ poolSlots[poolCalls[t].slot].id = poolCalls[t].id
                        /\ poolSlots[poolCalls[t].slot].running
    /\ poolCalls[t].pc = "submitted" /\ poolCalls[t].op = "stop"
         => poolCalls[t].id \notin poolPlaying

(* An effect that plays is being started or stopped, or its slot says so   *)
(* and no call is out on it.                                               *)
PoolRuns(id, i) ==
  /\ poolSlots[i].id = id /\ poolSlots[i].running
  /\ \A u \in PoolThreads : PoolOut(u) => poolCalls[u].slot # i

PoolKnown ==
  \A id \in poolPlaying \ poolTangled :
    \/ pool.recovery
    \/ \E t \in PoolThreads : PoolSubmits(t) /\ poolCalls[t].id = id
    \/ \E i \in SlotIndices : PoolRuns(id, i)

PoolInv == PoolTypeOK /\ PoolCallInv /\ PoolPlaces /\ PoolAlone /\ PoolKnown

\* An empty slot and an idle caller.
LEMMA PoolRecords ==
  /\ NoEffect \in PoolEffects /\ NoEffect.id = 0 /\ ~NoEffect.running
  /\ PoolNoCall \in PoolCallRecords /\ PoolNoCall.pc = "idle" /\ PoolNoCall.slot = 0
  BY DEF NoEffect, PoolEffects, PoolNoCall, PoolCallRecords

\* A call that is out.
LEMMA PoolCallOut ==
  ASSUME PoolInv, NEW t \in PoolThreads, PoolOut(t)
  PROVE  /\ poolCalls[t] \in PoolCallRecords /\ PoolCallOK(poolCalls[t])
         /\ poolCalls[t].slot \in SlotIndices /\ poolCalls[t].id \in Nat
         /\ poolSlots[poolCalls[t].slot] \in PoolEffects
BY DEF PoolInv, PoolTypeOK, PoolCallInv, PoolCallOK, PoolCallRecords

\* A call ends and writes its own slot: the number there stays, or becomes 0, or is
\* one that nobody uses.
LEMMA PoolEndKeeps ==
  ASSUME PoolInv, NEW t \in PoolThreads, PoolOut(t), PoolEnd(t),
         NEW new \in PoolEffects,
         poolSlots' = [poolSlots EXCEPT ![poolCalls[t].slot] = new],
         pool' \in Pools, pool'.attached = pool.attached,
         pool'.recovery = pool.recovery \/ pool'.recovery,
         UNCHANGED poolPlaying, poolTangled \subseteq poolTangled',
         \/ new.id = poolSlots[poolCalls[t].slot].id
         \/ new.id = 0
         \/ ~PoolUses(new.id) \/ new.id \in poolTangled',
         \/ pool'.recovery
         \/ poolCalls[t].op \in {"create", "destroy"}
         \/ poolCalls[t].id \notin poolPlaying \ poolTangled
         \/ new.id = poolCalls[t].id /\ new.running
  PROVE  PoolInv'
<1> USE DEF PoolInv
<1> DEFINE s == poolCalls[t].slot
<1>1. /\ s \in SlotIndices /\ poolSlots' \in [SlotIndices -> PoolEffects]
      /\ poolSlots'[s] = new
      /\ \A j \in SlotIndices : j # s => poolSlots'[j] = poolSlots[j]
  BY PoolCallOut DEF PoolTypeOK
<1>2. /\ poolCalls' \in [PoolThreads -> PoolCallRecords]
      /\ ~PoolOut(t)' /\ poolCalls'[t].slot = 0
      /\ \A u \in PoolThreads : u # t => poolCalls'[u] = poolCalls[u]
  BY PoolRecords DEF PoolEnd, PoolTypeOK, PoolOut
<1>3. \A u \in PoolThreads : PoolOut(u)' => u # t /\ PoolOut(u)
  BY <1>2 DEF PoolOut
<1>4. PoolTypeOK'
  BY <1>1, <1>2 DEF PoolTypeOK
<1>5. PoolCallInv'
  BY <1>2, <1>3 DEF PoolCallInv, PoolOut
<1>6. \A id : PoolOwn(id)' => PoolOwn(id)
  BY DEF PoolOwn
<1> HIDE DEF s
<1>7. PoolPlaces'
  <2>1. ASSUME NEW j \in SlotIndices, PoolOwn(poolSlots[j].id)', poolSlots'[s].id = poolSlots'[j].id
        PROVE  j = s
    <3>1. SUFFICES ASSUME j # s PROVE FALSE
      OBVIOUS
    <3>2. poolSlots'[j] = poolSlots[j] /\ new.id = poolSlots[j].id /\ PoolOwn(poolSlots[j].id)
      BY <1>1, <1>6, <2>1, <3>1
    <3>3. PoolUses(new.id) /\ new.id # 0 /\ new.id \notin poolTangled'
      BY <2>1, <3>2 DEF PoolUses, PoolOwn
    <3>4. new.id = poolSlots[s].id
      BY <3>3 DEF s
    <3> QED BY <1>1, <3>1, <3>2, <3>4 DEF PoolPlaces
  <2>2. ASSUME NEW u \in PoolThreads, PoolOut(u)', new.id # 0, new.id \notin poolTangled',
               new.id = poolCalls'[u].id
        PROVE  s = poolCalls'[u].slot
    <3>1. poolCalls'[u] = poolCalls[u] /\ PoolOut(u) /\ new.id = poolCalls[u].id
      BY <1>1, <1>2, <1>3, <2>2
    <3>2. new.id # 0 /\ new.id \notin poolTangled' /\ new.id \notin poolTangled
      BY <2>2
    <3>3. PoolUses(new.id)
      BY <3>1 DEF PoolUses
    <3>4. poolSlots[s].id = poolCalls[u].id
      BY <3>1, <3>2, <3>3 DEF s
    <3>5. PoolOwn(poolSlots[s].id)
      BY <3>1, <3>2, <3>4 DEF PoolOwn
    <3> QED BY <1>1, <3>1, <3>4, <3>5 DEF PoolPlaces
  <2>3. ASSUME NEW i \in SlotIndices, NEW j \in SlotIndices,
               poolSlots'[i].id = poolSlots'[j].id, PoolOwn(poolSlots[i].id)'
        PROVE  i = j
    BY <1>1, <1>6, <2>1, <2>3 DEF PoolPlaces
  <2>4. ASSUME NEW u \in PoolThreads, NEW j \in SlotIndices, PoolOut(u)',
               poolSlots'[j].id = poolCalls'[u].id, PoolOwn(poolSlots[j].id)'
        PROVE  j = poolCalls'[u].slot
    <3>1. CASE j = s
      <4>1. new.id # 0 /\ new.id \notin poolTangled' /\ new.id = poolCalls'[u].id
        BY <1>1, <2>4, <3>1 DEF PoolOwn
      <4> QED BY <2>2, <2>4, <3>1, <4>1
    <3>2. CASE j # s
      <4>1. /\ poolSlots'[j] = poolSlots[j] /\ poolCalls'[u] = poolCalls[u] /\ PoolOut(u)
            /\ PoolOwn(poolSlots[j].id)
        BY <1>1, <1>2, <1>3, <2>4, <3>2 DEF PoolOwn
      <4> QED BY <2>4, <4>1 DEF PoolPlaces
    <3> QED BY <3>1, <3>2
  <2>5. ASSUME NEW u \in PoolThreads, NEW v \in PoolThreads, PoolOut(u)', PoolOut(v)',
               poolCalls'[u].id = poolCalls'[v].id, PoolOwn(poolCalls[u].id)'
        PROVE  poolCalls'[u].slot = poolCalls'[v].slot
    BY <1>2, <1>3, <1>6, <2>5 DEF PoolPlaces
  <2> QED BY <2>3, <2>4, <2>5 DEF PoolPlaces
<1>8. PoolAlone'
  <2> SUFFICES ASSUME NEW u \in PoolThreads, PoolSubmits(u)', poolCalls'[u].id \notin poolTangled'
               PROVE  /\ \A v \in PoolThreads :
                           PoolOut(v)' /\ poolCalls'[v].slot = poolCalls'[u].slot => v = u
                      /\ pool'.attached => /\ poolSlots'[poolCalls'[u].slot].id = poolCalls'[u].id
                                           /\ poolSlots'[poolCalls'[u].slot].running
                      /\ poolCalls'[u].pc = "submitted" /\ poolCalls'[u].op = "stop"
                           => poolCalls'[u].id \notin poolPlaying'
    BY DEF PoolAlone
  <2>1. /\ u # t /\ PoolSubmits(u) /\ PoolOut(u) /\ poolCalls'[u] = poolCalls[u]
        /\ poolCalls[u].id \notin poolTangled
    BY <1>2, <1>3 DEF PoolSubmits
  <2>2. poolCalls[u].slot # s /\ poolCalls[u].slot \in SlotIndices
    BY <2>1, PoolCallOut DEF PoolAlone, s
  <2>3. poolSlots'[poolCalls[u].slot] = poolSlots[poolCalls[u].slot]
    BY <1>1, <2>2
  <2> QED BY <1>2, <1>3, <2>1, <2>3 DEF PoolAlone
<1>9. PoolKnown'
  <2> SUFFICES ASSUME NEW id \in poolPlaying, id \notin poolTangled', ~pool'.recovery
               PROVE  \/ \E u \in PoolThreads : PoolSubmits(u)' /\ poolCalls'[u].id = id
                      \/ \E i \in SlotIndices : PoolRuns(id, i)'
    BY DEF PoolKnown
  <2>1. CASE \E i \in SlotIndices : PoolRuns(id, i)
    <3>1. PICK i \in SlotIndices : PoolRuns(id, i)
      BY <2>1
    <3>2. i # s
      BY <3>1 DEF PoolRuns, s
    <3> QED BY <1>1, <1>2, <1>3, <3>1, <3>2 DEF PoolRuns
  <2>2. CASE \E u \in PoolThreads : PoolSubmits(u) /\ poolCalls[u].id = id
    <3>1. PICK u \in PoolThreads : PoolSubmits(u) /\ poolCalls[u].id = id
      BY <2>2
    <3>2. CASE u # t
      BY <1>2, <3>1, <3>2 DEF PoolSubmits, PoolOut
    <3>3. CASE u = t
      <4>1. id \in poolPlaying \ poolTangled /\ poolCalls[t].id = id /\ PoolSubmits(t)
        BY <3>1, <3>3
      <4>2. new.id = id /\ new.running
        BY <4>1 DEF PoolSubmits
      <4>3. \A v \in PoolThreads : PoolOut(v)' => poolCalls'[v].slot # s
        BY <1>2, <1>3, <4>1 DEF PoolAlone, s
      <4> QED BY <1>1, <4>2, <4>3 DEF PoolRuns
    <3> QED BY <3>2, <3>3
  <2> QED BY <2>1, <2>2 DEF PoolKnown, Pools
<1> QED BY <1>4, <1>5, <1>7, <1>8, <1>9

\* A start or a stop goes on: to its submission, and to the device.
LEMMA PoolGoesOn ==
  ASSUME PoolInv, NEW t \in PoolThreads, PoolSubmits(t), NEW pc \in {"submit", "submitted"},
         poolCalls' = [poolCalls EXCEPT ![t].pc = pc], UNCHANGED <<poolSlots, poolTangled>>,
         pool' \in Pools, pool'.attached = pool.attached, pool'.recovery = pool.recovery,
         \/ pc = "submit" /\ poolPlaying' = poolPlaying
         \/ /\ pc = "submitted" /\ poolCalls[t].op = "start"
            /\ poolPlaying' = poolPlaying \cup {poolCalls[t].id}
         \/ /\ pc = "submitted" /\ poolCalls[t].op = "stop"
            /\ poolPlaying' = poolPlaying \ {poolCalls[t].id}
  PROVE  PoolInv'
<1> USE DEF PoolInv
<1>1. /\ PoolOut(t) /\ poolCalls[t].id \in Nat \ {0}
      /\ PoolCallOK(poolCalls[t])
  BY PoolCallOut DEF PoolSubmits, PoolCallOK
<1>2. /\ poolCalls' \in [PoolThreads -> PoolCallRecords]
      /\ poolCalls'[t].pc = pc
      /\ \A u \in PoolThreads : /\ u # t => poolCalls'[u] = poolCalls[u]
                                /\ poolCalls'[u].op = poolCalls[u].op
                                /\ poolCalls'[u].id = poolCalls[u].id
                                /\ poolCalls'[u].slot = poolCalls[u].slot
  BY DEF PoolTypeOK, PoolCallRecords
<1>3. \A u \in PoolThreads : /\ PoolOut(u)' <=> PoolOut(u)
                             /\ PoolSubmits(u)' <=> PoolSubmits(u)
  BY <1>1, <1>2 DEF PoolOut, PoolSubmits
<1>4. PoolTypeOK'
  BY <1>1, <1>2 DEF PoolTypeOK
<1>5. PoolCallInv'
  <2>1. PoolCallOK(poolCalls[t])'
    BY <1>1, <1>2 DEF PoolCallOK, PoolSubmits
  <2> QED BY <1>2, <1>3, <2>1 DEF PoolCallInv
<1>6. PoolPlaces'
  BY <1>2, <1>3 DEF PoolPlaces, PoolOwn
<1>7. PoolAlone'
  <2> SUFFICES ASSUME NEW u \in PoolThreads, PoolSubmits(u), poolCalls[u].id \notin poolTangled
               PROVE  /\ \A v \in PoolThreads :
                           PoolOut(v) /\ poolCalls[v].slot = poolCalls[u].slot => v = u
                      /\ pool.attached => /\ poolSlots[poolCalls[u].slot].id = poolCalls[u].id
                                          /\ poolSlots[poolCalls[u].slot].running
                      /\ poolCalls'[u].pc = "submitted" /\ poolCalls[u].op = "stop"
                           => poolCalls[u].id \notin poolPlaying'
    BY <1>2, <1>3 DEF PoolAlone
  <2>1. ASSUME poolCalls'[u].pc = "submitted", poolCalls[u].op = "stop"
        PROVE  poolCalls[u].id \notin poolPlaying'
    <3>1. CASE u = t
      BY <1>2, <2>1, <3>1
    <3>2. CASE u # t
      <4>1. poolCalls[u].id \notin poolPlaying
        BY <1>2, <2>1, <3>2 DEF PoolAlone
      <4>2. poolCalls[u].id # poolCalls[t].id
        <5>1. SUFFICES ASSUME poolCalls[u].id = poolCalls[t].id PROVE FALSE
          OBVIOUS
        <5>2. PoolOut(u) /\ PoolOwn(poolCalls[u].id)
          BY <1>1, <5>1 DEF PoolSubmits, PoolOwn
        <5>3. poolCalls[u].slot = poolCalls[t].slot
          BY <1>1, <5>1, <5>2 DEF PoolPlaces
        <5> QED BY <1>1, <3>2, <5>3 DEF PoolAlone
      <4> QED BY <4>1, <4>2
    <3> QED BY <3>1, <3>2
  <2> QED BY <2>1 DEF PoolAlone
<1>8. PoolKnown'
  <2>1. \A id \in poolPlaying' : id \in poolPlaying \/ id = poolCalls[t].id
    OBVIOUS
  <2>2. \A id, i : PoolRuns(id, i)' <=> PoolRuns(id, i)
    BY <1>2, <1>3 DEF PoolRuns
  <2> QED BY <1>2, <1>3, <2>1, <2>2 DEF PoolKnown
<1> QED BY <1>4, <1>5, <1>6, <1>7, <1>8

\* A call begins: on a slot where another is out, the effect is tangled.
LEMMA PoolBeginKeeps ==
  ASSUME PoolInv, NEW t \in PoolThreads, NEW op \in PoolOps,
         NEW i \in SlotIndices, PoolBegin(t, op, i)
  PROVE  PoolInv'
<1> USE DEF PoolInv
<1> DEFINE new == [op |-> op, id |-> poolSlots[i].id, slot |-> i, pc |-> "authorize"]
<1>1. /\ pool.attached /\ ~pool.recovery
      /\ op = "create" <=> poolSlots[i].id = 0
      /\ op = "stop" => poolSlots[i].running
      /\ op \in {"start", "destroy"} => ~poolSlots[i].running
      /\ poolCalls[t] = PoolNoCall
      /\ poolCalls' = [poolCalls EXCEPT ![t] = new]
      /\ poolSlots' = IF op = "start" THEN [poolSlots EXCEPT ![i].running = TRUE]
                                      ELSE poolSlots
      /\ pool' = [pool EXCEPT !.callback = TRUE]
      /\ poolPlaying' = poolPlaying
  BY DEF PoolBegin, PoolAdmits, PoolOps, SlotWith
<1>2. /\ pool' \in Pools /\ pool'.attached /\ ~pool'.recovery
  BY <1>1 DEF PoolTypeOK, Pools
<1>3. /\ poolSlots' \in [SlotIndices -> PoolEffects]
      /\ \A j \in SlotIndices : /\ poolSlots'[j].id = poolSlots[j].id
                                /\ poolSlots[j].running => poolSlots'[j].running
      /\ op \in {"start", "stop"} => poolSlots'[i].running
  BY <1>1 DEF PoolTypeOK, PoolEffects
<1>4. new \in PoolCallRecords /\ poolSlots[i].id \in Nat
  BY DEF PoolTypeOK, PoolEffects, PoolCallRecords
<1>5. /\ poolCalls' \in [PoolThreads -> PoolCallRecords] /\ poolCalls'[t] = new
      /\ \A u \in PoolThreads : u # t => poolCalls'[u] = poolCalls[u]
      /\ PoolOut(t)' /\ ~PoolOut(t)
      /\ \A u \in PoolThreads : PoolOut(u)' <=> PoolOut(u) \/ u = t
  BY <1>1, <1>4, PoolRecords DEF PoolTypeOK, PoolOut
<1>6. /\ poolTangled \subseteq poolTangled'
      /\ (poolSlots[i].id # 0 /\ \E u \in PoolThreads : PoolOut(u) /\ poolCalls[u].slot = i)
           => poolSlots[i].id \in poolTangled'
  BY DEF PoolBegin
<1>7. \A id : PoolOwn(id)' => PoolOwn(id)
  BY <1>6 DEF PoolOwn
<1> HIDE DEF new
<1>8. new.op = op /\ new.id = poolSlots[i].id /\ new.slot = i /\ new.pc = "authorize"
  BY DEF new
<1>9. PoolTypeOK'
  BY <1>1, <1>2, <1>3, <1>5 DEF PoolTypeOK
<1>10. PoolCallInv'
  <2>1. PoolCallOK(new)
    BY <1>1, <1>8 DEF PoolCallOK
  <2> QED BY <1>5, <2>1 DEF PoolCallInv, PoolCallOK
<1>11. PoolPlaces'
  <2>1. ASSUME NEW u \in PoolThreads, PoolOut(u), poolCalls[u].id = poolSlots[i].id,
               PoolOwn(poolSlots[i].id)
        PROVE  poolCalls[u].slot = i
    BY <2>1 DEF PoolPlaces
  <2>2. ASSUME NEW j \in SlotIndices, NEW k \in SlotIndices,
               poolSlots'[j].id = poolSlots'[k].id, PoolOwn(poolSlots[j].id)'
        PROVE  j = k
    BY <1>3, <1>7, <2>2 DEF PoolPlaces
  <2>3. ASSUME NEW u \in PoolThreads, NEW j \in SlotIndices, PoolOut(u)',
               poolSlots'[j].id = poolCalls'[u].id, PoolOwn(poolSlots[j].id)'
        PROVE  j = poolCalls'[u].slot
    BY <1>3, <1>5, <1>7, <1>8, <2>3 DEF PoolPlaces
  <2>4. ASSUME NEW u \in PoolThreads, NEW v \in PoolThreads, PoolOut(u)', PoolOut(v)',
               poolCalls'[u].id = poolCalls'[v].id, PoolOwn(poolCalls[u].id)'
        PROVE  poolCalls'[u].slot = poolCalls'[v].slot
    BY <1>5, <1>7, <1>8, <2>1, <2>4 DEF PoolPlaces
  <2> QED BY <2>2, <2>3, <2>4 DEF PoolPlaces
<1>12. PoolAlone'
  <2> SUFFICES ASSUME NEW u \in PoolThreads, PoolSubmits(u)', poolCalls'[u].id \notin poolTangled'
               PROVE  /\ \A v \in PoolThreads :
                           PoolOut(v)' /\ poolCalls'[v].slot = poolCalls'[u].slot => v = u
                      /\ pool'.attached => /\ poolSlots'[poolCalls'[u].slot].id = poolCalls'[u].id
                                           /\ poolSlots'[poolCalls'[u].slot].running
                      /\ poolCalls'[u].pc = "submitted" /\ poolCalls'[u].op = "stop"
                           => poolCalls'[u].id \notin poolPlaying'
    BY DEF PoolAlone
  <2>1. CASE u = t
    <3>1. op \in {"start", "stop"} /\ poolSlots[i].id # 0 /\ poolSlots[i].id \notin poolTangled'
      BY <1>1, <1>5, <1>8, <2>1 DEF PoolSubmits
    <3>2. \A v \in PoolThreads : PoolOut(v) => poolCalls[v].slot # i
      BY <1>6, <3>1
    <3> QED BY <1>3, <1>5, <1>8, <2>1, <3>1, <3>2
  <2>2. CASE u # t
    <3>1. /\ PoolSubmits(u) /\ PoolOut(u) /\ poolCalls'[u] = poolCalls[u]
          /\ poolCalls[u].id \notin poolTangled /\ poolCalls[u].slot \in SlotIndices
      BY <1>5, <1>6, <2>2, PoolCallOut DEF PoolSubmits, PoolOut
    <3>2. /\ poolSlots[poolCalls[u].slot].id = poolCalls[u].id
          /\ poolSlots[poolCalls[u].slot].running
      BY <1>1, <3>1 DEF PoolAlone
    <3>3. poolCalls[u].slot # i
      <4>1. poolCalls[u].id # 0
        BY <3>1, PoolCallOut DEF PoolSubmits, PoolCallOK
      <4> QED BY <1>6, <3>1, <3>2, <4>1
    <3> QED BY <1>1, <1>3, <1>5, <1>8, <2>2, <3>1, <3>2, <3>3 DEF PoolAlone
  <2> QED BY <2>1, <2>2
<1>13. PoolKnown'
  <2> SUFFICES ASSUME NEW id \in poolPlaying, id \notin poolTangled'
               PROVE  \/ \E u \in PoolThreads : PoolSubmits(u)' /\ poolCalls'[u].id = id
                      \/ \E j \in SlotIndices : PoolRuns(id, j)'
    BY <1>1 DEF PoolKnown
  <2>1. CASE \E u \in PoolThreads : PoolSubmits(u) /\ poolCalls[u].id = id
    <3>1. PICK u \in PoolThreads : PoolSubmits(u) /\ poolCalls[u].id = id
      BY <2>1
    <3>2. u # t /\ PoolSubmits(u)' /\ poolCalls'[u].id = id
      BY <1>5, <3>1 DEF PoolSubmits
    <3> QED BY <3>2
  <2>2. CASE \E j \in SlotIndices : PoolRuns(id, j)
    <3>1. PICK j \in SlotIndices : PoolRuns(id, j)
      BY <2>2
    <3>2. CASE j # i
      BY <1>3, <1>5, <1>8, <3>1, <3>2 DEF PoolRuns
    <3>3. CASE j = i
      <4>1. id # 0 /\ poolSlots[i].id = id /\ poolSlots[i].running
        BY <3>1, <3>3 DEF PoolRuns, PoolTypeOK
      <4>2. op = "stop"
        BY <1>1, <4>1 DEF PoolOps
      <4>3. PoolSubmits(t)' /\ poolCalls'[t].id = id
        BY <1>5, <1>8, <4>1, <4>2 DEF PoolSubmits
      <4> QED BY <4>3
    <3> QED BY <3>2, <3>3
  <2> QED BY <1>1, <1>6, <2>1, <2>2 DEF PoolKnown
<1> QED BY <1>9, <1>10, <1>11, <1>12, <1>13

\* The privileged calls and the clock: a recovery tangles what is out.
LEMMA PoolPrivilegedKeeps ==
  ASSUME PoolInv, PoolTick \/ PoolRecover \/ PoolDetach
  PROVE  PoolInv'
<1> USE DEF PoolInv
<1>1. CASE PoolTick
  <2>1. /\ UNCHANGED <<poolSlots, poolCalls, poolPlaying, poolTangled>>
        /\ pool' = [pool EXCEPT !.sequence = pool.sequence + 1]
    BY <1>1 DEF PoolTick
  <2>2. /\ pool' \in Pools /\ pool'.attached = pool.attached /\ pool'.recovery = pool.recovery
    BY <2>1 DEF PoolTypeOK, Pools
  <2> QED BY <2>1, <2>2 DEF PoolTypeOK, PoolCallInv, PoolCallOK, PoolPlaces, PoolOwn, PoolAlone,
             PoolKnown, PoolRuns, PoolSubmits, PoolOut
<1>2. ASSUME UNCHANGED poolCalls, poolPlaying' = {}, pool' \in Pools,
             poolSlots' \in [SlotIndices -> PoolEffects],
             \A i \in SlotIndices : poolSlots'[i].id \in {0, poolSlots[i].id},
             poolTangled \subseteq poolTangled',
             \/ ~pool'.attached
             \/ \A u \in PoolThreads : PoolSubmits(u) => poolCalls[u].id \in poolTangled'
      PROVE  PoolInv'
  <2>1. PoolTypeOK' /\ PoolCallInv' /\ PoolKnown'
    BY <1>2 DEF PoolTypeOK, PoolCallInv, PoolCallOK, PoolOut, PoolKnown
  <2>2. \A id : PoolOwn(id)' => PoolOwn(id) /\ id # 0
    BY <1>2 DEF PoolOwn
  <2>3. PoolPlaces'
    BY <1>2, <2>2 DEF PoolPlaces, PoolOut
  <2>4. PoolAlone'
    BY <1>2 DEF PoolAlone, PoolSubmits, PoolOut
  <2> QED BY <2>1, <2>3, <2>4
<1>3. CASE PoolRecover
  <2>1. /\ poolSlots' \in [SlotIndices -> PoolEffects]
        /\ \A i \in SlotIndices : poolSlots'[i].id = poolSlots[i].id
    BY <1>3 DEF PoolRecover, PoolTypeOK, PoolEffects
  <2>2. /\ UNCHANGED poolCalls /\ poolPlaying' = {} /\ pool' \in Pools
    BY <1>3 DEF PoolRecover, PoolTypeOK, Pools
  <2>3. /\ poolTangled \subseteq poolTangled'
        /\ \A u \in PoolThreads : PoolSubmits(u) => poolCalls[u].id \in poolTangled'
    BY <1>3 DEF PoolRecover, PoolSubmits
  <2> QED BY <1>2, <2>1, <2>2, <2>3
<1>4. CASE PoolDetach
  <2>1. /\ poolSlots' \in [SlotIndices -> PoolEffects]
        /\ \A i \in SlotIndices : poolSlots'[i].id = 0
    BY <1>4, PoolRecords DEF PoolDetach
  <2>2. /\ UNCHANGED <<poolCalls, poolTangled>> /\ poolPlaying' = {}
        /\ pool' \in Pools /\ ~pool'.attached
    BY <1>4 DEF PoolDetach, PoolTypeOK, Pools
  <2> QED BY <1>2, <2>1, <2>2
<1> QED BY <1>1, <1>3, <1>4

\* What a refused start or stop leaves: recovery is required.
LEMMA PoolRefusedKeeps ==
  ASSUME PoolInv, NEW t \in PoolThreads, PoolOut(t), PoolEnd(t),
         SubmissionFailed(poolCalls[t]), UNCHANGED <<poolPlaying, poolTangled>>
  PROVE  PoolInv'
<1> DEFINE s == poolCalls[t].slot
           new == IF poolCalls[t].op = "start" THEN [poolSlots[s] EXCEPT !.running = FALSE]
                                               ELSE poolSlots[s]
<1>1. s \in SlotIndices /\ poolSlots[s] \in PoolEffects
  BY PoolCallOut
<1>2. new \in PoolEffects /\ new.id = poolSlots[s].id
  BY <1>1 DEF PoolEffects
<1>3. poolSlots' = [poolSlots EXCEPT ![s] = new]
  BY <1>1 DEF SubmissionFailed, PoolInv, PoolTypeOK
<1>4. pool' \in Pools /\ pool'.recovery /\ pool'.attached = pool.attached
  BY DEF SubmissionFailed, PoolInv, PoolTypeOK, Pools
<1> HIDE DEF new
<1> QED BY <1>2, <1>3, <1>4, PoolEndKeeps

\* The authorization returns.
LEMMA PoolAuthorizedKeeps ==
  ASSUME PoolInv, NEW t \in PoolThreads, NEW granted \in BOOLEAN, Authorized(t, granted)
  PROVE  PoolInv'
<1> DEFINE s == poolCalls[t].slot
<1>1. /\ PoolOut(t) /\ poolPlaying' = poolPlaying
  BY DEF Authorized, PoolOut
<1>2. /\ PoolReturned \in Pools /\ PoolReturned.attached = pool.attached
      /\ PoolReturned.recovery = pool.recovery
      /\ pool.sequence \in Nat
  BY DEF PoolReturned, PoolInv, PoolTypeOK, Pools
<1>3. s \in SlotIndices /\ poolSlots[s] \in PoolEffects
  BY <1>1, PoolCallOut
<1>4. CASE /\ poolCalls[t].op \in {"start", "stop"}
           /\ poolCalls' = [poolCalls EXCEPT ![t].pc = "submit"]
           /\ pool' = [pool EXCEPT !.callback = TRUE]
           /\ UNCHANGED <<poolSlots, poolTangled>>
  <2>1. pool' \in Pools /\ pool'.attached = pool.attached /\ pool'.recovery = pool.recovery
    BY <1>4 DEF PoolInv, PoolTypeOK, Pools
  <2>2. PoolSubmits(t)
    BY <1>1, <1>4 DEF PoolSubmits
  <2> QED BY <1>1, <1>4, <2>1, <2>2, PoolGoesOn
<1>5. CASE PoolEnd(t) /\ SubmissionFailed(poolCalls[t]) /\ UNCHANGED poolTangled
  BY <1>1, <1>5, PoolRefusedKeeps
<1>6. CASE poolCalls[t].op = "create" /\ Created(t)
  <2> DEFINE next == IF pool.sequence = MaxSequence THEN 1 ELSE pool.sequence + 1
             new == [poolSlots[s] EXCEPT !.id = next]
  <2>1. next \in Nat
    BY <1>2
  <2>2. new \in PoolEffects /\ new.id = next
    BY <1>3, <2>1 DEF PoolEffects
  <2>3. /\ pool' \in Pools /\ pool'.attached = pool.attached /\ pool'.recovery = pool.recovery
    BY <1>2, <1>6, <2>1 DEF Created, Pools
  <2>4. /\ poolTangled \subseteq poolTangled'
        /\ ~PoolUses(next) \/ next \in poolTangled'
        /\ PoolEnd(t)
    BY <1>6 DEF Created
  <2>5. poolSlots' = [poolSlots EXCEPT ![s] = new]
    BY <1>6 DEF Created
  <2> HIDE DEF next, new
  <2> QED BY <1>1, <1>6, <2>2, <2>3, <2>4, <2>5, PoolEndKeeps
<1>7. CASE poolCalls[t].op = "destroy" /\ Destroyed(t)
  BY <1>1, <1>2, <1>7, PoolRecords, PoolEndKeeps DEF Destroyed
<1>8. CASE /\ poolCalls[t].op \notin {"start", "stop"} /\ PoolEnd(t)
           /\ pool' = PoolReturned /\ UNCHANGED <<poolSlots, poolTangled>>
  <2>1. poolCalls[t].op \in {"create", "destroy"}
    BY <1>1, <1>8, PoolCallOut DEF PoolCallOK, PoolOps
  <2>2. poolSlots' = [poolSlots EXCEPT ![s] = poolSlots[s]]
    BY <1>3, <1>8 DEF PoolInv, PoolTypeOK
  <2> QED BY <1>1, <1>2, <1>3, <1>8, <2>1, <2>2, PoolEndKeeps
<1> QED BY <1>4, <1>5, <1>6, <1>7, <1>8 DEF Authorized

\* The submission reaches the device, and its callback returns.
LEMMA PoolSubmittedKeeps ==
  ASSUME PoolInv, NEW t \in PoolThreads,
         PoolActs(t) \/ \E yes \in BOOLEAN : Submitted(t, yes)
  PROVE  PoolInv'
<1> DEFINE s == poolCalls[t].slot
<1>1. PoolOut(t) /\ poolCalls[t].pc \in {"submit", "submitted"}
  BY DEF PoolActs, Submitted, PoolOut
<1>2. PoolSubmits(t)
  BY <1>1, PoolCallOut DEF PoolSubmits, PoolCallOK
<1>3. s \in SlotIndices /\ poolSlots[s] \in PoolEffects
  BY <1>1, PoolCallOut
<1>4. CASE PoolActs(t)
  <2>1. pool' = pool /\ pool \in Pools
    BY <1>4 DEF PoolActs, PoolInv, PoolTypeOK
  <2>2. /\ poolCalls' = [poolCalls EXCEPT ![t].pc = "submitted"]
        /\ UNCHANGED <<poolSlots, poolTangled>>
        /\ \/ poolCalls[t].op = "start" /\ poolPlaying' = poolPlaying \cup {poolCalls[t].id}
           \/ poolCalls[t].op = "stop" /\ poolPlaying' = poolPlaying \ {poolCalls[t].id}
    BY <1>2, <1>4 DEF PoolActs, PoolSubmits
  <2> QED BY <1>2, <2>1, <2>2, PoolGoesOn
<1>5. ASSUME NEW yes \in BOOLEAN, Submitted(t, yes)
      PROVE  PoolInv'
  <2>1. PoolEnd(t) /\ UNCHANGED <<poolPlaying, poolTangled>>
    BY <1>5 DEF Submitted
  <2>2. CASE SubmissionFailed(poolCalls[t])
    BY <1>1, <2>1, <2>2, PoolRefusedKeeps
  <2>3. CASE /\ yes /\ pool.attached /\ pool' = [pool EXCEPT !.callback = FALSE]
             /\ poolSlots' = IF poolCalls[t].op = "stop"
                             THEN [poolSlots EXCEPT ![s].running = FALSE] ELSE poolSlots
    <3> DEFINE new == IF poolCalls[t].op = "stop" THEN [poolSlots[s] EXCEPT !.running = FALSE]
                                                  ELSE poolSlots[s]
    <3>1. /\ new \in PoolEffects /\ new.id = poolSlots[s].id
          /\ poolCalls[t].op # "stop" => new.running = poolSlots[s].running
      BY <1>3 DEF PoolEffects
    <3>2. poolSlots' = [poolSlots EXCEPT ![s] = new]
      BY <1>3, <2>3 DEF PoolInv, PoolTypeOK
    <3>3. pool' \in Pools /\ pool'.recovery = pool.recovery /\ pool'.attached = pool.attached
      BY <2>3 DEF PoolInv, PoolTypeOK, Pools
    <3>4. poolCalls[t].op = "stop" => poolCalls[t].pc = "submitted"
      BY <1>5, <2>3 DEF Submitted
    <3>5. \/ poolCalls[t].id \notin poolPlaying \ poolTangled
          \/ new.id = poolCalls[t].id /\ new.running
      BY <1>2, <2>3, <3>1, <3>4 DEF PoolInv, PoolAlone, PoolSubmits
    <3> HIDE DEF new
    <3> QED BY <1>1, <2>1, <3>1, <3>2, <3>3, <3>5, PoolEndKeeps
  <2> QED BY <1>5, <2>2, <2>3 DEF Submitted
<1> QED BY <1>4, <1>5

\* The invariant of the effects holds in every state.
LEMMA PoolInvariant == PoolSpec => []PoolInv
<1>1. PoolInit => PoolInv
  <2> SUFFICES ASSUME PoolInit PROVE PoolInv
    OBVIOUS
  <2>1. PoolTypeOK
    BY PoolRecords DEF PoolInit, PoolTypeOK, Pools
  <2>2. \A t \in PoolThreads : ~PoolOut(t) /\ poolCalls[t].slot = 0
    BY PoolRecords DEF PoolInit, PoolOut
  <2>3. \A i \in SlotIndices : poolSlots[i].id = 0
    BY PoolRecords DEF PoolInit
  <2>4. poolPlaying = {}
    BY DEF PoolInit
  <2> QED BY <2>1, <2>2, <2>3, <2>4 DEF PoolInv, PoolCallInv, PoolPlaces, PoolOwn, PoolAlone,
                                        PoolSubmits, PoolKnown
<1>2. ASSUME PoolInv, [PoolNext]_poolVars PROVE PoolInv'
  <2>1. CASE UNCHANGED poolVars
    BY <1>2, <2>1 DEF poolVars, PoolInv, PoolTypeOK, PoolCallInv, PoolCallOK, PoolPlaces, PoolOwn,
                      PoolAlone, PoolKnown, PoolRuns, PoolSubmits, PoolOut
  <2> QED BY <1>2, <2>1, PoolBeginKeeps, PoolAuthorizedKeeps,
             PoolSubmittedKeeps, PoolPrivilegedKeeps DEF PoolNext, PoolOps
<1> QED BY <1>1, <1>2, PTL DEF PoolSpec

\* An effect that plays has a slot that says it runs, or a start or stop that is
\* under way, or recovery is required, whatever other calls, ticks and refusals
\* there are, unless another call or a recovery met one on its own slot, or its number
\* was given twice (gamepad_pid_effects_v1.c).
THEOREM PlayingStoppable == PoolSpec => []PlayingCanBeStopped
<1>1. PoolInv => PlayingCanBeStopped
  <2> SUFFICES ASSUME PoolInv, NEW id \in poolPlaying \ poolTangled, ~pool.recovery
               PROVE  \/ Submitting(id)
                      \/ \E i \in SlotIndices : poolSlots[i] = [id |-> id, running |-> TRUE]
    BY DEF PlayingCanBeStopped
  <2>1. CASE \E t \in PoolThreads : PoolSubmits(t) /\ poolCalls[t].id = id
    BY <2>1 DEF PoolSubmits, PoolOut, Submitting
  <2>2. CASE \E i \in SlotIndices : PoolRuns(id, i)
    <3>1. PICK i \in SlotIndices : PoolRuns(id, i)
      BY <2>2
    <3>2. poolSlots[i] = [id |-> id, running |-> TRUE]
      BY <3>1 DEF PoolRuns, PoolInv, PoolTypeOK, PoolEffects
    <3> QED BY <3>2
  <2> QED BY <2>1, <2>2 DEF PoolInv, PoolKnown
<1> QED BY <1>1, PoolInvariant, PTL

-----------------------------------------------------------------------------
(* Mapping database *)

DbRecordType == [key : Devices, profile : Profiles]

DbBusy(t) == dbCalls[t].op # "none"

DbTypeOK ==
  /\ db \in [records : Seq(DbRecordType), generation : Nat, recovery : BOOLEAN,
             callback : BOOLEAN]
  /\ storage \in [records : Seq(DbRecordType), generation : Nat]
  /\ dbCalls \in [DbThreads -> [op : {"none", "store", "load"},
                                candidate : Seq(DbRecordType)]]

(* A store is only made of valid records and while the database is not     *)
(* waiting for its recovery: its answer cannot end a recovery it knows     *)
(* nothing of.                                                             *)
DbCallInv ==
  \A t \in DbThreads :
    /\ DbBusy(t) => db.callback
    /\ dbCalls[t].op = "store" => ~db.recovery /\ RecordsValid(dbCalls[t].candidate)

DbOneCall ==
  \A t, u \in DbThreads : DbBusy(t) /\ DbBusy(u) => t = u

(* The storage may be ahead of the database only while recovery is         *)
(* required; what it holds can always be loaded.                           *)
DbKnown ==
  /\ ~db.recovery => db.records = storage.records /\ db.generation = storage.generation
  /\ db.records = accepted
  /\ RecordsValid(db.records)
  /\ RecordsValid(storage.records)

DbInv == DbTypeOK /\ DbCallInv /\ DbOneCall /\ DbKnown

\* With the record of a device set, the records are still records.
LEMMA WithType ==
  ASSUME NEW s \in Seq(DbRecordType), NEW r \in DbRecordType
  PROVE  With(s, r) \in Seq(DbRecordType)
<1>1. CASE r.key \in Keys(s)
  <2>1. [i \in DOMAIN s |-> IF s[i].key = r.key THEN r ELSE s[i]]
          \in [1..Len(s) -> DbRecordType]
    OBVIOUS
  <2>2. Len(s) \in Nat
    OBVIOUS
  <2> QED BY <1>1, <2>1, <2>2, SeqDef DEF With
<1>2. CASE r.key \notin Keys(s)
  BY <1>2, AppendProperties DEF With
<1> QED BY <1>1, <1>2

\* Without the record of a device that has one, the records are one less, and as
\* valid as they were: a removal is never refused as malformed.
LEMMA WithoutType ==
  ASSUME NEW s \in Seq(DbRecordType), NEW key \in Keys(s)
  PROVE  /\ Without(s, key) \in Seq(DbRecordType)
         /\ Len(Without(s, key)) = Len(s) - 1
         /\ RecordsValid(s) => RecordsValid(Without(s, key))
<1> DEFINE at == CHOOSE i \in DOMAIN s : s[i].key = key
           w == [i \in 1..(Len(s) - 1) |-> IF i < at THEN s[i] ELSE s[i + 1]]
<1>1. at \in 1..Len(s)
  BY DEF Keys
<1>2. Without(s, key) = w
  BY DEF Without
<1> HIDE DEF at
<1>3. Len(s) \in Nat /\ Len(s) - 1 \in Nat
  BY <1>1
<1>4. w \in [1..(Len(s) - 1) -> DbRecordType]
  BY <1>1, <1>3
<1>5. w \in Seq(DbRecordType) /\ Len(w) = Len(s) - 1
  BY <1>3, <1>4, SeqDef
<1>6. ASSUME RecordsValid(s) PROVE RecordsValid(w)
  <2>1. Len(w) <= MaxRecords
    BY <1>3, <1>5, <1>6, MaxRecordsAssumption DEF RecordsValid
  <2>2. ASSUME NEW i \in DOMAIN w, NEW j \in DOMAIN w, i # j
        PROVE  w[i].key # w[j].key
    <3>1. i \in 1..(Len(s) - 1) /\ j \in 1..(Len(s) - 1)
      BY <2>2
    <3>2. PICK m \in DOMAIN s, n \in DOMAIN s : m # n /\ w[i] = s[m] /\ w[j] = s[n]
      BY <1>1, <1>3, <2>2, <3>1
    <3> QED BY <1>6, <3>2 DEF RecordsValid
  <2> QED BY <2>1, <2>2 DEF RecordsValid
<1> QED BY <1>2, <1>5, <1>6

\* A caller whose callback begins.
LEMMA DbCallKeeps ==
  ASSUME DbInv, NEW t \in DbThreads, NEW op \in {"store", "load"},
         NEW candidate \in Seq(DbRecordType), DbCall(t, op, candidate), ~db.callback,
         op = "store" => ~db.recovery /\ RecordsValid(candidate)
  PROVE  DbInv'
<1>1. /\ db' \in [records : Seq(DbRecordType), generation : Nat, recovery : BOOLEAN,
                  callback : BOOLEAN]
      /\ db'.callback /\ db'.recovery = db.recovery
      /\ db'.records = db.records /\ db'.generation = db.generation
  BY DEF DbInv, DbTypeOK, DbCall
<1>2. /\ dbCalls' \in [DbThreads -> [op : {"none", "store", "load"},
                                     candidate : Seq(DbRecordType)]]
      /\ dbCalls'[t].op = op /\ dbCalls'[t].candidate = candidate
      /\ \A u \in DbThreads : u # t => dbCalls'[u] = dbCalls[u]
  BY DEF DbInv, DbTypeOK, DbCall
<1>3. \A u \in DbThreads : ~DbBusy(u)
  BY DEF DbInv, DbCallInv
<1>4. DbTypeOK'
  BY <1>1, <1>2 DEF DbInv, DbTypeOK, DbCall
<1>5. \A u \in DbThreads : DbBusy(u)' => u = t
  BY <1>2, <1>3 DEF DbBusy
<1>6. DbCallInv'
  <2> SUFFICES ASSUME NEW u \in DbThreads
               PROVE  /\ DbBusy(u)' => db'.callback
                      /\ dbCalls'[u].op = "store" =>
                           ~db'.recovery /\ RecordsValid(dbCalls'[u].candidate)
    BY DEF DbCallInv
  <2>1. CASE u = t
    BY <1>1, <1>2, <2>1
  <2>2. CASE u # t
    BY <1>1, <1>2, <1>3, <2>2 DEF DbBusy
  <2> QED BY <2>1, <2>2
<1>7. DbOneCall'
  BY <1>5 DEF DbOneCall
<1>8. DbKnown'
  BY <1>1 DEF DbInv, DbKnown, DbCall
<1> QED BY <1>4, <1>6, <1>7, <1>8 DEF DbInv

\* Setting and removing a record, and asking for the storage to be read.
LEMMA DbBeginKeeps ==
  ASSUME DbInv, NEW t \in DbThreads,
         \/ \E key \in Devices, profile \in Profiles :
              DbSet(t, [key |-> key, profile |-> profile])
         \/ \E key \in Devices : DbRemove(t, key)
         \/ DbRecover(t)
  PROVE  DbInv'
<1>1. ASSUME NEW key \in Devices, NEW profile \in Profiles,
             DbSet(t, [key |-> key, profile |-> profile])
      PROVE  DbInv'
  <2>1. With(db.records, [key |-> key, profile |-> profile]) \in Seq(DbRecordType)
    BY WithType DEF DbInv, DbTypeOK, DbRecordType
  <2> QED BY <1>1, <2>1, DbCallKeeps DEF DbSet, DbReady
<1>2. ASSUME NEW key \in Devices, DbRemove(t, key)
      PROVE  DbInv'
  <2>1. Without(db.records, key) \in Seq(DbRecordType)
    BY <1>2, WithoutType DEF DbInv, DbTypeOK, DbRemove
  <2> QED BY <1>2, <2>1, DbCallKeeps DEF DbRemove, DbReady
<1>3. CASE DbRecover(t)
  <2>1. <<>> \in Seq(DbRecordType)
    OBVIOUS
  <2> QED BY <1>3, <2>1, DbCallKeeps DEF DbRecover
<1> QED BY <1>1, <1>2, <1>3

\* A caller whose callback returned is idle, and no other is busy.
LEMMA DbEnded ==
  ASSUME DbInv, NEW t \in DbThreads, DbBusy(t),
         dbCalls' = [dbCalls EXCEPT ![t] = DbNoCall]
  PROVE  /\ dbCalls' \in [DbThreads -> [op : {"none", "store", "load"},
                                        candidate : Seq(DbRecordType)]]
         /\ \A u \in DbThreads : dbCalls'[u].op = "none"
  BY DEF DbInv, DbTypeOK, DbOneCall, DbBusy, DbNoCall

\* The answers of the storage: committed, unknown, rejected.
LEMMA DbStoredKeeps ==
  ASSUME DbInv, NEW t \in DbThreads, Stored(t)
  PROVE  DbInv'
<1>0. PICK candidate \in Seq(DbRecordType) : candidate = dbCalls[t].candidate
  BY DEF DbInv, DbTypeOK
<1>1. DbBusy(t) /\ RecordsValid(candidate) /\ ~db.recovery
  BY <1>0 DEF Stored, DbBusy, DbInv, DbCallInv
<1>2. /\ dbCalls' \in [DbThreads -> [op : {"none", "store", "load"},
                                     candidate : Seq(DbRecordType)]]
      /\ \A u \in DbThreads : dbCalls'[u].op = "none"
  BY <1>1, DbEnded DEF Stored
<1>3. DbCallInv' /\ DbOneCall'
  BY <1>2 DEF DbCallInv, DbOneCall, DbBusy
<1>4. ASSUME Commits(t)
      PROVE  /\ storage' \in [records : Seq(DbRecordType), generation : Nat]
             /\ storage'.records = candidate
             /\ RecordsValid(storage'.records)
  BY <1>0, <1>1, <1>4 DEF Commits, DbInv, DbTypeOK
<1>5. CASE /\ Commits(t)
           /\ db' = [[db EXCEPT !.callback = FALSE] EXCEPT
                        !.records = candidate, !.generation = storage'.generation]
           /\ accepted' = candidate
  <2>1. /\ db' \in [records : Seq(DbRecordType), generation : Nat, recovery : BOOLEAN,
                    callback : BOOLEAN]
        /\ db'.records = candidate /\ db'.generation = storage'.generation
    BY <1>4, <1>5 DEF DbInv, DbTypeOK
  <2>2. DbKnown'
    BY <1>1, <1>4, <1>5, <2>1 DEF DbKnown
  <2> QED BY <1>2, <1>3, <1>4, <1>5, <2>1, <2>2 DEF DbInv, DbTypeOK
<1>6. CASE /\ Commits(t) \/ UNCHANGED storage
           /\ db' = AfterUnknown([db EXCEPT !.callback = FALSE])
           /\ UNCHANGED accepted
  <2>1. /\ db' \in [records : Seq(DbRecordType), generation : Nat, recovery : BOOLEAN,
                    callback : BOOLEAN]
        /\ db'.recovery /\ db'.records = db.records
    BY <1>6 DEF DbInv, DbTypeOK, AfterUnknown
  <2>2. /\ storage' \in [records : Seq(DbRecordType), generation : Nat]
        /\ RecordsValid(storage'.records)
    BY <1>4, <1>6 DEF DbInv, DbTypeOK, DbKnown
  <2>3. DbKnown'
    BY <1>6, <2>1, <2>2 DEF DbInv, DbKnown
  <2> QED BY <1>2, <1>3, <2>1, <2>2, <2>3 DEF DbInv, DbTypeOK
<1>7. CASE UNCHANGED <<storage, accepted>> /\ db' = [db EXCEPT !.callback = FALSE]
  <2>1. /\ db' \in [records : Seq(DbRecordType), generation : Nat, recovery : BOOLEAN,
                    callback : BOOLEAN]
        /\ db'.recovery = db.recovery /\ db'.records = db.records
        /\ db'.generation = db.generation
    BY <1>7 DEF DbInv, DbTypeOK
  <2>2. DbKnown'
    BY <1>7, <2>1 DEF DbInv, DbKnown
  <2> QED BY <1>2, <1>3, <1>7, <2>1, <2>2 DEF DbInv, DbTypeOK
<1> QED BY <1>0, <1>5, <1>6, <1>7 DEF Stored

\* What is loaded is what the storage holds.
LEMMA DbLoadedKeeps ==
  ASSUME DbInv, NEW t \in DbThreads, Loaded(t)
  PROVE  DbInv'
<1>1. DbBusy(t) /\ storage' = storage
  BY DEF Loaded, DbBusy
<1>2. /\ dbCalls' \in [DbThreads -> [op : {"none", "store", "load"},
                                     candidate : Seq(DbRecordType)]]
      /\ \A u \in DbThreads : dbCalls'[u].op = "none"
  BY <1>1, DbEnded DEF Loaded
<1>3. DbCallInv' /\ DbOneCall'
  BY <1>2 DEF DbCallInv, DbOneCall, DbBusy
<1>4. /\ db' \in [records : Seq(DbRecordType), generation : Nat, recovery : BOOLEAN,
                  callback : BOOLEAN]
      /\ \/ /\ db'.records = storage.records /\ db'.generation = storage.generation
            /\ accepted' = storage.records
         \/ /\ db'.records = db.records /\ db'.generation = db.generation
            /\ db'.recovery = db.recovery /\ accepted' = accepted
  <2>1. CASE /\ db' = [records |-> storage.records, generation |-> storage.generation,
                       recovery |-> FALSE, callback |-> FALSE]
             /\ accepted' = storage.records
    BY <2>1 DEF DbInv, DbTypeOK
  <2>2. CASE db' = [db EXCEPT !.callback = FALSE] /\ accepted' = accepted
    BY <2>2 DEF DbInv, DbTypeOK
  <2> QED BY <2>1, <2>2 DEF Loaded
<1>5. DbKnown'
  BY <1>1, <1>4 DEF DbInv, DbKnown
<1> QED BY <1>1, <1>2, <1>3, <1>4, <1>5 DEF DbInv, DbTypeOK

\* The process ends: a store under way may have been committed, and init loads.
LEMMA DbRestartKeeps ==
  ASSUME DbInv, Restart
  PROVE  DbInv'
<1>1. /\ storage' \in [records : Seq(DbRecordType), generation : Nat]
      /\ RecordsValid(storage'.records)
      /\ accepted' = storage'.records
  <2>1. ASSUME NEW t \in DbThreads, dbCalls[t].op = "store", Commits(t)
        PROVE  /\ storage' \in [records : Seq(DbRecordType), generation : Nat]
               /\ RecordsValid(storage'.records)
    <3>1. dbCalls[t].candidate \in Seq(DbRecordType) /\ RecordsValid(dbCalls[t].candidate)
      BY <2>1 DEF DbInv, DbTypeOK, DbCallInv
    <3> QED BY <2>1, <3>1 DEF Commits, DbInv, DbTypeOK
  <2>2. CASE UNCHANGED storage /\ accepted' = IF db.recovery THEN storage.records ELSE accepted
    BY <2>2 DEF DbInv, DbTypeOK, DbKnown
  <2> QED BY <2>1, <2>2 DEF Restart
<1>2. /\ db' \in [records : Seq(DbRecordType), generation : Nat, recovery : BOOLEAN,
                  callback : BOOLEAN]
      /\ db'.records = storage'.records /\ db'.generation = storage'.generation
  BY <1>1 DEF Restart
<1>3. /\ dbCalls' \in [DbThreads -> [op : {"none", "store", "load"},
                                     candidate : Seq(DbRecordType)]]
      /\ \A u \in DbThreads : dbCalls'[u].op = "none"
  BY DEF Restart, DbNoCall
<1>4. DbCallInv' /\ DbOneCall' /\ DbKnown'
  BY <1>1, <1>2, <1>3 DEF DbCallInv, DbOneCall, DbBusy, DbKnown
<1> QED BY <1>1, <1>2, <1>3, <1>4 DEF DbInv, DbTypeOK

\* The invariant of the mapping database holds in every state.
LEMMA DbInvariant == DbSpec => []DbInv
<1>1. DbInit => DbInv
  <2> SUFFICES ASSUME DbInit PROVE DbInv
    OBVIOUS
  <2>1. <<>> \in Seq(DbRecordType) /\ Len(<<>>) = 0 /\ DOMAIN <<>> = {}
    OBVIOUS
  <2>2. RecordsValid(<<>>)
    BY <2>1, MaxRecordsAssumption DEF RecordsValid
  <2>3. DbTypeOK
    BY <2>1 DEF DbInit, DbNoCall, DbTypeOK
  <2>4. \A t \in DbThreads : dbCalls[t].op = "none"
    BY DEF DbInit, DbNoCall
  <2>5. DbKnown
    BY <2>2 DEF DbInit, DbKnown
  <2> QED BY <2>3, <2>4, <2>5 DEF DbInv, DbCallInv, DbOneCall, DbBusy
<1>2. ASSUME DbInv, [DbNext]_dbVars PROVE DbInv'
  <2>1. CASE UNCHANGED dbVars
    BY <1>2, <2>1 DEF dbVars, DbInv, DbTypeOK, DbCallInv, DbOneCall, DbKnown, DbBusy
  <2> QED BY <1>2, <2>1, DbBeginKeeps, DbStoredKeeps, DbLoadedKeeps, DbRestartKeeps
          DEF DbNext
<1> QED BY <1>1, <1>2, PTL DEF DbSpec

\* Unless recovery is required, lookups are answered from what the storage holds,
\* in its generation, and from what the last call that was OK asked for; whatever
\* is lost, refused or of unknown fate (gamepad_mapping_database_v1.c).
THEOREM LookupsAreStored == DbSpec => []MemoryIsStorage
<1>1. DbInv => MemoryIsStorage
  BY DEF DbInv, DbKnown, MemoryIsStorage
<1> QED BY <1>1, DbInvariant, PTL

==============================================================================
