------------------------- MODULE HciControllerProofs -------------------------
(***************************************************************************)
(* Proofs about HciController, for every table size, generation limit, set *)
(* of handles and set of peers, and about HciLink, where the same runtime  *)
(* drives a controller that keeps to the protocol.                         *)
(***************************************************************************)
EXTENDS HciLink, FiniteSetTheorems, SequenceTheorems, TLAPS

-----------------------------------------------------------------------------
(* Types *)

LEMMA UnchangedType ==
  /\ CmdTypeOK /\ UNCHANGED cmdVars => CmdTypeOK'
  /\ SetupTypeOK /\ UNCHANGED setupVars => SetupTypeOK'
  /\ RadioTypeOK /\ UNCHANGED radioVars => RadioTypeOK'
  /\ LinkTypeOK /\ UNCHANGED <<attempt, cancelPending, discVars>> => LinkTypeOK'
  /\ TableTypeOK /\ UNCHANGED connVars => TableTypeOK'
  BY DEF CmdTypeOK, SetupTypeOK, RadioTypeOK, LinkTypeOK, TableTypeOK,
         cmdVars, setupVars, radioVars, discVars, connVars

\* Configuration and start-up touch the command and setup variables only.
LEMMA SetupType ==
  ASSUME TypeOK, SetupStep
  PROVE  TypeOK'
<1> USE DEF TypeOK, SetupStep, Start, CompleteReset, CompleteRandomAddress,
            CompleteClearResolving, CompleteAddResolving, CompletePrivacyMode,
            CompleteRpaTimeout, CompleteResolutionEnable, CompleteReadAddress,
            SubmitPrivacyOrEventMask, ConfigureStaticRandomAddress,
            ConfigurePrivacy
<1>1. CmdTypeOK'
  BY DEF CmdTypeOK, SubmitInit, Submit, States, PendingStates, Opcodes,
         ScanModes, cmdVars
<1>2. localAddress' \in {"none", "public", "random"} /\ privacyIndex' \in Nat
  BY DEF SetupTypeOK, setupVars
<1>3. privacy' \in {<<>>} \cup PrivacyConfigs
  BY DEF SetupTypeOK, setupVars
<1>4. /\ staticRandom' \in {staticRandom, TRUE}
      /\ resolution' \in {resolution, TRUE, FALSE}
  BY DEF setupVars
<1>5. UNCHANGED <<radioVars, linkVars>>
  OBVIOUS
<1>6. SetupTypeOK'
  BY <1>2, <1>3, <1>4 DEF SetupTypeOK
<1> QED BY <1>1, <1>5, <1>6, UnchangedType DEF linkVars

LEMMA RadioType ==
  ASSUME TypeOK, RadioStep
  PROVE  TypeOK'
<1> USE DEF TypeOK, RadioStep, StartScan, StopScan, StartAdvertising,
            StopAdvertising, CompleteScanParams, CompleteScanEnable,
            CompleteScanDisable, CompleteAdvertisingStep,
            CompleteAdvertisingSwitch, ReportClockMutated
<1>1. CmdTypeOK'
  BY DEF CmdTypeOK, Submit, States, PendingStates, Opcodes, ScanModes
<1>2. RadioTypeOK'
  BY DEF RadioTypeOK, ScanModes, radioVars
<1>3. UNCHANGED <<setupVars, linkVars>>
  OBVIOUS
<1> QED BY <1>1, <1>2, <1>3, UnchangedType DEF linkVars

LEMMA EmptyEntryType == NoConnection \in ConnectionRecord
  BY ConstantsAssumption DEF NoConnection, ConnectionRecord, Generations

LEMMA NewEntryType ==
  ASSUME NEW h \in Handles, NEW g \in Generations, NEW role \in {0, 1},
         NEW peer \in Peers
  PROVE  NewConnection(h, g, role, peer) \in ConnectionRecord
  BY DEF NewConnection, NoConnection, ConnectionRecord, Generations

\* The flags of an entry may take any value.
LEMMA EntryFlagsType ==
  ASSUME NEW c \in ConnectionRecord, NEW v \in BOOLEAN, NEW w \in BOOLEAN
  PROVE  /\ [c EXCEPT !.disconnectPending = v] \in ConnectionRecord
         /\ [c EXCEPT !.ltkRequest = v] \in ConnectionRecord
         /\ [c EXCEPT !.ltkReplyCommand = v] \in ConnectionRecord
         /\ [c EXCEPT !.encryptionCommand = v] \in ConnectionRecord
         /\ [c EXCEPT !.encryptionPending = v, !.encryptionCommand = v,
                      !.encrypted = FALSE] \in ConnectionRecord
         /\ [c EXCEPT !.encrypted = v, !.encryptionPending = FALSE,
                      !.ltkRequest = w] \in ConnectionRecord
         /\ [c EXCEPT !.encryptionCommand = FALSE, !.encryptionPending = FALSE,
                      !.encrypted = FALSE] \in ConnectionRecord
         /\ [c EXCEPT !.ltkReplyCommand = FALSE, !.ltkRequest = FALSE,
                      !.encryptionPending = v, !.encrypted = FALSE]
              \in ConnectionRecord
<1>1. [c EXCEPT !.disconnectPending = v] \in ConnectionRecord
  BY DEF ConnectionRecord
<1>2. [c EXCEPT !.ltkRequest = v] \in ConnectionRecord
  BY DEF ConnectionRecord
<1>3. [c EXCEPT !.ltkReplyCommand = v] \in ConnectionRecord
  BY DEF ConnectionRecord
<1>4. [c EXCEPT !.encryptionCommand = v] \in ConnectionRecord
  BY DEF ConnectionRecord
<1>6. [c EXCEPT !.encryptionPending = v, !.encryptionCommand = v,
                !.encrypted = FALSE] \in ConnectionRecord
  BY DEF ConnectionRecord
<1>7. [c EXCEPT !.encrypted = v, !.encryptionPending = FALSE,
                !.ltkRequest = w] \in ConnectionRecord
  BY DEF ConnectionRecord
<1>8. [c EXCEPT !.encryptionCommand = FALSE, !.encryptionPending = FALSE,
                !.encrypted = FALSE] \in ConnectionRecord
  BY DEF ConnectionRecord
<1>9. [c EXCEPT !.ltkReplyCommand = FALSE, !.ltkRequest = FALSE,
                !.encryptionPending = v, !.encrypted = FALSE]
        \in ConnectionRecord
  BY DEF ConnectionRecord
<1> QED BY <1>1, <1>2, <1>3, <1>4, <1>6, <1>7, <1>8, <1>9

LEMMA EmptyDiscType ==
  NoDisconnect \in [pending : BOOLEAN, handle : Handles \cup {NoHandle},
                    generation : Generations]
  BY ConstantsAssumption DEF NoDisconnect, Generations

\* Connection attempts: the command and link variables change.
LEMMA AttemptType ==
  ASSUME TypeOK, AttemptStep
  PROVE  TypeOK'
<1> USE DEF TypeOK, AttemptStep, StartConnection, CancelConnection, CompleteCancel,
            StatusCreateConnection, StatusDisconnect, ConnectionUnsolicited,
            ConnectionFailed, ConnectionMalformed, ConnectionEarly,
            ConnectionRefused, FailController, TearDown, CanTearDown
<1>1. CmdTypeOK'
  BY DEF CmdTypeOK, LinkTypeOK, Submit, States, PendingStates, Opcodes,
         ScanModes, cmdVars
<1>2. UNCHANGED <<setupVars, radioVars, connVars>>
  BY DEF linkVars
<1>3. attempt' \in Peers \cup {NoPeer} /\ cancelPending' \in BOOLEAN
  <2>1. attempt \in Peers \cup {NoPeer} /\ cancelPending \in BOOLEAN
    BY DEF LinkTypeOK
  <2>2. \/ attempt' \in {attempt, NoPeer}
        \/ \E peer \in Peers : attempt' = peer
    BY DEF linkVars
  <2>3. \/ cancelPending' \in {cancelPending, FALSE}
        \/ \E r \in Transport : cancelPending' = (r = "ok")
    BY DEF linkVars
  <2> QED BY <2>1, <2>2, <2>3
<1>4. disc' \in [pending : BOOLEAN, handle : Handles \cup {NoHandle},
                 generation : Generations]
  <2>1. \/ disc' \in {disc, NoDisconnect}
        \/ \E h \in Handles :
             disc' = [pending |-> TRUE, handle |-> h, generation |-> 0]
    BY DEF linkVars, discVars
  <2>2. 0 \in Generations
    BY ConstantsAssumption DEF Generations
  <2>4. ASSUME NEW h \in Handles
        PROVE  [pending |-> TRUE, handle |-> h, generation |-> 0] \in
                 [pending : BOOLEAN, handle : Handles \cup {NoHandle},
                  generation : Generations]
    BY <2>2, <2>4
  <2>5. CASE disc' = disc
    BY <2>5 DEF LinkTypeOK
  <2> QED BY <2>1, <2>4, <2>5, EmptyDiscType
<1>5. discPrevious' \in {"UNINITIALIZED", "READY"}
  BY DEF LinkTypeOK, linkVars, discVars
<1> QED BY <1>1, <1>2, <1>3, <1>4, <1>5, UnchangedType DEF LinkTypeOK

\* Calls and events that change an entry's flags.
LEMMA SecurityType ==
  ASSUME TypeOK, SecurityStep
  PROVE  TypeOK'
<1> USE DEF TypeOK
<1>1. CmdTypeOK'
  <2>1. \/ UNCHANGED cmdVars
        \/ state' = "READY" /\ pendingOpcode' = NoOpcode /\ UNCHANGED scanActive
        \/ \E r, op : /\ op \in {"LE_START_ENCRYPTION"} \cup LtkOpcodes
                      /\ \/ Submit(r, op, "ENCRYPTION_START_PENDING", "READY",
                                   "FAILED")
                         \/ Submit(r, op, "LTK_REPLY_PENDING", "READY",
                                   "FAILED")
    BY DEF SecurityStep, StartEncryption, AnswerLtkRequest, CompleteToReady,
           StatusStartEncryption, LongTermKeyRequest, EncryptionChange
  <2> QED BY <2>1
          DEF CmdTypeOK, Submit, States, PendingStates, Opcodes, ScanModes,
              LtkOpcodes, cmdVars
<1>2. UNCHANGED <<setupVars, radioVars, attempt, cancelPending, discVars,
                  connCount, connGen>>
  BY DEF SecurityStep, StartEncryption, AnswerLtkRequest, CompleteToReady,
         StatusStartEncryption, LongTermKeyRequest, EncryptionChange
<1>3. conns' \in [Slots -> ConnectionRecord]
  <2> USE DEF TableTypeOK
  <2>1. ASSUME NEW h, NEW g, NEW r, StartEncryption(h, g, r)
        PROVE  conns' \in [Slots -> ConnectionRecord]
    <3>1. PICK s \in Slots :
            conns' = [conns EXCEPT ![s] =
                        [@ EXCEPT !.encryptionPending = (r = "ok"),
                                  !.encryptionCommand = (r = "ok"),
                                  !.encrypted = FALSE]]
      BY <2>1 DEF StartEncryption
    <3>2. (r = "ok") \in BOOLEAN
      OBVIOUS
    <3> QED BY <3>1, <3>2, EntryFlagsType
  <2>2. ASSUME NEW h, NEW g, NEW op, NEW r, AnswerLtkRequest(h, g, op, r)
        PROVE  conns' \in [Slots -> ConnectionRecord]
    <3>1. \/ UNCHANGED conns
          \/ conns' = [s \in Slots |->
                        IF LtkAnswerable(s, h, g)
                          THEN [conns[s] EXCEPT !.ltkReplyCommand = (r = "ok")]
                          ELSE conns[s]]
      BY <2>2 DEF AnswerLtkRequest
    <3>2. \A s \in Slots :
            [conns[s] EXCEPT !.ltkReplyCommand = (r = "ok")] \in ConnectionRecord
      BY EntryFlagsType
    <3> QED BY <3>1, <3>2
  <2>3. CASE CompleteToReady
    BY <2>3, EntryFlagsType DEF CompleteToReady
  <2>4. CASE StatusStartEncryption
    BY <2>4, EntryFlagsType DEF StatusStartEncryption
  <2>5. ASSUME NEW h, LongTermKeyRequest(h)
        PROVE  conns' \in [Slots -> ConnectionRecord]
    BY <2>5, EntryFlagsType DEF LongTermKeyRequest
  <2>6. ASSUME NEW h, NEW ok \in BOOLEAN, NEW enabled \in BOOLEAN,
               EncryptionChange(h, ok, enabled)
        PROVE  conns' \in [Slots -> ConnectionRecord]
    <3>1. PICK s \in Slots :
            conns' = [conns EXCEPT ![s] =
                        [@ EXCEPT !.encrypted = (ok /\ enabled),
                                  !.encryptionPending = FALSE,
                                  !.ltkRequest = (ok /\ conns[s].ltkRequest)]]
      BY <2>6 DEF EncryptionChange, Present
    <3>2. (ok /\ enabled) \in BOOLEAN /\ (ok /\ conns[s].ltkRequest) \in BOOLEAN
      OBVIOUS
    <3> QED BY <3>1, <3>2, EntryFlagsType
  <2> QED BY <2>1, <2>2, <2>3, <2>4, <2>5, <2>6 DEF SecurityStep
<1> QED BY <1>1, <1>2, <1>3, UnchangedType DEF TableTypeOK

\* Failed and out-of-place commands.
LEMMA FailureType ==
  ASSUME TypeOK, FailureStep
  PROVE  TypeOK'
<1> USE DEF TypeOK
<1>1. CASE CompleteUnexpected
  <2>1. CmdTypeOK'
    BY <1>1 DEF CompleteUnexpected, CmdTypeOK, States
  <2>2. SetupTypeOK'
    BY <1>1 DEF CompleteUnexpected, SetupTypeOK
  <2>3. UNCHANGED <<radioVars, linkVars>>
    BY <1>1 DEF CompleteUnexpected
  <2> QED BY <2>1, <2>2, <2>3, UnchangedType DEF linkVars
<1>2. CASE CommandFailed
  <2>1. FailedTo \in States
    BY DEF FailedTo, States, LinkTypeOK
  <2>2. CmdTypeOK'
    BY <1>2, <2>1 DEF CommandFailed, CmdTypeOK, ScanModes
  <2>3. UNCHANGED setupVars
    BY <1>2 DEF CommandFailed
  <2>4. RadioTypeOK'
    BY <1>2 DEF CommandFailed, RadioTypeOK
  <2>5. attempt' \in Peers \cup {NoPeer} /\ cancelPending' \in BOOLEAN
    BY <1>2 DEF CommandFailed, LinkTypeOK
  <2>6. /\ disc' \in {disc, NoDisconnect}
        /\ discPrevious' \in {"UNINITIALIZED", "READY"}
    BY <1>2 DEF CommandFailed, LinkTypeOK, discVars
  <2>7. disc' \in [pending : BOOLEAN, handle : Handles \cup {NoHandle},
                   generation : Generations]
    BY <2>6, EmptyDiscType DEF LinkTypeOK
  <2>8. \A c \in ConnectionRecord : FailedEntry(c) \in ConnectionRecord
    BY EntryFlagsType DEF FailedEntry
  <2>9. TableTypeOK'
    BY <1>2, <2>8 DEF CommandFailed, TableTypeOK
  <2> QED BY <2>2, <2>3, <2>4, <2>5, <2>6, <2>7, <2>9, UnchangedType
          DEF LinkTypeOK
<1> QED BY <1>1, <1>2 DEF FailureStep

\* Links that come and go.
LEMMA TableType ==
  ASSUME TypeOK, TableStep
  PROVE  TypeOK'
<1> USE DEF TypeOK
<1>1. CmdTypeOK'
  <2>1. \/ /\ state' \in {state, "CONNECT_CANCEL_PENDING", "READY", "FAILED",
                          discPrevious}
           /\ UNCHANGED <<pendingOpcode, scanActive>>
        \/ \E r : Submit(r, "DISCONNECT", "DISCONNECT_PENDING", "READY",
                         "FAILED")
    BY DEF TableStep, Disconnect, ConnectionAccepted, DisconnectionFailed,
           DisconnectionComplete
  <2> QED BY <2>1
          DEF CmdTypeOK, LinkTypeOK, Submit, States, PendingStates, Opcodes,
              ScanModes
<1>2. UNCHANGED <<setupVars, radioVars, cancelPending>>
  BY DEF TableStep, Disconnect, ConnectionAccepted, DisconnectionFailed,
         DisconnectionComplete
<1>3. /\ attempt' \in Peers \cup {NoPeer}
      /\ discPrevious' \in {"UNINITIALIZED", "READY"}
  BY DEF TableStep, LinkTypeOK, discVars, Disconnect, ConnectionAccepted,
         DisconnectionFailed, DisconnectionComplete
<1>4. disc' \in [pending : BOOLEAN, handle : Handles \cup {NoHandle},
                 generation : Generations]
  <2>1. \/ disc' \in {disc, NoDisconnect}
        \/ \E h \in Handles, g \in Generations :
             disc' = [pending |-> TRUE, handle |-> h, generation |-> g]
    BY DEF TableStep, discVars, Disconnect, ConnectionAccepted,
           DisconnectionFailed, DisconnectionComplete
  <2>2. ASSUME NEW h \in Handles, NEW g \in Generations
        PROVE  [pending |-> TRUE, handle |-> h, generation |-> g] \in
                 [pending : BOOLEAN, handle : Handles \cup {NoHandle},
                  generation : Generations]
    OBVIOUS
  <2>3. CASE disc' = disc
    BY <2>3 DEF LinkTypeOK
  <2>4. CASE disc' = NoDisconnect
    BY <2>4, EmptyDiscType
  <2>5. CASE \E h \in Handles, g \in Generations :
                disc' = [pending |-> TRUE, handle |-> h, generation |-> g]
    BY <2>2, <2>5
  <2> QED BY <2>1, <2>3, <2>4, <2>5
<1>5. TableTypeOK'
  <2> USE DEF TableTypeOK
  <2>1. ASSUME NEW h, NEW g, NEW r, Disconnect(h, g, r) PROVE TableTypeOK'
    <3>1. UNCHANGED <<connCount, connGen>>
      BY <2>1 DEF Disconnect
    <3>2. PICK s \in Slots :
            conns' = [conns EXCEPT ![s] =
                        [@ EXCEPT !.disconnectPending = (r = "ok")]]
      BY <2>1 DEF Disconnect
    <3>3. [conns[s] EXCEPT !.disconnectPending = (r = "ok")]
            \in ConnectionRecord
      BY EntryFlagsType
    <3> QED BY <3>1, <3>2, <3>3
  <2>2. ASSUME NEW h \in Handles, NEW role \in {0, 1}, NEW peer \in Peers,
               NEW rpa, ConnectionAccepted(h, role, peer, rpa, TRUE)
        PROVE  TableTypeOK'
    <3>1. connCount' = connCount + 1 /\ connGen' = connGen + 1
          /\ connGen # MaxGeneration
      BY <2>2 DEF ConnectionAccepted
    <3>2. PICK s \in Slots :
            conns' = [conns EXCEPT ![s] = NewConnection(h, connGen, role, peer)]
      BY <2>2 DEF ConnectionAccepted, FreeSlots
    <3>3. NewConnection(h, connGen, role, peer) \in ConnectionRecord
      BY NewEntryType
    <3> QED BY <3>1, <3>2, <3>3, ConstantsAssumption DEF Generations
  <2>3. ASSUME NEW h, DisconnectionFailed(h) PROVE TableTypeOK'
    BY <2>3, EntryFlagsType DEF DisconnectionFailed
  <2>4. ASSUME NEW h, DisconnectionComplete(h) PROVE TableTypeOK'
    BY <2>4, EmptyEntryType DEF DisconnectionComplete
  <2> QED BY <2>1, <2>2, <2>3, <2>4 DEF TableStep
<1> QED BY <1>1, <1>2, <1>3, <1>4, <1>5, UnchangedType DEF LinkTypeOK

LEMMA LifeType ==
  ASSUME TypeOK, Destroy \/ Reinitialize
  PROVE  TypeOK'
<1>1. Zeroed /\ state' \in States /\ connGen' \in Generations
  BY ConstantsAssumption DEF Destroy, Reinitialize, States, Generations
<1>2. CmdTypeOK' /\ SetupTypeOK' /\ RadioTypeOK'
  BY <1>1 DEF Zeroed, CmdTypeOK, SetupTypeOK, RadioTypeOK, ScanModes
<1>3. LinkTypeOK'
  BY <1>1, EmptyDiscType DEF Zeroed, LinkTypeOK
<1>4. TableTypeOK'
  BY <1>1, EmptyEntryType DEF Zeroed, TableTypeOK
<1> QED BY <1>2, <1>3, <1>4 DEF TypeOK

LEMMA InitType == Init => TypeOK
<1> SUFFICES ASSUME Init PROVE TypeOK
  OBVIOUS
<1>1. CmdTypeOK /\ SetupTypeOK /\ RadioTypeOK
  BY DEF Init, CmdTypeOK, SetupTypeOK, RadioTypeOK, States, ScanModes
<1>2. LinkTypeOK
  BY EmptyDiscType DEF Init, LinkTypeOK
<1>3. TableTypeOK
  BY EmptyEntryType, ConstantsAssumption DEF Init, TableTypeOK, Generations
<1> QED BY <1>1, <1>2, <1>3 DEF TypeOK

LEMMA NextType == TypeOK /\ [Next]_vars => TypeOK'
<1> SUFFICES ASSUME TypeOK, [Next]_vars PROVE TypeOK'
  OBVIOUS
<1>1. CASE UNCHANGED vars
  BY <1>1, UnchangedType DEF vars, linkVars, TypeOK
<1>2. CASE Next
  BY <1>2, LifeType, SetupType, RadioType, AttemptType, TableType,
     SecurityType, FailureType DEF Next
<1> QED BY <1>1, <1>2

\* Every variable keeps its type: whatever the controller reports and whatever
\* the transport does, the record holds legal states, opcodes and handles.
THEOREM TypeCorrect == Spec => []TypeOK
<1>1. TypeOK /\ [Next]_vars => TypeOK'
  BY NextType
<1> QED BY InitType, <1>1, PTL DEF Spec

-----------------------------------------------------------------------------
(* Generations *)

\* Two records name the same link, or none.
Same(c, d) ==
  /\ d.present = c.present
  /\ d.handle = c.handle
  /\ d.generation = c.generation
SameLink(s) == Same(conns[s], conns'[s])

\* Only TableStep and the life cycle change which links the table holds.
LEMMA LinksKept ==
  ASSUME TypeOK,
         SetupStep \/ RadioStep \/ AttemptStep \/ SecurityStep \/ FailureStep
  PROVE  connGen' = connGen /\ connCount' = connCount /\ \A s \in Slots : SameLink(s)
<1> USE DEF SameLink
<1>1. CASE SetupStep
  BY <1>1 DEF Same, SetupStep, Start, CompleteReset, CompleteRandomAddress,
            CompleteClearResolving, CompleteAddResolving, CompletePrivacyMode,
            CompleteRpaTimeout, CompleteResolutionEnable, CompleteReadAddress,
            ConfigureStaticRandomAddress, ConfigurePrivacy, linkVars, connVars
<1>2. CASE RadioStep
  BY <1>2 DEF Same, RadioStep, StartScan, StopScan, StartAdvertising,
            StopAdvertising, CompleteScanParams, CompleteScanEnable,
            CompleteScanDisable, CompleteAdvertisingStep,
            CompleteAdvertisingSwitch, ReportClockMutated, linkVars, connVars
<1>3. CASE AttemptStep
  BY <1>3 DEF Same, AttemptStep, StartConnection, CancelConnection, CompleteCancel,
            StatusCreateConnection, StatusDisconnect, ConnectionUnsolicited,
            ConnectionFailed, ConnectionMalformed, ConnectionEarly,
            ConnectionRefused, linkVars, connVars
<1>4. CASE FailureStep
  <2>1. CASE CompleteUnexpected
    BY <2>1 DEF Same, CompleteUnexpected, linkVars, connVars
  <2>2. CASE CommandFailed
    <3>1. connGen' = connGen /\ connCount' = connCount
      BY <2>2 DEF CommandFailed
    <3>2. ASSUME NEW s \in Slots PROVE SameLink(s)
      <4>1. conns'[s] = FailedEntry(conns[s]) /\ conns[s] \in ConnectionRecord
        BY <2>2 DEF CommandFailed, TypeOK, TableTypeOK
      <4> QED BY <4>1 DEF Same, ConnectionRecord, FailedEntry
    <3> QED BY <3>1, <3>2
  <2> QED BY <1>4, <2>1, <2>2 DEF FailureStep
<1>5. CASE SecurityStep
  <2>1. connGen' = connGen /\ connCount' = connCount
    BY <1>5 DEF SecurityStep, StartEncryption, AnswerLtkRequest, CompleteToReady,
         StatusStartEncryption, LongTermKeyRequest, EncryptionChange
  <2>2. ASSUME NEW s \in Slots PROVE SameLink(s)
    <3> DEFINE c == conns[s]
    <3>1. c \in ConnectionRecord
      BY DEF TypeOK, TableTypeOK
    <3>2. CASE CompleteToReady
      BY <3>1, <3>2 DEF Same, ConnectionRecord, CompleteToReady
    <3>3. CASE StatusStartEncryption
      BY <3>1, <3>3 DEF Same, ConnectionRecord, StatusStartEncryption
    <3>4. ASSUME NEW h, LongTermKeyRequest(h) PROVE SameLink(s)
      BY <3>1, <3>4 DEF Same, ConnectionRecord, LongTermKeyRequest
    <3>5. ASSUME NEW h, NEW ok \in BOOLEAN, NEW enabled \in BOOLEAN,
                 EncryptionChange(h, ok, enabled)
          PROVE  SameLink(s)
      <4>1. PICK t \in Slots :
              conns' = [conns EXCEPT ![t] =
                          [@ EXCEPT !.encrypted = (ok /\ enabled),
                                    !.encryptionPending = FALSE,
                                    !.ltkRequest = (ok /\ conns[t].ltkRequest)]]
        BY <3>5 DEF EncryptionChange, Present
      <4>2. conns'[s] \in {c, [c EXCEPT !.encrypted = (ok /\ enabled),
                                    !.encryptionPending = FALSE,
                                    !.ltkRequest = (ok /\ c.ltkRequest)]}
        BY <4>1 DEF TypeOK, TableTypeOK
      <4> QED BY <4>2, <3>1 DEF Same, ConnectionRecord
    <3>6. ASSUME NEW h, NEW g, NEW r, StartEncryption(h, g, r)
          PROVE  SameLink(s)
      <4>1. PICK t \in Slots :
              conns' = [conns EXCEPT ![t] =
                          [@ EXCEPT !.encryptionPending = (r = "ok"),
                                    !.encryptionCommand = (r = "ok"),
                                    !.encrypted = FALSE]]
        BY <3>6 DEF StartEncryption
      <4>2. conns'[s] \in {c, [c EXCEPT !.encryptionPending = (r = "ok"),
                                    !.encryptionCommand = (r = "ok"),
                                    !.encrypted = FALSE]}
        BY <4>1 DEF TypeOK, TableTypeOK
      <4> QED BY <4>2, <3>1 DEF Same, ConnectionRecord
    <3>7. ASSUME NEW h, NEW g, NEW op, NEW r, AnswerLtkRequest(h, g, op, r)
          PROVE  SameLink(s)
      <4>1. conns'[s] \in {c, [c EXCEPT !.ltkReplyCommand = (r = "ok")]}
        BY <3>7 DEF AnswerLtkRequest
      <4> QED BY <4>1, <3>1 DEF Same, ConnectionRecord
    <3> QED BY <1>5, <3>2, <3>3, <3>4, <3>5, <3>6, <3>7 DEF SecurityStep
  <2> QED BY <2>1, <2>2
<1> QED BY <1>1, <1>2, <1>3, <1>4, <1>5

\* What a step of the table does to slot s: nothing, an entry leaves, or a
\* link enters under the next generation and a handle the table did not hold.
LEMMA TableEffect ==
  ASSUME TypeOK, TableStep
  PROVE  \/ connGen' = connGen /\ \A s \in Slots : SameLink(s) \/ conns'[s] = NoConnection
         \/ /\ connGen' = connGen + 1
            /\ \A s \in Slots :
                 \/ SameLink(s)
                 \/ /\ conns'[s].generation = connGen
                    /\ ~HandlePresent(conns'[s].handle)
<1> USE DEF SameLink
<1>0. \A s \in Slots : conns[s] \in ConnectionRecord
  BY DEF TypeOK, TableTypeOK
<1>1. ASSUME NEW h, NEW g, NEW r, Disconnect(h, g, r)
      PROVE  connGen' = connGen /\ \A s \in Slots : SameLink(s)
  <2>1. PICK t \in Slots :
          conns' = [conns EXCEPT ![t] =
                      [@ EXCEPT !.disconnectPending = (r = "ok")]]
    BY <1>1 DEF Disconnect
  <2>2. \A s \in Slots :
          conns'[s] \in {conns[s], [conns[s] EXCEPT !.disconnectPending = (r = "ok")]}
    BY <2>1 DEF TypeOK, TableTypeOK
  <2>3. connGen' = connGen
    BY <1>1 DEF Disconnect
  <2> QED BY <1>0, <2>2, <2>3 DEF Same, ConnectionRecord
<1>2. ASSUME NEW h \in Handles, NEW role \in {0, 1}, NEW peer \in Peers,
             NEW rpa, ConnectionAccepted(h, role, peer, rpa, TRUE)
      PROVE  /\ connGen' = connGen + 1
             /\ \A s \in Slots :
                  \/ SameLink(s)
                  \/ /\ conns'[s].generation = connGen
                     /\ ~HandlePresent(conns'[s].handle)
  <2>1. connGen' = connGen + 1 /\ ~HandlePresent(h)
    BY <1>2 DEF ConnectionAccepted, Acceptable
  <2>2. PICK t \in Slots :
          conns' = [conns EXCEPT ![t] = NewConnection(h, connGen, role, peer)]
    BY <1>2 DEF ConnectionAccepted, FreeSlots
  <2>3. /\ conns'[t].generation = connGen
        /\ conns'[t].handle = h
    BY <2>2 DEF TypeOK, TableTypeOK, NewConnection, NoConnection
  <2>4. \A s \in Slots : s # t => SameLink(s)
    BY <2>2 DEF TypeOK, TableTypeOK, Same
  <2> QED BY <2>1, <2>3, <2>4
<1>3. ASSUME NEW h, DisconnectionFailed(h)
      PROVE  connGen' = connGen /\ \A s \in Slots : SameLink(s)
  <2>1. \A s \in Slots :
          conns'[s] \in {conns[s], [conns[s] EXCEPT !.disconnectPending = FALSE]}
    BY <1>3 DEF DisconnectionFailed
  <2>2. connGen' = connGen
    BY <1>3 DEF DisconnectionFailed
  <2> QED BY <1>0, <2>1, <2>2 DEF Same, ConnectionRecord
<1>4. ASSUME NEW h, DisconnectionComplete(h)
      PROVE  /\ connGen' = connGen
             /\ \A s \in Slots : SameLink(s) \/ conns'[s] = NoConnection
  BY <1>4 DEF DisconnectionComplete, Same
<1> QED BY <1>1, <1>2, <1>3, <1>4 DEF TableStep

\* A (handle, generation) pair never comes to name another link, for every
\* table size and generation limit: generations only grow, and the one
\* connection_complete gives out is larger than every one before it.
THEOREM GenerationsFresh == Spec => GenerationNeverReused
<1> DEFINE Step ==
      state # "UNINITIALIZED" /\ state' # "UNINITIALIZED" =>
        /\ connGen <= connGen'
        /\ \A s \in Slots :
             conns'[s].present
               /\ ~Pinned(s, conns'[s].handle, conns'[s].generation) =>
                  connGen <= conns'[s].generation /\ ~HandlePresent(conns'[s].handle)
<1>1. ASSUME TypeOK, Next PROVE Step
  <2>0. connGen \in Int /\ connGen <= connGen /\ connGen <= connGen + 1
    BY <1>1 DEF TypeOK, TableTypeOK, Generations
  <2>1. CASE Destroy \/ Reinitialize
    BY <2>1 DEF Destroy, Reinitialize
  <2>2. CASE SetupStep \/ RadioStep \/ AttemptStep \/ SecurityStep \/ FailureStep
    BY <1>1, <2>0, <2>2, LinksKept DEF Pinned, SameLink, Same
  <2>3. CASE TableStep
    <3>1. ~NoConnection.present
      BY DEF NoConnection
    <3> QED BY <1>1, <2>0, <2>3, <3>1, TableEffect DEF Pinned, SameLink, Same
  <2> QED BY <1>1, <2>1, <2>2, <2>3 DEF Next
<1>2. TypeOK /\ [Next]_vars => [Step]_vars
  BY <1>1
<1> QED BY TypeCorrect, <1>2, PTL DEF Spec, GenerationNeverReused

-----------------------------------------------------------------------------
(* The record stays valid *)

\* The inductive invariant.  Beside the checks of controller_valid it says
\* which state owns which part of the record: the commands of the privacy
\* chain need a resolving list, a scan that is being started excludes
\* advertising and the reverse, and an unanswered cancel excludes a
\* disconnect.
SetupInv ==
  /\ resolution => privacy # <<>>
  /\ privacyIndex <= Len(privacy)
  /\ state \in {"PRIVACY_CLEAR_PENDING", "PRIVACY_ADD_PENDING",
               "PRIVACY_MODE_PENDING", "PRIVACY_TIMEOUT_PENDING",
               "PRIVACY_ENABLE_PENDING"} => privacy # <<>>
  /\ state = "PRIVACY_MODE_PENDING" => privacyIndex < Len(privacy)

RadioInv ==
  /\ advActive => advConfigured /\ scanActive = "inactive"
  /\ state \in {"SCAN_PARAMS_PENDING", "SCAN_ENABLE_PENDING"} => ~advActive
  /\ state \in {"ADV_PARAMS_PENDING", "ADV_DATA_PENDING",
               "SCAN_RSP_DATA_PENDING", "ADV_ENABLE_PENDING"} =>
       advConfigured /\ scanActive = "inactive"

LinkInv ==
  /\ cancelPending => state \in {"CONNECT_CANCEL_PENDING", "FAILED"}
  /\ disc.pending => state \in {"DISCONNECT_PENDING", "FAILED"}
  /\ cancelPending => ~disc.pending /\ pendingOpcode # "DISCONNECT"

TableInv ==
  /\ state # "UNINITIALIZED" => connGen # 0
  /\ TableValid

IInv == TypeOK /\ SetupInv /\ RadioInv /\ LinkInv /\ TableInv

\* What the actions outside the start-up chain do to the command state.
LEMMA SetupPreserved ==
  ASSUME TypeOK, SetupInv, SetupStep
  PROVE  SetupInv'
<1> USE DEF SetupInv
<1>0. privacyIndex \in Nat /\ Len(privacy) \in Nat /\ (privacy # <<>> => 0 < Len(privacy))
  BY ConstantsAssumption DEF TypeOK, SetupTypeOK
<1>1. CASE ConfigureStaticRandomAddress
  BY <1>1 DEF ConfigureStaticRandomAddress, cmdVars
<1>2. ASSUME NEW config \in PrivacyConfigs, ConfigurePrivacy(config)
      PROVE  SetupInv'
  <2>1. 0 <= Len(config)
    BY ConstantsAssumption
  <2> QED BY <1>2, <2>1 DEF ConfigurePrivacy, Idle, cmdVars
<1>3. ASSUME NEW r, Start(r) \/ CompleteReset(r)
      PROVE  SetupInv'
  BY <1>3 DEF Start, CompleteReset, Submit, SubmitInit, setupVars
<1>4. ASSUME NEW r, CompleteRandomAddress(r)
      PROVE  SetupInv'
  BY <1>0, <1>4 DEF CompleteRandomAddress, SubmitPrivacyOrEventMask, Submit, SubmitInit
<1>5. ASSUME NEW r, NEW public \in BOOLEAN, CompleteReadAddress(public, r)
      PROVE  SetupInv'
  BY <1>0, <1>5 DEF CompleteReadAddress, SubmitPrivacyOrEventMask, Submit, SubmitInit
<1>6. ASSUME NEW r, CompleteClearResolving(r) \/ CompleteAddResolving(r)
      PROVE  SetupInv'
  BY <1>0, <1>6 DEF CompleteClearResolving, CompleteAddResolving, Answers, Submit, SubmitInit
<1>7. ASSUME NEW r, CompletePrivacyMode(r)
      PROVE  SetupInv'
  BY <1>0, <1>7 DEF CompletePrivacyMode, Answers, Submit, SubmitInit
<1>8. ASSUME NEW r, CompleteRpaTimeout(r) \/ CompleteResolutionEnable(r)
      PROVE  SetupInv'
  BY <1>0, <1>8 DEF CompleteRpaTimeout, CompleteResolutionEnable, Answers, Submit, SubmitInit, setupVars
<1> QED BY <1>1, <1>2, <1>3, <1>4, <1>5, <1>6, <1>7, <1>8 DEF SetupStep

\* A start-up step keeps the radio and the links as they are and moves to a
\* state that owns neither.
LEMMA SetupQuiet ==
  ASSUME TypeOK, SetupStep
  PROVE  /\ state \in SetupStates /\ state' \in SetupStates
         /\ state # "FAILED" /\ state' # "UNINITIALIZED"
         /\ scanActive' \in {scanActive, "inactive"}
         /\ UNCHANGED <<radioVars, linkVars>>
         /\ pendingOpcode' # "DISCONNECT"
<1> USE DEF SetupStates, NoOpcode
<1>1. CASE ConfigureStaticRandomAddress
  BY <1>1 DEF ConfigureStaticRandomAddress, Idle, cmdVars
<1>2. CASE \E config \in PrivacyConfigs : ConfigurePrivacy(config)
  BY <1>2 DEF ConfigurePrivacy, Idle, cmdVars
<1>3. CASE \E r \in Transport :
       \/ Start(r) \/ CompleteReset(r) \/ CompleteRandomAddress(r)
       \/ CompleteClearResolving(r) \/ CompleteAddResolving(r)
       \/ CompletePrivacyMode(r) \/ CompleteRpaTimeout(r)
       \/ CompleteResolutionEnable(r)
       \/ \E public \in BOOLEAN : CompleteReadAddress(public, r)
  BY <1>3 DEF Start, CompleteReset, CompleteRandomAddress, CompleteClearResolving,
         CompleteAddResolving, CompletePrivacyMode, CompleteRpaTimeout,
         CompleteResolutionEnable, CompleteReadAddress,
         SubmitPrivacyOrEventMask, Submit, SubmitInit, Answers, Idle
<1> QED BY <1>1, <1>2, <1>3 DEF SetupStep

\* A step that leaves the configuration alone and starts no command of the
\* start-up chain keeps SetupInv; likewise for the radio.
LEMMA QuietSetup ==
  ASSUME SetupInv, UNCHANGED setupVars,
         state' = state \/ state' \notin SetupStates \ {"FAILED", "UNINITIALIZED"}
  PROVE  SetupInv'
  BY DEF SetupInv, setupVars, SetupStates

RadioStates ==
  {"SCAN_PARAMS_PENDING", "SCAN_ENABLE_PENDING", "ADV_PARAMS_PENDING",
   "ADV_DATA_PENDING", "SCAN_RSP_DATA_PENDING", "ADV_ENABLE_PENDING"}

LEMMA QuietRadio ==
  ASSUME RadioInv, UNCHANGED advConfigured, advActive' => advActive,
         scanActive' \in {scanActive, "inactive"},
         state' = state \/ state' \notin RadioStates
  PROVE  RadioInv'
  BY DEF RadioInv, RadioStates

LEMMA QuietTable ==
  ASSUME TableInv, state # "UNINITIALIZED", UNCHANGED <<disc, connVars>>
  PROVE  TableInv'
  BY DEF TableInv, connVars, TableValid, ConnectionValid, EntriesDistinct,
         DisconnectMarked, Present

LEMMA SetupKeeps ==
  ASSUME IInv, SetupStep, state # "UNINITIALIZED"
  PROVE  IInv'
<1> USE DEF IInv
<1>1. TypeOK' /\ SetupInv'
  BY SetupType, SetupPreserved
<1>2. RadioInv'
  BY SetupQuiet, QuietRadio DEF SetupStates, RadioStates, radioVars
<1>3. LinkInv'
  BY SetupQuiet DEF LinkInv, SetupStates, linkVars, discVars
<1>4. TableInv'
  BY SetupQuiet, QuietTable DEF linkVars, discVars
<1> QED BY <1>1, <1>2, <1>3, <1>4

\* Scanning and advertising.
LEMMA RadioPreserved ==
  ASSUME RadioInv, RadioStep
  PROVE  RadioInv'
<1> USE DEF RadioInv
<1>1. CASE \E r \in Transport, family \in {"legacy", "extended"} :
             StartScan(family, r)
  BY <1>1 DEF StartScan, Submit
<1>2. ASSUME NEW r, NEW own, StartAdvertising(own, r)
      PROVE  RadioInv'
  <2>1. ~advActive /\ UNCHANGED advActive
    BY <1>2 DEF StartAdvertising
  <2>2. CASE r = "ok"
    <3>1. advConfigured' /\ scanActive' = "inactive" /\ state' = "ADV_PARAMS_PENDING"
      BY <1>2, <2>2 DEF StartAdvertising, Submit
    <3> QED BY <2>1, <3>1
  <2>3. CASE r # "ok"
    <3>1. state' \in {"READY", "FAILED"}
      BY <1>2, <2>3 DEF StartAdvertising, Submit
    <3> QED BY <2>1, <3>1
  <2> QED BY <2>2, <2>3
<1>3. CASE \E r \in Transport :
             StopScan(r) \/ StopAdvertising(r) \/ CompleteScanParams(r)
  BY <1>3 DEF StopScan, StopAdvertising, CompleteScanParams, Submit, Answers,
              radioVars
<1>4. ASSUME NEW r \in Transport, CompleteAdvertisingStep(r)
      PROVE  RadioInv'
  BY <1>4 DEF CompleteAdvertisingStep, Submit, Answers
<1>5. CASE CompleteScanEnable \/ CompleteScanDisable \/ ReportClockMutated
  BY <1>5 DEF CompleteScanEnable, CompleteScanDisable, ReportClockMutated,
              Answers, radioVars
<1>6. CASE CompleteAdvertisingSwitch
  BY <1>6 DEF CompleteAdvertisingSwitch, Answers
<1> QED BY <1>1, <1>2, <1>3, <1>4, <1>5, <1>6 DEF RadioStep

LEMMA RadioQuiet ==
  ASSUME RadioStep
  PROVE  /\ UNCHANGED <<setupVars, linkVars>>
         /\ state \notin SetupStates \cup {"CONNECT_CANCEL_PENDING",
                                         "DISCONNECT_PENDING"}
         /\ state' \notin SetupStates \ {"FAILED"}
         /\ pendingOpcode' # "DISCONNECT"
<1> USE DEF SetupStates, NoOpcode
<1>1. CASE \E r \in Transport : CompleteAdvertisingStep(r)
  BY <1>1 DEF CompleteAdvertisingStep, Submit, Answers
<1>2. CASE CompleteScanEnable \/ CompleteScanDisable \/ ReportClockMutated
           \/ CompleteAdvertisingSwitch
  BY <1>2 DEF CompleteScanEnable, CompleteScanDisable, ReportClockMutated,
              CompleteAdvertisingSwitch, Answers
<1>3. CASE \E r \in Transport :
             StopScan(r) \/ StopAdvertising(r) \/ CompleteScanParams(r)
  BY <1>3 DEF StopScan, StopAdvertising, CompleteScanParams, Submit, Answers,
              Ready
<1>4. CASE \E r \in Transport :
             \/ \E family \in {"legacy", "extended"} : StartScan(family, r)
             \/ \E own \in OwnAddresses : StartAdvertising(own, r)
  BY <1>4 DEF StartScan, StartAdvertising, Submit, Ready
<1> QED BY <1>1, <1>2, <1>3, <1>4 DEF RadioStep

LEMMA RadioKeeps ==
  ASSUME IInv, RadioStep, state # "UNINITIALIZED"
  PROVE  IInv'
<1> USE DEF IInv
<1>1. TypeOK' /\ RadioInv'
  BY RadioType, RadioPreserved
<1>2. SetupInv'
  BY RadioQuiet, QuietSetup DEF SetupStates
<1>3. LinkInv'
  BY RadioQuiet DEF LinkInv, SetupStates, linkVars, discVars
<1>4. TableInv'
  BY RadioQuiet, QuietTable DEF linkVars, discVars
<1> QED BY <1>1, <1>2, <1>3, <1>4

\* States the connection and encryption commands move to.
LinkStates ==
  {"READY", "FAILED", "UNINITIALIZED", "CONNECTING", "CONNECT_PENDING",
   "CONNECT_CANCEL_PENDING", "DISCONNECT_PENDING",
   "ENCRYPTION_START_PENDING", "LTK_REPLY_PENDING"}

\* A disconnect that is not pending, or that no table entry asked for, goes
\* with a table in which nothing is marked.
LEMMA UnmarkedTable ==
  ASSUME TableInv, state # "UNINITIALIZED", ~disc.pending,
         UNCHANGED connVars, ~disc'.pending \/ disc'.generation = 0
  PROVE  TableInv'
<1>1. \A s \in Present : ~conns[s].disconnectPending
  BY DEF TableInv, TableValid, DisconnectMarked
<1>2. Present' = Present
  BY DEF Present, connVars
<1>3. DisconnectMarked'
  BY <1>1, <1>2 DEF DisconnectMarked, connVars
<1>4. \A s \in Slots : ConnectionValid(conns[s])'
  <2> TAKE s \in Slots
  <2>1. ConnectionValid(conns[s])
    BY DEF TableInv, TableValid
  <2>2. conns[s].present => ~conns[s].disconnectPending
    BY <1>1 DEF Present
  <2> QED BY <2>1, <2>2 DEF ConnectionValid, connVars
<1>5. EntriesDistinct' /\ (connCount = Cardinality(Present))'
  BY <1>2 DEF TableInv, TableValid, EntriesDistinct, connVars
<1> QED BY <1>3, <1>4, <1>5 DEF TableInv, TableValid, connVars

LEMMA AttemptQuiet ==
  ASSUME AttemptStep, discPrevious \in {"UNINITIALIZED", "READY"}
  PROVE  /\ UNCHANGED <<setupVars, radioVars, connVars>>
         /\ state' = state \/ state' \in LinkStates
         /\ scanActive' \in {scanActive, "inactive"}
         /\ \/ disc' = disc
            \/ /\ ~disc.pending
               /\ ~disc'.pending \/ disc'.generation = 0
<1> USE DEF LinkStates, NoDisconnect
<1>1. CASE CompleteCancel \/ StatusCreateConnection \/ StatusDisconnect
           \/ ConnectionFailed \/ ConnectionMalformed \/ ConnectionEarly
  BY <1>1 DEF CompleteCancel, StatusCreateConnection, StatusDisconnect,
       ConnectionFailed, ConnectionMalformed, ConnectionEarly, FailController,
       linkVars, discVars
<1>2. ASSUME NEW r, NEW peer, NEW own,
             CancelConnection(r) \/ StartConnection(peer, own, r)
      PROVE  /\ UNCHANGED <<setupVars, radioVars, connVars, disc>>
             /\ state' \in LinkStates
             /\ scanActive' \in {scanActive, "inactive"}
  BY <1>2 DEF CancelConnection, StartConnection, Submit, discVars
<1>3. ASSUME NEW r, NEW h, TearDown(h, r), CanTearDown(h)
      PROVE  /\ state' \in LinkStates
             /\ scanActive' \in {scanActive, "inactive"}
             /\ ~disc.pending
             /\ ~disc'.pending \/ disc'.generation = 0
  BY <1>3 DEF TearDown, CanTearDown, Submit
<1>4. ASSUME NEW r, NEW h, ConnectionUnsolicited(h, r)
      PROVE  /\ UNCHANGED <<setupVars, radioVars, connVars>>
             /\ \/ TearDown(h, r) /\ CanTearDown(h)
                \/ FailController /\ UNCHANGED disc
  BY <1>4 DEF ConnectionUnsolicited, discVars
<1>5. ASSUME NEW r, NEW h, NEW role, NEW peer, NEW rpa, NEW fieldsOk,
             ConnectionRefused(h, role, peer, rpa, fieldsOk, r)
      PROVE  /\ UNCHANGED <<setupVars, radioVars, connVars>>
             /\ \/ TearDown(h, r) /\ CanTearDown(h)
                \/ FailController /\ UNCHANGED disc
  BY <1>5 DEF ConnectionRefused, discVars
<1> QED BY <1>1, <1>2, <1>3, <1>4, <1>5 DEF AttemptStep, FailController

\* An unanswered cancel and a pending disconnect keep out of each other's way.
LEMMA AttemptLinks ==
  ASSUME TypeOK, LinkInv, AttemptStep
  PROVE  LinkInv'
<1> USE DEF LinkInv, NoOpcode
<1>0. /\ cancelPending \in BOOLEAN /\ disc.pending \in BOOLEAN
      /\ discPrevious \in {"UNINITIALIZED", "READY"}
  BY DEF TypeOK, LinkTypeOK
<1>1. CASE CompleteCancel \/ StatusCreateConnection \/ ConnectionEarly
  BY <1>1 DEF CompleteCancel, StatusCreateConnection, ConnectionEarly, Answers,
              FailController, linkVars, discVars
<1>2. CASE StatusDisconnect
  BY <1>2 DEF StatusDisconnect
<1>3. CASE ConnectionFailed \/ ConnectionMalformed
  BY <1>3 DEF ConnectionFailed, ConnectionMalformed, FailController, discVars
<1>4. ASSUME NEW r, NEW peer, NEW own, StartConnection(peer, own, r)
      PROVE  LinkInv'
  <2>1. ~cancelPending' /\ ~disc'.pending
    BY <1>4 DEF StartConnection, discVars
  <2> QED BY <2>1
<1>5. ASSUME NEW r, CancelConnection(r)
      PROVE  LinkInv'
  <2>1. state = "CONNECTING" /\ UNCHANGED disc
    BY <1>5 DEF CancelConnection, discVars
  <2>2. ~disc'.pending
    BY <2>1
  <2>3. r = "ok" => state' = "CONNECT_CANCEL_PENDING"
                    /\ pendingOpcode' = "LE_CREATE_CONNECTION_CANCEL"
    BY <1>5 DEF CancelConnection, Submit
  <2>4. cancelPending' => r = "ok"
    BY <1>5 DEF CancelConnection
  <2> QED BY <2>2, <2>3, <2>4
<1>6. ASSUME NEW r, NEW h, TearDown(h, r), ~cancelPending'
      PROVE  LinkInv'
  <2>1. disc'.pending => r = "ok"
    BY <1>6 DEF TearDown, NoDisconnect
  <2>2. r = "ok" => state' = "DISCONNECT_PENDING"
    BY <1>6 DEF TearDown, Submit
  <2> QED BY <1>6, <2>1, <2>2
<1>7. ASSUME FailController, UNCHANGED <<disc, cancelPending>>
      PROVE  LinkInv'
  BY <1>7 DEF FailController
<1>8. ASSUME NEW r, NEW h, ConnectionUnsolicited(h, r)
      PROVE  LinkInv'
  <2>1. \/ TearDown(h, r) /\ state \in {"READY", "CONNECTING"}
        \/ FailController /\ UNCHANGED disc
    BY <1>8 DEF ConnectionUnsolicited, discVars
  <2>2. UNCHANGED cancelPending
    BY <1>8 DEF ConnectionUnsolicited
  <2> QED BY <2>1, <2>2, <1>6, <1>7
<1>9. ASSUME NEW r, NEW h, NEW role, NEW peer, NEW rpa, NEW fieldsOk,
             ConnectionRefused(h, role, peer, rpa, fieldsOk, r)
      PROVE  LinkInv'
  <2>1. \/ TearDown(h, r) /\ ~cancelPending
        \/ FailController /\ UNCHANGED disc
    BY <1>9 DEF ConnectionRefused, discVars
  <2>2. UNCHANGED cancelPending
    BY <1>9 DEF ConnectionRefused
  <2> QED BY <2>1, <2>2, <1>6, <1>7
<1> QED BY <1>1, <1>2, <1>3, <1>4, <1>5, <1>8, <1>9 DEF AttemptStep

LEMMA AttemptKeeps ==
  ASSUME IInv, AttemptStep, state # "UNINITIALIZED"
  PROVE  IInv'
<1> USE DEF IInv
<1>0. discPrevious \in {"UNINITIALIZED", "READY"}
  BY DEF TypeOK, LinkTypeOK
<1>1. TypeOK' /\ LinkInv'
  BY AttemptType, AttemptLinks
<1>2. SetupInv'
  BY <1>0, AttemptQuiet, QuietSetup DEF SetupStates, LinkStates
<1>3. RadioInv'
  BY <1>0, AttemptQuiet, QuietRadio DEF RadioStates, LinkStates, radioVars
<1>4. TableInv'
  BY <1>0, AttemptQuiet, QuietTable, UnmarkedTable
<1> QED BY <1>1, <1>2, <1>3, <1>4

\* Changing flags other than the disconnect mark keeps the table valid when
\* it keeps every entry valid.
LEMMA FlagsTable ==
  ASSUME TableInv, state # "UNINITIALIZED", UNCHANGED <<disc, connCount, connGen>>,
         \A s \in Slots : /\ SameLink(s)
                          /\ conns'[s].disconnectPending = conns[s].disconnectPending
                          /\ ConnectionValid(conns[s])'
  PROVE  TableInv'
<1>1. Present' = Present
  BY DEF Present, SameLink, Same
<1>2. EntriesDistinct'
  BY <1>1 DEF TableInv, TableValid, EntriesDistinct, SameLink, Same, Present
<1>3. DisconnectMarked'
  <2>1. {s \in Present' : conns'[s].disconnectPending}
          = {s \in Present : conns[s].disconnectPending}
    BY <1>1 DEF Present
  <2> QED BY <2>1 DEF TableInv, TableValid, DisconnectMarked
<1> QED BY <1>1, <1>2, <1>3 DEF TableInv, TableValid

LEMMA SecurityQuiet ==
  ASSUME SecurityStep
  PROVE  /\ UNCHANGED <<setupVars, radioVars, cancelPending, disc, connCount,
                        connGen>>
         /\ \/ UNCHANGED cmdVars
            \/ /\ state \in {"READY", "EVENT_MASK_PENDING",
                            "ENCRYPTION_START_PENDING", "LTK_REPLY_PENDING"}
               /\ state' \in LinkStates
               /\ scanActive' \in {scanActive, "inactive"}
<1>1. UNCHANGED <<setupVars, radioVars, cancelPending, disc, connCount, connGen>>
  BY DEF SecurityStep, StartEncryption, AnswerLtkRequest, CompleteToReady,
         StatusStartEncryption, LongTermKeyRequest, EncryptionChange, discVars
<1>2. \/ UNCHANGED cmdVars
      \/ /\ state \in {"READY", "EVENT_MASK_PENDING",
                      "ENCRYPTION_START_PENDING", "LTK_REPLY_PENDING"}
         /\ state' = "READY" /\ UNCHANGED scanActive
      \/ /\ state = "READY"
         /\ \E r, op :
              \/ Submit(r, op, "ENCRYPTION_START_PENDING", "READY", "FAILED")
              \/ Submit(r, op, "LTK_REPLY_PENDING", "READY", "FAILED")
  BY DEF SecurityStep, StartEncryption, AnswerLtkRequest, CompleteToReady,
         StatusStartEncryption, LongTermKeyRequest, EncryptionChange, Ready,
         Answers
<1> QED BY <1>1, <1>2 DEF Submit, LinkStates

\* The flags of an entry stay consistent with each other.
LEMMA SecurityEntries ==
  ASSUME TypeOK, TableInv, SecurityStep, NEW s \in Slots
  PROVE  /\ conns'[s].disconnectPending = conns[s].disconnectPending
         /\ ConnectionValid(conns[s])'
<1> DEFINE c == conns[s]
<1> DEFINE d == conns'[s]
<1>1. c \in ConnectionRecord /\ conns \in [Slots -> ConnectionRecord]
  BY DEF TypeOK, TableTypeOK
<1>2. ConnectionValid(c)
  BY DEF TableInv, TableValid
<1>3. UNCHANGED <<disc, connGen>>
  BY SecurityQuiet
<1> USE DEF ConnectionValid
<1>4. CASE d = c
  BY <1>2, <1>3, <1>4
<1>5. CASE CompleteToReady
  <2>1. CASE c.ltkReplyCommand /\ state = "LTK_REPLY_PENDING"
    <3>1. d = [c EXCEPT !.ltkReplyCommand = FALSE, !.ltkRequest = FALSE,
                        !.encryptionPending = (pendingOpcode = "LE_LTK_REPLY"),
                        !.encrypted = FALSE]
      BY <1>5, <2>1 DEF CompleteToReady
    <3>2. /\ d.present = c.present /\ d.generation = c.generation
          /\ d.handle = c.handle /\ d.disconnectPending = c.disconnectPending
          /\ d.encryptionCommand = c.encryptionCommand
          /\ ~d.ltkReplyCommand /\ ~d.ltkRequest /\ ~d.encrypted
      BY <1>1, <3>1 DEF ConnectionRecord
    <3>3. c.present /\ ~c.encryptionCommand
      BY <1>2, <2>1
    <3> QED BY <1>2, <1>3, <3>2, <3>3
  <2>2. CASE ~(c.ltkReplyCommand /\ state = "LTK_REPLY_PENDING")
    <3>1. d = c
      BY <1>5, <2>2 DEF CompleteToReady
    <3> QED BY <3>1, <1>4
  <2> QED BY <2>1, <2>2
<1>6. CASE StatusStartEncryption
  <2>1. d = [c EXCEPT !.encryptionCommand = FALSE]
    BY <1>6 DEF StatusStartEncryption
  <2> QED BY <1>1, <1>2, <1>3, <2>1 DEF ConnectionRecord
<1>7. ASSUME NEW h, LongTermKeyRequest(h), d # c
      PROVE  /\ d.disconnectPending = c.disconnectPending
             /\ ConnectionValid(conns[s])'
  <2>1. /\ c.present /\ c.role = 1
        /\ ~(c.encrypted \/ c.encryptionPending)
        /\ d = [c EXCEPT !.ltkRequest = TRUE]
    BY <1>7 DEF LongTermKeyRequest
  <2>2. ~c.encryptionCommand
    BY <1>2, <2>1
  <2> QED BY <1>1, <1>2, <1>3, <2>1, <2>2 DEF ConnectionRecord
<1>8. ASSUME NEW h, NEW ok \in BOOLEAN, NEW enabled \in BOOLEAN,
             EncryptionChange(h, ok, enabled), d # c
      PROVE  /\ d.disconnectPending = c.disconnectPending
             /\ ConnectionValid(conns[s])'
  <2>1. /\ c.present
        /\ ~c.encryptionCommand /\ ~c.ltkReplyCommand
        /\ ok /\ enabled => ~c.ltkRequest
        /\ d = [c EXCEPT !.encrypted = (ok /\ enabled),
                         !.encryptionPending = FALSE,
                         !.ltkRequest = (ok /\ c.ltkRequest)]
    <3>1. PICK t \in Present :
            /\ ~conns[t].encryptionCommand /\ ~conns[t].ltkReplyCommand
            /\ ok /\ enabled => ~conns[t].ltkRequest
            /\ conns' = [conns EXCEPT ![t] =
                            [@ EXCEPT !.encrypted = (ok /\ enabled),
                                      !.encryptionPending = FALSE,
                                      !.ltkRequest = (ok /\ conns[t].ltkRequest)]]
      BY <1>8 DEF EncryptionChange
    <3>2. t = s
      BY <1>1, <1>8, <3>1
    <3>3. conns'[s] = [conns[s] EXCEPT !.encrypted = (ok /\ enabled),
                         !.encryptionPending = FALSE,
                         !.ltkRequest = (ok /\ conns[s].ltkRequest)]
      BY <1>1, <3>1, <3>2
    <3> QED BY <3>1, <3>2, <3>3 DEF Present
  <2>2. /\ d.present = c.present /\ d.generation = c.generation
        /\ d.handle = c.handle /\ d.disconnectPending = c.disconnectPending
        /\ d.encryptionCommand = c.encryptionCommand /\ d.role = c.role
        /\ d.ltkReplyCommand = c.ltkReplyCommand /\ ~d.encryptionPending
        /\ d.encrypted = (ok /\ enabled)
        /\ d.ltkRequest = (ok /\ c.ltkRequest)
    BY <1>1, <2>1 DEF ConnectionRecord
  <2>3. /\ d.ltkRequest => c.ltkRequest /\ ~d.encrypted
    BY <2>1, <2>2
  <2> QED BY <1>2, <1>3, <2>1, <2>2, <2>3
<1>9. ASSUME NEW h, NEW g, NEW r, StartEncryption(h, g, r), d # c
      PROVE  /\ d.disconnectPending = c.disconnectPending
             /\ ConnectionValid(conns[s])'
  <2>1. /\ c.present /\ c.role = 0 /\ ~c.ltkRequest
        /\ d = [c EXCEPT !.encryptionPending = (r = "ok"),
                         !.encryptionCommand = (r = "ok"), !.encrypted = FALSE]
    <3>1. PICK t \in Slots :
            /\ conns[t].present /\ conns[t].role = 0 /\ ~conns[t].ltkRequest
            /\ conns' = [conns EXCEPT ![t] =
                            [@ EXCEPT !.encryptionPending = (r = "ok"),
                                      !.encryptionCommand = (r = "ok"),
                                      !.encrypted = FALSE]]
      BY <1>9 DEF StartEncryption, Pinned
    <3>2. t = s
      BY <1>1, <1>9, <3>1
    <3> QED BY <1>1, <3>1, <3>2
  <2>2. /\ d.present = c.present /\ d.generation = c.generation
        /\ d.handle = c.handle /\ d.disconnectPending = c.disconnectPending
        /\ d.role = c.role /\ d.ltkReplyCommand = c.ltkReplyCommand
        /\ d.ltkRequest = c.ltkRequest
        /\ d.encryptionCommand = d.encryptionPending
        /\ ~d.encrypted
    <3>1. c \in ConnectionRecord
      BY <1>1
    <3> HIDE DEF c, d, ConnectionValid
    <3> QED BY <2>1, <3>1 DEF ConnectionRecord
  <2> QED BY <1>2, <1>3, <2>1, <2>2
<1>10. ASSUME NEW h, NEW g, NEW op, NEW r, AnswerLtkRequest(h, g, op, r), d # c
       PROVE  /\ d.disconnectPending = c.disconnectPending
              /\ ConnectionValid(conns[s])'
  <2>1. /\ c.present /\ c.ltkRequest
        /\ d = [c EXCEPT !.ltkReplyCommand = (r = "ok")]
    BY <1>10 DEF AnswerLtkRequest, LtkAnswerable, Pinned
  <2>2. /\ d.present = c.present /\ d.generation = c.generation
        /\ d.handle = c.handle /\ d.disconnectPending = c.disconnectPending
        /\ d.role = c.role /\ d.ltkRequest = c.ltkRequest
        /\ d.encryptionCommand = c.encryptionCommand
        /\ d.encryptionPending = c.encryptionPending
        /\ d.encrypted = c.encrypted
    BY <1>1, <2>1 DEF ConnectionRecord
  <2> QED BY <1>2, <1>3, <2>1, <2>2
<1> HIDE DEF ConnectionValid
<1> QED BY <1>4, <1>5, <1>6, <1>7, <1>8, <1>9, <1>10 DEF SecurityStep

LEMMA SecurityKeeps ==
  ASSUME IInv, SecurityStep, state # "UNINITIALIZED"
  PROVE  IInv'
<1> USE DEF IInv
<1>1. TypeOK'
  BY SecurityType
<1>2. SetupInv'
  BY SecurityQuiet, QuietSetup DEF SetupStates, LinkStates, cmdVars
<1>3. RadioInv'
  BY SecurityQuiet, QuietRadio DEF RadioStates, LinkStates, radioVars, cmdVars
<1>4. LinkInv'
  BY SecurityQuiet DEF LinkInv, cmdVars
<1>5. TableInv'
  BY SecurityQuiet, SecurityEntries, LinksKept, FlagsTable
<1> QED BY <1>1, <1>2, <1>3, <1>4, <1>5

\* A disconnect that is given up takes its mark off the table.
LEMMA UnmarkTable ==
  ASSUME TypeOK, TableInv, state # "UNINITIALIZED", ~disc'.pending,
         UNCHANGED <<connCount, connGen>>,
         \A s \in Slots :
           /\ conns'[s] \in {conns[s], [conns[s] EXCEPT !.disconnectPending = FALSE]}
           /\ ~conns'[s].disconnectPending
  PROVE  TableInv'
<1>1. \A s \in Slots :
        /\ SameLink(s)
        /\ ConnectionValid(conns[s])'
  <2> TAKE s \in Slots
  <2>1. conns[s] \in ConnectionRecord /\ ConnectionValid(conns[s])
    BY DEF TypeOK, TableTypeOK, TableInv, TableValid
  <2>2. SameLink(s)
    BY <2>1 DEF SameLink, Same, ConnectionRecord
  <2>3. /\ conns'[s].role = conns[s].role
        /\ conns'[s].encrypted = conns[s].encrypted
        /\ conns'[s].encryptionPending = conns[s].encryptionPending
        /\ conns'[s].encryptionCommand = conns[s].encryptionCommand
        /\ conns'[s].ltkRequest = conns[s].ltkRequest
        /\ conns'[s].ltkReplyCommand = conns[s].ltkReplyCommand
    BY <2>1 DEF ConnectionRecord
  <2>4. ConnectionValid(conns[s])'
    BY <2>1, <2>2, <2>3 DEF ConnectionValid, SameLink, Same
  <2> QED BY <2>2, <2>4
<1>2. Present' = Present
  BY <1>1 DEF Present, SameLink, Same
<1>3. EntriesDistinct'
  BY <1>1, <1>2 DEF TableInv, TableValid, EntriesDistinct, SameLink, Same, Present
<1>4. DisconnectMarked'
  BY <1>2 DEF DisconnectMarked, Present
<1> QED BY <1>1, <1>2, <1>3, <1>4 DEF TableInv, TableValid

\* The entry a failed command leaves is valid, and loses only the mark of a
\* disconnect.
LEMMA FailedEntries ==
  ASSUME TypeOK, TableInv, NEW s \in Slots,
         conns'[s] = FailedEntry(conns[s]), connGen' = connGen
  PROVE  /\ state # "DISCONNECT_PENDING" /\ disc' = disc =>
              /\ conns'[s].disconnectPending = conns[s].disconnectPending
              /\ ConnectionValid(conns[s])'
         /\ state = "DISCONNECT_PENDING" =>
              /\ conns'[s] \in {conns[s],
                               [conns[s] EXCEPT !.disconnectPending = FALSE]}
              /\ ~conns'[s].disconnectPending
<1> DEFINE c == conns[s]
<1> DEFINE d == conns'[s]
<1>1. c \in ConnectionRecord /\ ConnectionValid(c)
  BY DEF TypeOK, TableTypeOK, TableInv, TableValid
<1>2. CASE state = "DISCONNECT_PENDING"
  <2>1. c.disconnectPending =>
          c.present /\ c.handle = disc.handle /\ c.generation = disc.generation
    BY <1>1 DEF ConnectionValid
  <2>2. CASE c.present /\ c.handle = disc.handle /\ c.generation = disc.generation
    <3>1. d = [c EXCEPT !.disconnectPending = FALSE]
      BY <1>2, <2>2 DEF FailedEntry
    <3> QED BY <1>1, <1>2, <3>1 DEF ConnectionRecord
  <2>3. CASE ~(c.present /\ c.handle = disc.handle /\ c.generation = disc.generation)
    <3>1. d = c
      BY <1>2, <2>3 DEF FailedEntry
    <3> QED BY <1>2, <2>1, <2>3, <3>1
  <2> QED BY <2>2, <2>3
<1>3. CASE state # "DISCONNECT_PENDING" /\ disc' = disc
  <2>1. CASE d = c
    BY <1>1, <1>3, <2>1 DEF ConnectionValid
  <2>2. CASE state = "ENCRYPTION_START_PENDING" /\ d # c
    <3>1. d = [c EXCEPT !.encryptionCommand = FALSE, !.encryptionPending = FALSE,
                        !.encrypted = FALSE]
      BY <2>2 DEF FailedEntry
    <3>2. /\ d.present = c.present /\ d.generation = c.generation
          /\ d.handle = c.handle /\ d.disconnectPending = c.disconnectPending
          /\ d.role = c.role /\ d.ltkRequest = c.ltkRequest
          /\ d.ltkReplyCommand = c.ltkReplyCommand
          /\ ~d.encryptionCommand /\ ~d.encryptionPending /\ ~d.encrypted
      BY <1>1, <3>1 DEF ConnectionRecord
    <3> QED BY <1>1, <1>3, <3>2 DEF ConnectionValid
  <2>3. CASE state = "LTK_REPLY_PENDING"
    <3>1. d = [c EXCEPT !.ltkReplyCommand = FALSE]
      BY <2>3 DEF FailedEntry
    <3>2. /\ d.present = c.present /\ d.generation = c.generation
          /\ d.handle = c.handle /\ d.disconnectPending = c.disconnectPending
          /\ d.role = c.role /\ d.ltkRequest = c.ltkRequest
          /\ d.encryptionCommand = c.encryptionCommand
          /\ d.encryptionPending = c.encryptionPending
          /\ d.encrypted = c.encrypted
          /\ ~d.ltkReplyCommand
      BY <1>1, <3>1 DEF ConnectionRecord
    <3> QED BY <1>1, <1>3, <3>2 DEF ConnectionValid
  <2>4. state \notin {"ENCRYPTION_START_PENDING", "LTK_REPLY_PENDING"} => d = c
    BY <1>3 DEF FailedEntry
  <2> QED BY <1>3, <2>1, <2>2, <2>3, <2>4
<1> QED BY <1>2, <1>3

LEMMA FailureKeeps ==
  ASSUME IInv, FailureStep, state # "UNINITIALIZED"
  PROVE  IInv'
<1> USE DEF IInv
<1>0. TypeOK'
  BY FailureType
<1>1. CASE CompleteUnexpected
  <2>1. state' \in {state, "FAILED"} /\ pendingOpcode' = NoOpcode
        /\ UNCHANGED <<scanActive, privacy, privacyIndex, resolution, radioVars,
                       linkVars>>
    BY <1>1 DEF CompleteUnexpected
  <2>2. SetupInv'
    BY <2>1 DEF SetupInv
  <2>3. RadioInv'
    BY <2>1 DEF RadioInv, radioVars
  <2>4. LinkInv'
    BY <2>1 DEF LinkInv, linkVars, discVars, NoOpcode
  <2>5. TableInv'
    BY <2>1, QuietTable DEF linkVars, discVars
  <2> QED BY <1>0, <2>2, <2>3, <2>4, <2>5
<1>2. CASE CommandFailed
  <2>1. state' \in {"READY", "FAILED", "SCANNING", "CONNECTING", "UNINITIALIZED"}
    BY <1>2 DEF CommandFailed, FailedTo, TypeOK, LinkTypeOK
  <2>2. SetupInv'
    BY <1>2, <2>1, QuietSetup DEF CommandFailed, SetupStates
  <2>3. RadioInv'
    <3>1. /\ UNCHANGED advConfigured
          /\ scanActive' \in {scanActive, "inactive"}
          /\ advActive' => advActive
      BY <1>2 DEF CommandFailed
    <3> QED BY <2>1, <3>1, QuietRadio DEF RadioStates
  <2>4. LinkInv'
    <3>1. CASE state = "DISCONNECT_PENDING"
      <4>1. ~disc'.pending /\ UNCHANGED cancelPending
        BY <1>2, <3>1 DEF CommandFailed, NoDisconnect
      <4> QED BY <3>1, <4>1 DEF LinkInv
    <3>2. CASE state # "DISCONNECT_PENDING"
      <4>1. UNCHANGED disc /\ pendingOpcode' = NoOpcode
        BY <1>2, <3>2 DEF CommandFailed, discVars
      <4>2. disc.pending => state = "FAILED" /\ ~cancelPending
        BY <3>2 DEF LinkInv
      <4>3. state = "FAILED" => state' = "FAILED"
        BY <1>2 DEF CommandFailed, FailedTo
      <4>4. cancelPending' => cancelPending /\ state # "CONNECT_CANCEL_PENDING"
        BY <1>2 DEF CommandFailed
      <4> QED BY <4>1, <4>2, <4>3, <4>4 DEF LinkInv, NoOpcode
    <3> QED BY <3>1, <3>2
  <2>5. TableInv'
    <3>1. UNCHANGED <<connCount, connGen>>
          /\ \A s \in Slots : conns'[s] = FailedEntry(conns[s])
      BY <1>2 DEF CommandFailed
    <3>2. CASE state = "DISCONNECT_PENDING"
      <4>1. ~disc'.pending
        BY <1>2, <3>2 DEF CommandFailed, NoDisconnect
      <4> QED BY <3>1, <3>2, <4>1, FailedEntries, UnmarkTable
    <3>3. CASE state # "DISCONNECT_PENDING"
      <4>1. UNCHANGED disc
        BY <1>2, <3>3 DEF CommandFailed, discVars
      <4> QED BY <3>1, <3>3, <4>1, FailedEntries, LinksKept, FlagsTable
    <3> QED BY <3>2, <3>3
  <2> QED BY <1>0, <2>2, <2>3, <2>4, <2>5
<1> QED BY <1>1, <1>2 DEF FailureStep

\* Links that come and go.
LEMMA TableQuiet ==
  ASSUME TableStep, LinkTypeOK
  PROVE  /\ UNCHANGED <<setupVars, radioVars, cancelPending>>
         /\ state' = state \/ state' \in LinkStates
         /\ scanActive' \in {scanActive, "inactive"}
<1>1. UNCHANGED <<setupVars, radioVars, cancelPending>>
  BY DEF TableStep, Disconnect, ConnectionAccepted, DisconnectionFailed,
         DisconnectionComplete
<1>2. \/ /\ state' \in {state, "CONNECT_CANCEL_PENDING", "READY", "FAILED",
                        discPrevious}
         /\ UNCHANGED scanActive
      \/ \E r : Submit(r, "DISCONNECT", "DISCONNECT_PENDING", "READY", "FAILED")
  BY DEF TableStep, Disconnect, ConnectionAccepted, DisconnectionFailed,
         DisconnectionComplete
<1> QED BY <1>1, <1>2 DEF LinkTypeOK, LinkStates, Submit

LEMMA PresentFinite == IsFiniteSet(Present)
<1>1. IsFiniteSet(Slots)
  BY FS_Interval, ConstantsAssumption DEF Slots
<1> QED BY <1>1, FS_Subset DEF Present

LEMMA DisconnectKeeps ==
  ASSUME IInv, state # "UNINITIALIZED", NEW h \in Handles,
         NEW g \in Generations \ {0}, NEW r, Disconnect(h, g, r)
  PROVE  LinkInv' /\ TableInv'
<1> USE DEF IInv
<1>1. PICK t \in Slots :
        /\ Pinned(t, h, g)
        /\ Submit(r, "DISCONNECT", "DISCONNECT_PENDING", "READY", "FAILED")
        /\ disc' = IF r = "ok"
                     THEN [pending |-> TRUE, handle |-> h, generation |-> g]
                     ELSE NoDisconnect
        /\ conns' = [conns EXCEPT ![t] =
                       [@ EXCEPT !.disconnectPending = (r = "ok")]]
  BY DEF Disconnect
<1>2. ~disc.pending /\ state = "READY" /\ UNCHANGED <<cancelPending, connCount, connGen>>
  BY DEF Disconnect, Ready
<1>3. /\ \A s \in Slots : conns[s] \in ConnectionRecord /\ ConnectionValid(conns[s])
      /\ conns \in [Slots -> ConnectionRecord]
  BY DEF TypeOK, TableTypeOK, TableInv, TableValid
<1>4. \A s \in Slots : ~conns[s].disconnectPending
  BY <1>2, <1>3 DEF ConnectionValid
<1>5. CASE r # "ok"
  <2>1. ~disc'.pending
    BY <1>1, <1>5 DEF NoDisconnect
  <2>2. conns'[t] = [conns[t] EXCEPT !.disconnectPending = FALSE]
    BY <1>1, <1>3, <1>5
  <2>3. \A s \in Slots :
          /\ conns'[s] \in {conns[s], [conns[s] EXCEPT !.disconnectPending = FALSE]}
          /\ ~conns'[s].disconnectPending
    BY <1>1, <1>3, <1>4, <2>2 DEF ConnectionRecord
  <2>4. TableInv'
    BY <1>2, <2>1, <2>3, UnmarkTable
  <2>5. LinkInv'
    BY <1>2, <2>1 DEF LinkInv
  <2> QED BY <2>4, <2>5
<1>6. CASE r = "ok"
  <2>1. disc' = [pending |-> TRUE, handle |-> h, generation |-> g]
        /\ state' = "DISCONNECT_PENDING"
    BY <1>1, <1>6 DEF Submit
  <2>2. LinkInv'
    BY <1>2, <2>1 DEF LinkInv
  <2>3. /\ conns'[t] = [conns[t] EXCEPT !.disconnectPending = TRUE]
        /\ \A s \in Slots : s # t => conns'[s] = conns[s]
    BY <1>1, <1>3, <1>6
  <2>4. /\ SameLink(t) /\ conns'[t].disconnectPending
        /\ conns'[t].role = conns[t].role
        /\ conns'[t].encrypted = conns[t].encrypted
        /\ conns'[t].encryptionPending = conns[t].encryptionPending
        /\ conns'[t].encryptionCommand = conns[t].encryptionCommand
        /\ conns'[t].ltkRequest = conns[t].ltkRequest
        /\ conns'[t].ltkReplyCommand = conns[t].ltkReplyCommand
    BY <1>3, <2>3 DEF ConnectionRecord, SameLink, Same
  <2>5. \A s \in Slots : SameLink(s)
    BY <2>3, <2>4 DEF SameLink, Same
  <2>6. \A s \in Slots : ConnectionValid(conns[s])'
    <3> TAKE s \in Slots
    <3>1. CASE s # t
      BY <1>2, <1>3, <1>4, <2>3, <3>1 DEF ConnectionValid
    <3>2. CASE s = t
      <4>1. conns[t].present /\ conns[t].handle = h /\ conns[t].generation = g
        BY <1>1 DEF Pinned
      <4>2. disc'.pending /\ disc'.handle = h /\ disc'.generation = g /\ g # 0
        BY <2>1
      <4> QED BY <1>2, <1>3, <2>4, <3>2, <4>1, <4>2
              DEF ConnectionValid, SameLink, Same
    <3> QED BY <3>1, <3>2
  <2>7. Present' = Present
    BY <2>5 DEF Present, SameLink, Same
  <2>8. EntriesDistinct'
    BY <2>5, <2>7 DEF TableInv, TableValid, EntriesDistinct, SameLink, Same,
                      Present
  <2>9. DisconnectMarked'
    <3>1. disc'.pending /\ disc'.generation # 0
      BY <2>1
    <3>2. t \in Present
      BY <1>1 DEF Present, Pinned
    <3>3. {s \in Present' : conns'[s].disconnectPending} = {t}
      BY <1>4, <2>3, <2>4, <2>7, <3>2 DEF Present
    <3> QED BY <3>1, <3>3 DEF DisconnectMarked
  <2>10. TableInv'
    BY <1>2, <2>6, <2>7, <2>8, <2>9 DEF TableInv, TableValid
  <2> QED BY <2>2, <2>10
<1> QED BY <1>5, <1>6

LEMMA AcceptedKeeps ==
  ASSUME IInv, state # "UNINITIALIZED", NEW h \in Handles,
         NEW role \in {0, 1}, NEW peer \in Peers, NEW rpa,
         ConnectionAccepted(h, role, peer, rpa, TRUE)
  PROVE  LinkInv' /\ TableInv'
<1> USE DEF IInv
<1>1. PICK t \in Slots :
        /\ t \notin Present
        /\ conns' = [conns EXCEPT ![t] = NewConnection(h, connGen, role, peer)]
  BY DEF ConnectionAccepted, FreeSlots
<1>2. /\ ~HandlePresent(h)
      /\ connGen' = connGen + 1 /\ connCount' = connCount + 1
      /\ UNCHANGED <<pendingOpcode, cancelPending, disc>>
      /\ state \in {"CONNECTING", "CONNECT_CANCEL_PENDING"}
      /\ state' = IF cancelPending THEN "CONNECT_CANCEL_PENDING" ELSE "READY"
  BY DEF ConnectionAccepted, Acceptable, discVars
<1>3. LinkInv'
  BY <1>2 DEF LinkInv
<1>4. ~disc.pending
  BY <1>2 DEF LinkInv
<1>5. /\ conns \in [Slots -> ConnectionRecord]
      /\ \A s \in Slots : conns[s] \in ConnectionRecord /\ ConnectionValid(conns[s])
      /\ connGen \in Nat /\ connGen # 0
  BY DEF TypeOK, TableTypeOK, TableInv, TableValid, Generations
<1>6. /\ \A s \in Slots : s # t => conns'[s] = conns[s]
      /\ conns'[t] = NewConnection(h, connGen, role, peer)
  BY <1>1, <1>5
<1>7. /\ conns'[t].present /\ conns'[t].handle = h
      /\ conns'[t].generation = connGen
      /\ ~conns'[t].disconnectPending /\ ~conns'[t].encrypted
      /\ ~conns'[t].encryptionPending /\ ~conns'[t].encryptionCommand
      /\ ~conns'[t].ltkRequest /\ ~conns'[t].ltkReplyCommand
  BY <1>6 DEF NewConnection, NoConnection
<1>8. \A s \in Present : conns[s].generation < connGen /\ conns[s].generation \in Nat
  BY <1>5 DEF Present, ConnectionValid, ConnectionRecord, Generations
<1>9. \A s \in Slots : ConnectionValid(conns[s])'
  <2> TAKE s \in Slots
  <2>1. CASE s = t
    <3>1. connGen < connGen'
      BY <1>2, <1>5
    <3> QED BY <1>5, <1>7, <2>1, <3>1 DEF ConnectionValid
  <2>2. CASE s # t
    <3>1. conns'[s] = conns[s] /\ UNCHANGED disc
      BY <1>2, <1>6, <2>2
    <3>2. conns[s].present => conns[s].generation < connGen'
      BY <1>2, <1>5, <1>8 DEF Present
    <3> QED BY <1>5, <3>1, <3>2 DEF ConnectionValid
  <2> QED BY <2>1, <2>2
<1>10. Present' = Present \cup {t}
  BY <1>6, <1>7 DEF Present
<1>11. EntriesDistinct'
  <2>1. \A s \in Present : conns[s].handle # h /\ conns[s].generation # connGen
    BY <1>2, <1>5, <1>8 DEF HandlePresent
  <2>2. \A s \in Present : s \in Slots /\ s # t
    BY <1>1 DEF Present
  <2> QED BY <1>6, <1>7, <1>10, <2>1, <2>2 DEF TableInv, TableValid, EntriesDistinct
<1>12. (connCount = Cardinality(Present))'
  BY <1>1, <1>2, <1>10, PresentFinite, FS_AddElement DEF TableInv, TableValid
<1>13. DisconnectMarked'
  <2>1. \A s \in Slots : ~conns'[s].disconnectPending
    BY <1>4, <1>5, <1>6, <1>7 DEF ConnectionValid
  <2> QED BY <1>2, <1>4, <2>1 DEF DisconnectMarked, Present
<1>14. connGen' # 0
  BY <1>2, <1>5
<1> QED BY <1>3, <1>9, <1>11, <1>12, <1>13, <1>14 DEF TableInv, TableValid

LEMMA DisconnectionFailedKeeps ==
  ASSUME IInv, state # "UNINITIALIZED", NEW h \in Handles,
         DisconnectionFailed(h)
  PROVE  LinkInv' /\ TableInv'
<1> USE DEF IInv
<1>1. /\ disc.pending /\ disc.handle = h /\ disc' = NoDisconnect
      /\ UNCHANGED <<cancelPending, connCount, connGen>>
      /\ conns' = [s \in Slots |->
                    IF Pinned(s, h, disc.generation)
                      THEN [conns[s] EXCEPT !.disconnectPending = FALSE]
                      ELSE conns[s]]
  BY DEF DisconnectionFailed
<1>2. ~disc'.pending
  BY <1>1 DEF NoDisconnect
<1>3. LinkInv'
  BY <1>1, <1>2 DEF LinkInv
<1>4. ASSUME NEW s \in Slots
      PROVE  /\ conns'[s] \in {conns[s], [conns[s] EXCEPT !.disconnectPending = FALSE]}
             /\ ~conns'[s].disconnectPending
  <2>1. conns[s] \in ConnectionRecord /\ ConnectionValid(conns[s])
    BY DEF TypeOK, TableTypeOK, TableInv, TableValid
  <2>2. conns[s].disconnectPending => Pinned(s, h, disc.generation)
    BY <1>1, <2>1 DEF ConnectionValid, Pinned
  <2> QED BY <1>1, <2>1, <2>2 DEF ConnectionRecord
<1>5. TableInv'
  BY <1>1, <1>2, <1>4, UnmarkTable
<1> QED BY <1>3, <1>5

LEMMA DisconnectionKeeps ==
  ASSUME IInv, state # "UNINITIALIZED", NEW h \in Handles,
         DisconnectionComplete(h)
  PROVE  LinkInv' /\ TableInv'
<1> USE DEF IInv
<1> DEFINE matched == disc.pending /\ disc.handle = h
<1>1. /\ conns' = [s \in Slots |->
                    IF conns[s].present /\ conns[s].handle = h
                      THEN NoConnection ELSE conns[s]]
      /\ connCount' = IF HandlePresent(h) THEN connCount - 1 ELSE connCount
      /\ UNCHANGED <<pendingOpcode, cancelPending, connGen>>
  BY DEF DisconnectionComplete
<1>2. /\ matched => disc' = NoDisconnect
      /\ ~matched => UNCHANGED <<state, disc>>
  BY DEF DisconnectionComplete, discVars
<1>3. ~NoDisconnect.pending /\ ~NoConnection.present
  BY DEF NoDisconnect, NoConnection
<1>4. LinkInv'
  BY <1>1, <1>2, <1>3 DEF LinkInv
<1>5. \A s \in Slots : conns[s] \in ConnectionRecord /\ ConnectionValid(conns[s])
  BY DEF TypeOK, TableTypeOK, TableInv, TableValid
<1>6. \A s \in Slots :
        conns[s].disconnectPending => conns[s].present /\ disc.pending
                                      /\ conns[s].handle = disc.handle
  BY <1>5 DEF ConnectionValid
<1>7. ASSUME NEW s \in Slots PROVE ConnectionValid(conns[s])'
  <2>1. CASE conns[s].present /\ conns[s].handle = h
    <3>1. conns'[s] = NoConnection
      BY <1>1, <2>1
    <3> QED BY <3>1 DEF ConnectionValid, NoConnection
  <2>2. CASE ~(conns[s].present /\ conns[s].handle = h)
    <3>1. conns'[s] = conns[s]
      BY <1>1, <2>2
    <3>2. conns[s].disconnectPending => UNCHANGED disc
      BY <1>2, <1>6, <2>2
    <3> QED BY <1>1, <1>5, <3>1, <3>2 DEF ConnectionValid
  <2> QED BY <2>1, <2>2
<1>8. Present' = {s \in Present : conns[s].handle # h}
  BY <1>1, <1>3 DEF Present
<1>9. \A s \in Present' : s \in Present /\ conns'[s] = conns[s]
  BY <1>1, <1>8 DEF Present
<1>10. EntriesDistinct'
  BY <1>9 DEF TableInv, TableValid, EntriesDistinct
<1>11. (connCount = Cardinality(Present))'
  <2>1. CASE ~HandlePresent(h)
    <3>1. Present' = Present
      BY <1>8, <2>1 DEF HandlePresent
    <3> QED BY <1>1, <2>1, <3>1 DEF TableInv, TableValid
  <2>2. CASE HandlePresent(h)
    <3>1. PICK t \in Present : conns[t].handle = h
      BY <2>2 DEF HandlePresent
    <3>2. \A s \in Present : conns[s].handle = h => s = t
      BY <3>1 DEF TableInv, TableValid, EntriesDistinct
    <3>3. Present' = Present \ {t}
      BY <1>8, <3>1, <3>2
    <3> QED BY <1>1, <2>2, <3>1, <3>3, PresentFinite, FS_RemoveElement
            DEF TableInv, TableValid
  <2> QED BY <2>1, <2>2
<1>12. DisconnectMarked'
  <2>1. CASE matched
    <3>1. \A s \in Present' : ~conns'[s].disconnectPending
      BY <1>6, <1>8, <1>9, <2>1 DEF Present
    <3> QED BY <1>2, <1>3, <2>1, <3>1 DEF DisconnectMarked
  <2>2. CASE ~matched
    <3>1. {s \in Present' : conns'[s].disconnectPending}
            = {s \in Present : conns[s].disconnectPending}
      BY <1>6, <1>8, <1>9, <2>2 DEF Present
    <3> QED BY <1>2, <2>2, <3>1 DEF DisconnectMarked, TableInv, TableValid
  <2> QED BY <2>1, <2>2
<1>13. connGen' # 0
  BY <1>1 DEF TableInv
<1> QED BY <1>4, <1>7, <1>10, <1>11, <1>12, <1>13 DEF TableInv, TableValid

LEMMA TableKeeps ==
  ASSUME IInv, TableStep, state # "UNINITIALIZED"
  PROVE  IInv'
<1>1. TypeOK'
  BY TableType DEF IInv
<1>2. LinkInv' /\ TableInv'
  BY DisconnectKeeps, AcceptedKeeps, DisconnectionFailedKeeps,
     DisconnectionKeeps DEF TableStep
<1>3. SetupInv'
  BY TableQuiet, QuietSetup DEF IInv, TypeOK, SetupStates, LinkStates
<1>4. RadioInv'
  BY TableQuiet, QuietRadio DEF IInv, TypeOK, RadioStates, LinkStates, radioVars
<1> QED BY <1>1, <1>2, <1>3, <1>4 DEF IInv

\* A zeroed record satisfies every part.
LEMMA EmptyTable ==
  ASSUME conns = [s \in Slots |-> NoConnection], connCount = 0,
         disc = NoDisconnect, state # "UNINITIALIZED" => connGen = 1
  PROVE  TableInv
<1>1. \A s \in Slots : ~conns[s].present /\ ConnectionValid(conns[s])
  BY DEF NoConnection, ConnectionValid
<1>2. Present = {}
  BY <1>1 DEF Present
<1>3. DisconnectMarked
  BY <1>2 DEF DisconnectMarked, NoDisconnect
<1> QED BY <1>1, <1>2, <1>3, FS_EmptySet DEF TableInv, TableValid, EntriesDistinct

LEMMA InitInv == Init => IInv
<1> SUFFICES ASSUME Init PROVE IInv
  OBVIOUS
<1>1. TypeOK
  BY InitType
<1>2. SetupInv /\ RadioInv /\ LinkInv
  BY DEF Init, SetupInv, RadioInv, LinkInv, NoDisconnect
<1>3. TableInv
  BY EmptyTable DEF Init
<1> QED BY <1>1, <1>2, <1>3 DEF IInv

LEMMA LifeKeeps ==
  ASSUME IInv, Destroy \/ Reinitialize
  PROVE  IInv'
<1>1. Zeroed /\ state' \in {"UNINITIALIZED", "IDLE"}
      /\ (state' # "UNINITIALIZED" => connGen' = 1)
  BY DEF Destroy, Reinitialize
<1>2. TypeOK'
  BY LifeType DEF IInv
<1>3. SetupInv' /\ RadioInv' /\ LinkInv'
  BY <1>1 DEF Zeroed, SetupInv, RadioInv, LinkInv, NoDisconnect
<1>4. TableInv'
  <2>1. \A s \in Slots : ~conns'[s].present /\ ConnectionValid(conns[s])'
    BY <1>1 DEF Zeroed, NoConnection, ConnectionValid
  <2>2. Present' = {}
    BY <2>1 DEF Present
  <2>3. DisconnectMarked'
    BY <1>1, <2>2 DEF Zeroed, DisconnectMarked, NoDisconnect
  <2> QED BY <1>1, <2>1, <2>2, <2>3, FS_EmptySet
          DEF Zeroed, TableInv, TableValid, EntriesDistinct
<1> QED BY <1>2, <1>3, <1>4 DEF IInv

LEMMA NextInv == IInv /\ [Next]_vars => IInv'
<1> SUFFICES ASSUME IInv, [Next]_vars PROVE IInv'
  OBVIOUS
<1>1. CASE UNCHANGED vars
  <2>1. TypeOK'
    BY <1>1, NextType DEF IInv
  <2>2. SetupInv' /\ RadioInv' /\ LinkInv'
    BY <1>1 DEF IInv, SetupInv, RadioInv, LinkInv, vars, cmdVars, setupVars,
                radioVars, linkVars, discVars
  <2>3. TableInv'
    BY <1>1 DEF IInv, TableInv, TableValid, ConnectionValid, EntriesDistinct,
         DisconnectMarked, Present, vars, cmdVars, linkVars, discVars, connVars
  <2> QED BY <2>1, <2>2, <2>3 DEF IInv
<1>2. CASE Destroy \/ Reinitialize
  BY <1>2, LifeKeeps
<1>3. CASE ControllerValid /\ (\/ SetupStep \/ RadioStep \/ AttemptStep
                              \/ TableStep \/ SecurityStep \/ FailureStep)
  <2>1. state # "UNINITIALIZED"
    BY <1>3 DEF ControllerValid
  <2> QED BY <1>3, <2>1, SetupKeeps, RadioKeeps, AttemptKeeps, TableKeeps,
             SecurityKeeps, FailureKeeps
<1> QED BY <1>1, <1>2, <1>3 DEF Next

\* No sequence of calls and events, those of a misbehaving controller or
\* transport included, leaves a record that fails the checks of
\* controller_valid named in SelfConsistent, whatever the size of the table.
THEOREM RecordStaysValid == Spec => []SelfConsistent
<1>1. IInv => SelfConsistent
  BY DEF IInv, SelfConsistent, SetupInv, RadioInv, LinkInv, TableInv
<1> QED BY InitInv, NextInv, <1>1, PTL DEF Spec

-----------------------------------------------------------------------------
(* Commands and states *)

\* The pairs a pending state may be found in.
Matched(op, st) ==
  st \in PendingStates \ {"DISCONNECT_PENDING"} =>
    <<op, st>> \in Expected \cup
      {<<"LE_CREATE_CONNECTION", "CONNECT_PENDING">>,
       <<"LE_START_ENCRYPTION", "ENCRYPTION_START_PENDING">>}

\* A command whose caller goes back to a state that waits for nothing.
LEMMA SubmitMatched ==
  ASSUME NEW r, NEW op, NEW st, NEW onError, NEW onMutation,
         Submit(r, op, st, onError, onMutation), Matched(op, st),
         onError \notin PendingStates, onMutation \notin PendingStates
  PROVE  Matched(pendingOpcode', state')
  BY DEF Submit, Matched

\* What the matching pairs are.
LEMMA Pairs ==
  /\ Matched("RESET", "RESET_PENDING")
  /\ Matched("READ_BD_ADDR", "ADDRESS_PENDING")
  /\ Matched("LE_RANDOM_ADDR", "RANDOM_ADDRESS_PENDING")
  /\ Matched("LE_CLEAR_RESOLVING", "PRIVACY_CLEAR_PENDING")
  /\ Matched("LE_ADD_RESOLVING", "PRIVACY_ADD_PENDING")
  /\ Matched("LE_PRIVACY_MODE", "PRIVACY_MODE_PENDING")
  /\ Matched("LE_RPA_TIMEOUT", "PRIVACY_TIMEOUT_PENDING")
  /\ Matched("LE_RESOLUTION_ENABLE", "PRIVACY_ENABLE_PENDING")
  /\ Matched("LE_EVENT_MASK", "EVENT_MASK_PENDING")
  /\ Matched("LE_SCAN_PARAMS", "SCAN_PARAMS_PENDING")
  /\ Matched("LE_EXT_SCAN_PARAMS", "SCAN_PARAMS_PENDING")
  /\ Matched("LE_SCAN_ENABLE", "SCAN_ENABLE_PENDING")
  /\ Matched("LE_EXT_SCAN_ENABLE", "SCAN_ENABLE_PENDING")
  /\ Matched("LE_SCAN_ENABLE", "SCAN_DISABLE_PENDING")
  /\ Matched("LE_EXT_SCAN_ENABLE", "SCAN_DISABLE_PENDING")
  /\ Matched("LE_ADV_PARAMS", "ADV_PARAMS_PENDING")
  /\ Matched("LE_ADV_DATA", "ADV_DATA_PENDING")
  /\ Matched("LE_SCAN_RSP_DATA", "SCAN_RSP_DATA_PENDING")
  /\ Matched("LE_ADV_ENABLE", "ADV_ENABLE_PENDING")
  /\ Matched("LE_ADV_ENABLE", "ADV_DISABLE_PENDING")
  /\ Matched("LE_CREATE_CONNECTION", "CONNECT_PENDING")
  /\ Matched("LE_CREATE_CONNECTION_CANCEL", "CONNECT_CANCEL_PENDING")
  /\ Matched("LE_START_ENCRYPTION", "ENCRYPTION_START_PENDING")
  /\ Matched("LE_LTK_REPLY", "LTK_REPLY_PENDING")
  /\ Matched("LE_LTK_NEGATIVE_REPLY", "LTK_REPLY_PENDING")
  /\ \A op : Matched(op, "DISCONNECT_PENDING")
  /\ \A op, st : st \notin PendingStates => Matched(op, st)
  BY DEF Matched, Expected

\* Every step that changes the command leaves a matching pair.
LEMMA NextMatched ==
  ASSUME IInv, PendingMatchesState, Next
  PROVE  PendingMatchesState'
<1> USE DEF IInv
<1>0. Matched(pendingOpcode, state)
  BY DEF PendingMatchesState, Matched
<1> SUFFICES Matched(pendingOpcode', state')
  BY DEF PendingMatchesState, Matched
<1>1. {"UNINITIALIZED", "IDLE", "READY", "SCANNING", "CONNECTING", "FAILED"}
        \cap PendingStates = {}
  BY DEF PendingStates
<1>2. discPrevious \in {"UNINITIALIZED", "READY"}
  BY DEF TypeOK, LinkTypeOK
<1>3. CASE Destroy \/ Reinitialize
  BY <1>1, <1>3, Pairs DEF Destroy, Reinitialize
<1>4. CASE SetupStep
  <2>1. ASSUME NEW r, NEW op, NEW st, SubmitInit(r, op, st), Matched(op, st)
        PROVE  Matched(pendingOpcode', state')
    BY <1>1, <2>1, SubmitMatched DEF SubmitInit
  <2>2. CASE ConfigureStaticRandomAddress
             \/ \E config \in PrivacyConfigs : ConfigurePrivacy(config)
    BY <1>0, <2>2 DEF ConfigureStaticRandomAddress, ConfigurePrivacy, cmdVars
  <2>3. ASSUME NEW r, Start(r)
        PROVE  Matched(pendingOpcode', state')
    BY <1>1, <2>3, SubmitMatched, Pairs DEF Start
  <2>4. ASSUME NEW r, SubmitPrivacyOrEventMask(r)
        PROVE  Matched(pendingOpcode', state')
    BY <2>1, <2>4, Pairs DEF SubmitPrivacyOrEventMask
  <2>5. ASSUME NEW r, NEW public, CompleteReadAddress(public, r)
        PROVE  Matched(pendingOpcode', state')
    BY <1>1, <2>1, <2>4, <2>5, Pairs DEF CompleteReadAddress
  <2>6. ASSUME NEW r, CompleteReset(r) \/ CompleteRandomAddress(r)
             \/ CompleteClearResolving(r) \/ CompleteAddResolving(r)
             \/ CompletePrivacyMode(r) \/ CompleteRpaTimeout(r)
             \/ CompleteResolutionEnable(r)
        PROVE  Matched(pendingOpcode', state')
    BY <2>1, <2>4, <2>6, Pairs
       DEF CompleteReset, CompleteRandomAddress, CompleteClearResolving,
           CompleteAddResolving, CompletePrivacyMode, CompleteRpaTimeout,
           CompleteResolutionEnable
  <2> QED BY <1>4, <2>2, <2>3, <2>5, <2>6 DEF SetupStep
<1>5. CASE RadioStep
  <2>1. CASE CompleteScanEnable \/ CompleteScanDisable
             \/ CompleteAdvertisingSwitch \/ ReportClockMutated
    BY <1>1, <2>1, Pairs DEF CompleteScanEnable, CompleteScanDisable,
       CompleteAdvertisingSwitch, ReportClockMutated
  <2>2. ASSUME NEW r, CompleteScanParams(r)
        PROVE  Matched(pendingOpcode', state')
    BY <1>1, <2>2, Pairs DEF CompleteScanParams
  <2>3. ASSUME NEW r, NEW own, StopAdvertising(r) \/ StartAdvertising(own, r)
        PROVE  Matched(pendingOpcode', state')
    BY <1>1, <2>3, SubmitMatched, Pairs DEF StopAdvertising, StartAdvertising
  <2>4. ASSUME NEW r, CompleteAdvertisingStep(r)
        PROVE  Matched(pendingOpcode', state')
    BY <1>1, <2>4, SubmitMatched, Pairs DEF CompleteAdvertisingStep
  <2>5. ASSUME NEW r, StopScan(r)
        PROVE  Matched(pendingOpcode', state')
    <3>1. PICK op \in {"LE_SCAN_ENABLE", "LE_EXT_SCAN_ENABLE"} :
            Submit(r, op, "SCAN_DISABLE_PENDING", "SCANNING", "FAILED")
      BY <2>5 DEF StopScan
    <3> QED BY <1>1, <3>1, SubmitMatched, Pairs
  <2>6. ASSUME NEW r, NEW family, StartScan(family, r)
        PROVE  Matched(pendingOpcode', state')
    <3>1. PICK op \in {"LE_SCAN_PARAMS", "LE_EXT_SCAN_PARAMS"} :
            Submit(r, op, "SCAN_PARAMS_PENDING", "READY", "FAILED")
      BY <2>6 DEF StartScan
    <3> QED BY <1>1, <3>1, SubmitMatched, Pairs
  <2> QED BY <1>5, <2>1, <2>2, <2>3, <2>4, <2>5, <2>6 DEF RadioStep
<1>6. CASE AttemptStep
  <2>1. CASE CompleteCancel \/ StatusCreateConnection \/ StatusDisconnect
             \/ ConnectionMalformed \/ ConnectionEarly
    BY <1>0, <1>1, <1>2, <2>1, Pairs DEF CompleteCancel, StatusCreateConnection,
       ConnectionMalformed, ConnectionEarly, FailController,
       StatusDisconnect, Matched, Expected
  <2>2. CASE ConnectionFailed
    BY <1>0, <1>1, <2>2, Pairs DEF ConnectionFailed
  <2>3. ASSUME NEW r, NEW peer, NEW own,
               CancelConnection(r) \/ StartConnection(peer, own, r)
        PROVE  Matched(pendingOpcode', state')
    BY <1>1, <2>3, SubmitMatched, Pairs DEF CancelConnection, StartConnection
  <2>4. ASSUME NEW h, NEW r, TearDown(h, r) \/ FailController
        PROVE  Matched(pendingOpcode', state')
    BY <1>1, <2>4, SubmitMatched, Pairs DEF TearDown, FailController
  <2>5. ASSUME NEW h, NEW r, ConnectionUnsolicited(h, r)
        PROVE  Matched(pendingOpcode', state')
    BY <2>4, <2>5 DEF ConnectionUnsolicited
  <2>6. ASSUME NEW r, NEW h, NEW role, NEW peer, NEW rpa, NEW fieldsOk,
               ConnectionRefused(h, role, peer, rpa, fieldsOk, r)
        PROVE  Matched(pendingOpcode', state')
    BY <2>4, <2>6 DEF ConnectionRefused
  <2> QED BY <1>6, <2>1, <2>2, <2>3, <2>5, <2>6 DEF AttemptStep
<1>7. CASE TableStep
  <2>1. ASSUME NEW h, NEW g, NEW r, Disconnect(h, g, r)
        PROVE  Matched(pendingOpcode', state')
    BY <1>1, <2>1, SubmitMatched, Pairs DEF Disconnect
  <2>2. ASSUME NEW h, NEW role, NEW peer, NEW rpa,
               ConnectionAccepted(h, role, peer, rpa, TRUE)
        PROVE  Matched(pendingOpcode', state')
    BY <1>0, <1>1, <2>2, Pairs DEF ConnectionAccepted, LinkInv
  <2>3. ASSUME NEW h, DisconnectionFailed(h) \/ DisconnectionComplete(h)
        PROVE  Matched(pendingOpcode', state')
    BY <1>0, <1>1, <1>2, <2>3, Pairs DEF DisconnectionFailed, DisconnectionComplete
  <2> QED BY <1>7, <2>1, <2>2, <2>3 DEF TableStep
<1>8. CASE SecurityStep
  <2>1. CASE CompleteToReady \/ StatusStartEncryption
    BY <1>1, <2>1, Pairs DEF CompleteToReady, StatusStartEncryption
  <2>2. ASSUME NEW h, NEW ok, NEW enabled,
               LongTermKeyRequest(h) \/ EncryptionChange(h, ok, enabled)
        PROVE  Matched(pendingOpcode', state')
    BY <1>0, <2>2 DEF LongTermKeyRequest, EncryptionChange, cmdVars
  <2>3. ASSUME NEW h, NEW g, NEW r, StartEncryption(h, g, r)
        PROVE  Matched(pendingOpcode', state')
    BY <1>1, <2>3, SubmitMatched, Pairs DEF StartEncryption
  <2>4. ASSUME NEW h, NEW g, NEW r, NEW op \in LtkOpcodes,
               AnswerLtkRequest(h, g, op, r)
        PROVE  Matched(pendingOpcode', state')
    BY <1>0, <1>1, <2>4, SubmitMatched, Pairs
       DEF AnswerLtkRequest, LtkOpcodes, cmdVars
  <2> QED BY <1>8, <2>1, <2>2, <2>3, <2>4 DEF SecurityStep
<1>9. CASE FailureStep
  <2>1. CASE CommandFailed
    <3>1. state' \in {"READY", "FAILED", "SCANNING", "CONNECTING", "UNINITIALIZED"}
      BY <1>2, <2>1 DEF CommandFailed, FailedTo
    <3> QED BY <1>1, <3>1, Pairs
  <2>2. CASE CompleteUnexpected
    <3>1. CASE pendingOpcode \in LtkOpcodes
      <4>1. state \notin PendingStates \ {"DISCONNECT_PENDING"}
        BY <1>0, <2>2, <3>1 DEF Matched, CompleteUnexpected, LtkOpcodes
      <4>2. state' = state
        BY <2>2, <3>1 DEF CompleteUnexpected
      <4> QED BY <4>1, <4>2, Pairs
    <3>2. CASE pendingOpcode \notin LtkOpcodes
      BY <1>1, <2>2, <3>2, Pairs DEF CompleteUnexpected
    <3> QED BY <3>1, <3>2
  <2> QED BY <1>9, <2>1, <2>2 DEF FailureStep
<1> QED BY <1>3, <1>4, <1>5, <1>6, <1>7, <1>8, <1>9 DEF Next

\* Whatever commands fail, are refused by the transport or are answered out of
\* place, a state that waits for an answer has its command outstanding.
THEOREM PendingHasCommand == Spec => []PendingMatchesState
<1>1. Init => PendingMatchesState
  BY DEF Init, PendingMatchesState, PendingStates
<1>2. PendingMatchesState /\ UNCHANGED vars => PendingMatchesState'
  BY DEF PendingMatchesState, vars, cmdVars
<1>3. IInv /\ PendingMatchesState /\ [Next]_vars => PendingMatchesState'
  BY <1>2, NextMatched
<1> QED BY InitInv, NextInv, <1>1, <1>3, PTL DEF Spec

-----------------------------------------------------------------------------
(* The start-up chain *)

AddressSet == localAddress # "none" /\ (staticRandom => localAddress = "random")

SetupDone ==
  AddressSet /\ (privacy # <<>> => resolution /\ privacyIndex = Len(privacy))

PrivacyStates ==
  {"PRIVACY_CLEAR_PENDING", "PRIVACY_ADD_PENDING", "PRIVACY_MODE_PENDING",
   "PRIVACY_TIMEOUT_PENDING", "PRIVACY_ENABLE_PENDING"}

(* How far each state of the chain is.  A disconnect is sent only after    *)
(* the chain, and remembers so in discPrevious, which is where its events  *)
(* take even a failed controller.  An address read late would undo the     *)
(* chain; no such command is outstanding then.                             *)
Prepared ==
  /\ state \notin SetupStates \/ state = "EVENT_MASK_PENDING" => SetupDone
  /\ state \in PrivacyStates => AddressSet /\ privacy # <<>>
  /\ state \in {"PRIVACY_ADD_PENDING", "PRIVACY_MODE_PENDING"} =>
       privacyIndex < Len(privacy)
  /\ state \in {"PRIVACY_TIMEOUT_PENDING", "PRIVACY_ENABLE_PENDING"} =>
       privacyIndex = Len(privacy)
  /\ discPrevious = "READY" =>
       /\ SetupDone
       /\ state \notin SetupStates \ {"UNINITIALIZED", "FAILED"}
       /\ pendingOpcode # "READ_BD_ADDR"
  /\ disc.pending \/ pendingOpcode = "DISCONNECT" \/ state = "DISCONNECT_PENDING" =>
       discPrevious = "READY"

\* A step of a controller that is past the chain, or leaves it where it is.
LEMMA OperationalStep ==
  ASSUME Prepared, SetupDone, UNCHANGED setupVars,
         state' \notin SetupStates \ {"UNINITIALIZED", "FAILED"},
         pendingOpcode' # "READ_BD_ADDR",
         disc'.pending \/ pendingOpcode' = "DISCONNECT" \/ state' = "DISCONNECT_PENDING" =>
           discPrevious' = "READY"
  PROVE  Prepared'
BY DEF Prepared, SetupDone, AddressSet, setupVars, SetupStates, PrivacyStates

\* The commands of a controller that is past the chain.
LEMMA OperationalSubmit ==
  ASSUME Prepared, SetupDone, UNCHANGED setupVars,
         disc'.pending => disc.pending,
         discPrevious' = discPrevious,
         NEW r, NEW op \in Opcodes \ {"READ_BD_ADDR", "DISCONNECT"},
         NEW st, NEW onError \in {"READY", "SCANNING", "CONNECTING"},
         Submit(r, op, st, onError, "FAILED"),
         st \notin SetupStates \cup {"DISCONNECT_PENDING"}
  PROVE  Prepared'
<1>1. disc'.pending => discPrevious' = "READY"
  BY DEF Prepared
<1>2. /\ state' \notin SetupStates \ {"UNINITIALIZED", "FAILED"}
      /\ pendingOpcode' \notin {"READ_BD_ADDR", "DISCONNECT"}
      /\ state' # "DISCONNECT_PENDING"
  BY DEF Submit, SetupStates, NoOpcode
<1> QED BY <1>1, <1>2, OperationalStep

\* A step that leaves the command and the state, or fails.
LEMMA QuietStep ==
  ASSUME Prepared, UNCHANGED setupVars, discPrevious' = discPrevious,
         disc'.pending => disc.pending,
         state' \in {state, "FAILED"}, pendingOpcode' \in {pendingOpcode, NoOpcode}
  PROVE  Prepared'
BY DEF Prepared, SetupDone, AddressSet, setupVars, SetupStates, PrivacyStates, NoOpcode

\* The chain: what each command of it is sent for has been done.
LEMMA SetupPrepares ==
  ASSUME IInv, Prepared, SetupStep
  PROVE  Prepared'
<1> USE DEF IInv
<1>0. UNCHANGED <<disc, discPrevious>>
  BY DEF SetupStep, ConfigureStaticRandomAddress, ConfigurePrivacy, Start, CompleteReset,
     CompleteReadAddress, CompleteRandomAddress, CompleteClearResolving,
     CompleteAddResolving, CompletePrivacyMode, CompleteRpaTimeout,
     CompleteResolutionEnable, linkVars, discVars
<1>1. /\ privacyIndex \in Nat /\ Len(privacy) \in Nat
      /\ privacy # <<>> => Len(privacy) > 0
  <2>1. privacy \in Seq([type : 0..1, addr : Addresses])
    <3>1. privacy = <<>> \/ privacy \in PrivacyConfigs
      BY DEF TypeOK, SetupTypeOK
    <3>2. <<>> \in Seq([type : 0..1, addr : Addresses])
      OBVIOUS
    <3>3. PrivacyConfigs \subseteq Seq([type : 0..1, addr : Addresses])
      BY ConstantsAssumption
    <3> QED BY <3>1, <3>2, <3>3
  <2> QED BY <2>1, EmptySeq, LenProperties DEF TypeOK, SetupTypeOK
<1>2. state \in SetupStates \ {"UNINITIALIZED", "FAILED"} =>
        discPrevious # "READY" /\ ~disc.pending /\ pendingOpcode # "DISCONNECT"
  BY DEF Prepared
<1> DEFINE Next1(st) ==
      /\ state' \in {st, "FAILED"}
      /\ pendingOpcode' # "DISCONNECT"
<1>3. ASSUME NEW r, NEW op, NEW st, SubmitInit(r, op, st), op # "DISCONNECT"
      PROVE  Next1(st)
  BY <1>3 DEF SubmitInit, Submit, NoOpcode
<1>4. CASE ConfigureStaticRandomAddress
           \/ \E config \in PrivacyConfigs : ConfigurePrivacy(config)
  BY <1>0, <1>2, <1>4 DEF ConfigureStaticRandomAddress, ConfigurePrivacy, Idle, Prepared,
     SetupStates, PrivacyStates, cmdVars
<1>5. ASSUME NEW r, Start(r)
      PROVE  Prepared'
  BY <1>0, <1>2, <1>5 DEF Start, Submit, Idle, Prepared, SetupStates, PrivacyStates, NoOpcode
<1>6. ASSUME NEW r, CompleteReset(r)
      PROVE  Prepared'
  BY <1>0, <1>2, <1>3, <1>6 DEF CompleteReset, Answers, Prepared, SetupStates, PrivacyStates
<1>7. ASSUME NEW r, SubmitPrivacyOrEventMask(r), AddressSet',
             privacy' = privacy,
             state \in SetupStates \ {"UNINITIALIZED", "FAILED"}
      PROVE  Prepared'
  <2>1. Next1("EVENT_MASK_PENDING") \/ Next1("PRIVACY_CLEAR_PENDING")
    BY <1>3, <1>7 DEF SubmitPrivacyOrEventMask
  <2>2. \/ Next1("EVENT_MASK_PENDING") /\ privacy = <<>>
        \/ Next1("PRIVACY_CLEAR_PENDING") /\ privacy # <<>>
    BY <1>3, <1>7 DEF SubmitPrivacyOrEventMask
  <2>3. state' = "EVENT_MASK_PENDING" => SetupDone'
    BY <1>7, <2>2 DEF SetupDone
  <2> QED BY <1>0, <1>2, <1>7, <2>2, <2>3 DEF Prepared, SetupStates, PrivacyStates
<1>8. ASSUME NEW r, NEW public, CompleteReadAddress(public, r)
      PROVE  Prepared'
  <2>1. state = "ADDRESS_PENDING" /\ UNCHANGED <<staticRandom, privacy>>
    BY <1>8 DEF CompleteReadAddress, Answers
  <2>2. CASE staticRandom
    <3>1. Next1("RANDOM_ADDRESS_PENDING")
      BY <1>3, <1>8, <2>2 DEF CompleteReadAddress
    <3> QED BY <1>0, <1>2, <2>1, <3>1 DEF Prepared, SetupStates, PrivacyStates
  <2>3. CASE ~staticRandom /\ localAddress' = "none"
    <3>1. Next1("FAILED")
      BY <1>8, <2>3 DEF CompleteReadAddress, NoOpcode
    <3> QED BY <1>0, <1>2, <2>1, <3>1 DEF Prepared, SetupStates, PrivacyStates
  <2>4. CASE ~staticRandom /\ localAddress' # "none"
    <3>1. SubmitPrivacyOrEventMask(r)
      BY <1>8, <2>4 DEF CompleteReadAddress
    <3>2. AddressSet'
      BY <2>1, <2>4 DEF AddressSet
    <3> QED BY <1>7, <2>1, <3>1, <3>2 DEF SetupStates
  <2> QED BY <2>2, <2>3, <2>4
<1>9. ASSUME NEW r, CompleteRandomAddress(r)
      PROVE  Prepared'
  <2>1. AddressSet' /\ privacy' = privacy /\ SubmitPrivacyOrEventMask(r)
        /\ state = "RANDOM_ADDRESS_PENDING"
    BY <1>9 DEF CompleteRandomAddress, AddressSet, Answers
  <2> QED BY <1>7, <2>1 DEF SetupStates
<1>10. ASSUME NEW r, CompleteClearResolving(r) \/ CompleteAddResolving(r)
             \/ CompletePrivacyMode(r)
       PROVE  Prepared'
  <2>1. /\ state \in PrivacyStates
        /\ UNCHANGED <<localAddress, staticRandom, privacy, resolution>>
    BY <1>10 DEF CompleteClearResolving, CompleteAddResolving, CompletePrivacyMode,
       Answers, PrivacyStates
  <2>2. AddressSet /\ privacy # <<>> /\ AddressSet' /\ privacy' # <<>>
    BY <2>1 DEF Prepared, AddressSet
  <2>3. \/ Next1("PRIVACY_ADD_PENDING") /\ privacyIndex' < Len(privacy')
        \/ Next1("PRIVACY_MODE_PENDING") /\ privacyIndex' < Len(privacy')
        \/ Next1("PRIVACY_TIMEOUT_PENDING") /\ privacyIndex' = Len(privacy')
    <3>1. CASE CompleteClearResolving(r)
      BY <1>1, <1>3, <2>1, <2>2, <3>1 DEF CompleteClearResolving
    <3>2. CASE CompleteAddResolving(r)
      BY <1>1, <1>3, <2>1, <2>2, <3>2 DEF CompleteAddResolving
    <3>3. CASE CompletePrivacyMode(r)
      <4>1. privacyIndex < Len(privacy) /\ privacyIndex' = privacyIndex + 1
        BY <3>3 DEF CompletePrivacyMode, Answers, Prepared
      <4> QED BY <1>1, <1>3, <2>1, <3>3, <4>1 DEF CompletePrivacyMode
    <3> QED BY <1>10, <3>1, <3>2, <3>3
  <2> QED BY <1>0, <1>2, <2>1, <2>2, <2>3 DEF Prepared, SetupStates, PrivacyStates
<1>11. ASSUME NEW r, CompleteRpaTimeout(r)
       PROVE  Prepared'
  <2>1. /\ Next1("PRIVACY_ENABLE_PENDING") /\ state = "PRIVACY_TIMEOUT_PENDING"
        /\ UNCHANGED setupVars
    BY <1>3, <1>11 DEF CompleteRpaTimeout, Answers
  <2> QED BY <1>0, <1>2, <2>1 DEF Prepared, SetupStates, PrivacyStates, AddressSet, setupVars
<1>12. ASSUME NEW r, CompleteResolutionEnable(r)
       PROVE  Prepared'
  <2>1. /\ Next1("EVENT_MASK_PENDING") /\ state = "PRIVACY_ENABLE_PENDING"
        /\ resolution' = TRUE
        /\ UNCHANGED <<localAddress, staticRandom, privacy, privacyIndex>>
    BY <1>3, <1>12 DEF CompleteResolutionEnable, Answers
  <2>2. SetupDone'
    BY <2>1 DEF Prepared, PrivacyStates, SetupDone, AddressSet
  <2> QED BY <1>0, <1>2, <2>1, <2>2 DEF Prepared, SetupStates, PrivacyStates
<1> QED BY <1>4, <1>5, <1>6, <1>8, <1>9, <1>10, <1>11, <1>12 DEF SetupStep

\* The states past the chain.
LEMMA PastChain ==
  ASSUME Prepared, state \notin SetupStates
  PROVE  SetupDone
BY DEF Prepared

\* Scanning and advertising come after the chain.
LEMMA RadioPrepares ==
  ASSUME IInv, Prepared, RadioStep
  PROVE  Prepared'
<1>1. /\ UNCHANGED setupVars /\ UNCHANGED <<disc, discPrevious>>
      /\ state \notin SetupStates
  BY DEF RadioStep, CompleteScanEnable, CompleteScanDisable, CompleteAdvertisingSwitch,
     ReportClockMutated, StopScan, StopAdvertising, CompleteScanParams,
     CompleteAdvertisingStep, StartScan, StartAdvertising, Ready, Answers, SetupStates,
     linkVars, discVars
<1>2. /\ state' \notin SetupStates \ {"UNINITIALIZED", "FAILED"}
      /\ pendingOpcode' \notin {"READ_BD_ADDR", "DISCONNECT"}
      /\ state' # "DISCONNECT_PENDING"
  BY DEF RadioStep, CompleteScanEnable, CompleteScanDisable, CompleteAdvertisingSwitch,
     ReportClockMutated, StopScan, StopAdvertising, CompleteScanParams,
     CompleteAdvertisingStep, StartScan, StartAdvertising, Ready, Answers, SetupStates,
     Submit, NoOpcode
<1>3. disc'.pending => discPrevious' = "READY"
  BY <1>1 DEF Prepared
<1> QED BY <1>1, <1>2, <1>3, PastChain, OperationalStep

\* Connection attempts come after the chain; a link nobody asked for may come at
\* any time, and is only disconnected after it.
LEMMA AttemptPrepares ==
  ASSUME IInv, Prepared, AttemptStep
  PROVE  Prepared'
<1>0. UNCHANGED setupVars
  BY DEF AttemptStep, CompleteCancel, StatusCreateConnection, StatusDisconnect,
     ConnectionFailed, ConnectionMalformed, ConnectionEarly, CancelConnection,
     StartConnection, ConnectionUnsolicited, ConnectionRefused
<1>1. CASE CompleteCancel \/ StatusCreateConnection
  <2>1. /\ state \notin SetupStates
        /\ state' \in {"READY", "CONNECTING"} /\ pendingOpcode' = NoOpcode
        /\ UNCHANGED <<disc, discPrevious>>
    BY <1>1 DEF CompleteCancel, StatusCreateConnection, Answers, SetupStates, linkVars,
       discVars
  <2>2. disc'.pending => discPrevious' = "READY"
    BY <2>1 DEF Prepared
  <2> QED BY <1>0, <2>1, <2>2, PastChain, OperationalStep DEF SetupStates, NoOpcode
<1>2. CASE StatusDisconnect
  <2>1. /\ discPrevious = "READY" /\ pendingOpcode' = NoOpcode
        /\ disc' = disc /\ discPrevious' = "READY"
        /\ state' \in {state, "READY"}
    BY <1>2 DEF StatusDisconnect, Prepared
  <2>2. /\ SetupDone
        /\ state' \notin SetupStates \ {"UNINITIALIZED", "FAILED"}
    BY <2>1 DEF Prepared, SetupStates
  <2> QED BY <1>0, <2>1, <2>2, OperationalStep DEF NoOpcode
<1>3. CASE ConnectionFailed \/ ConnectionMalformed \/ ConnectionEarly
  <2>1. UNCHANGED <<disc, discPrevious, pendingOpcode>>
    BY <1>3 DEF ConnectionFailed, ConnectionMalformed, ConnectionEarly, FailController,
       linkVars, discVars
  <2>2. \/ state' \in {state, "FAILED"}
        \/ state = "CONNECTING" /\ state' = "READY"
    BY <1>3 DEF ConnectionFailed, ConnectionMalformed, ConnectionEarly, FailController
  <2>3. CASE state' \in {state, "FAILED"}
    BY <1>0, <2>1, <2>3, QuietStep
  <2>4. CASE state = "CONNECTING" /\ state' = "READY"
    BY <1>0, <2>1, <2>4 DEF Prepared, SetupDone, AddressSet, setupVars, SetupStates,
       PrivacyStates
  <2> QED BY <2>2, <2>3, <2>4
<1>4. ASSUME NEW r, CancelConnection(r)
      PROVE  Prepared'
  <2>1. state \notin SetupStates /\ UNCHANGED <<disc, discPrevious>>
    BY <1>4 DEF CancelConnection, SetupStates, discVars
  <2> QED BY <1>0, <1>4, <2>1, PastChain, OperationalSubmit
          DEF CancelConnection, Opcodes, SetupStates
<1>5. ASSUME NEW r, NEW peer, NEW own, StartConnection(peer, own, r)
      PROVE  Prepared'
  <2>1. state \notin SetupStates /\ UNCHANGED <<disc, discPrevious>>
    BY <1>5 DEF StartConnection, Ready, SetupStates, discVars
  <2> QED BY <1>0, <1>5, <2>1, PastChain, OperationalSubmit
          DEF StartConnection, Opcodes, SetupStates
<1>6. ASSUME NEW h, NEW r, TearDown(h, r), state \notin SetupStates
      PROVE  Prepared'
  <2>1. /\ state' \in {"DISCONNECT_PENDING", "FAILED"}
        /\ pendingOpcode' \in {"DISCONNECT", NoOpcode}
        /\ discPrevious' = "READY"
    BY <1>6 DEF TearDown, Submit
  <2> QED BY <1>0, <1>6, <2>1, PastChain, OperationalStep DEF SetupStates, NoOpcode
<1>7. CASE FailController /\ UNCHANGED discVars
  BY <1>0, <1>7, QuietStep DEF FailController, discVars
<1>8. ASSUME NEW h, NEW r, ConnectionUnsolicited(h, r)
      PROVE  Prepared'
  BY <1>6, <1>7, <1>8 DEF ConnectionUnsolicited, SetupStates
<1>9. ASSUME NEW r, NEW h, NEW role, NEW peer, NEW rpa, NEW fieldsOk,
             ConnectionRefused(h, role, peer, rpa, fieldsOk, r)
      PROVE  Prepared'
  BY <1>6, <1>7, <1>9 DEF ConnectionRefused, SetupStates
<1> QED BY <1>1, <1>2, <1>3, <1>4, <1>5, <1>8, <1>9 DEF AttemptStep

\* Links enter the table after the chain; the end of a disconnect is past it too.
LEMMA TablePrepares ==
  ASSUME IInv, Prepared, TableStep
  PROVE  Prepared'
<1>0. UNCHANGED setupVars
  BY DEF TableStep, Disconnect, ConnectionAccepted, DisconnectionFailed,
     DisconnectionComplete
<1>1. ASSUME NEW h, NEW g, NEW r, Disconnect(h, g, r)
      PROVE  Prepared'
  <2>1. /\ state \notin SetupStates /\ discPrevious' = "READY"
        /\ state' \in {"DISCONNECT_PENDING", "READY", "FAILED"}
        /\ pendingOpcode' \in {"DISCONNECT", NoOpcode}
    BY <1>1 DEF Disconnect, Ready, Submit, SetupStates
  <2> QED BY <1>0, <2>1, PastChain, OperationalStep DEF SetupStates, NoOpcode
<1>2. ASSUME NEW h, NEW role, NEW peer, NEW rpa,
             ConnectionAccepted(h, role, peer, rpa, TRUE)
      PROVE  Prepared'
  <2>1. /\ state \in {"CONNECTING", "CONNECT_CANCEL_PENDING"}
        /\ state' \in {"READY", "CONNECT_CANCEL_PENDING"}
        /\ UNCHANGED <<pendingOpcode, disc, discPrevious>>
    BY <1>2 DEF ConnectionAccepted, discVars
  <2> QED BY <1>0, <2>1 DEF Prepared, SetupDone, AddressSet, setupVars, SetupStates,
                            PrivacyStates
<1>3. ASSUME NEW h, DisconnectionFailed(h)
      PROVE  Prepared'
  <2>1. /\ discPrevious = "READY" /\ discPrevious' = "READY"
        /\ state' \in {"READY", "FAILED"} /\ pendingOpcode' = pendingOpcode
    BY <1>3 DEF DisconnectionFailed, Prepared
  <2>2. SetupDone /\ pendingOpcode # "READ_BD_ADDR"
    BY <2>1 DEF Prepared
  <2> QED BY <1>0, <2>1, <2>2, OperationalStep DEF SetupStates
<1>4. ASSUME NEW h, DisconnectionComplete(h)
      PROVE  Prepared'
  <2>1. CASE disc.pending /\ disc.handle = h
    <3>1. /\ discPrevious = "READY" /\ discPrevious' = "READY"
          /\ state' = "READY" /\ pendingOpcode' = pendingOpcode
      BY <1>4, <2>1 DEF DisconnectionComplete, Prepared
    <3>2. SetupDone /\ pendingOpcode # "READ_BD_ADDR"
      BY <3>1 DEF Prepared
    <3> QED BY <1>0, <3>1, <3>2, OperationalStep DEF SetupStates
  <2>2. CASE ~(disc.pending /\ disc.handle = h)
    BY <1>0, <1>4, <2>2, QuietStep DEF DisconnectionComplete, discVars
  <2> QED BY <2>1, <2>2
<1> QED BY <1>1, <1>2, <1>3, <1>4 DEF TableStep

\* The last command of the chain ends it; encryption comes after it.
LEMMA SecurityPrepares ==
  ASSUME IInv, Prepared, SecurityStep
  PROVE  Prepared'
<1>0. /\ UNCHANGED setupVars /\ UNCHANGED <<disc, discPrevious>>
  BY DEF SecurityStep, CompleteToReady, StatusStartEncryption, LongTermKeyRequest,
     EncryptionChange, StartEncryption, AnswerLtkRequest, discVars
<1>1. CASE CompleteToReady \/ StatusStartEncryption
  <2>1. /\ state' = "READY" /\ pendingOpcode' = NoOpcode
        /\ state \in {"EVENT_MASK_PENDING", "LTK_REPLY_PENDING", "ENCRYPTION_START_PENDING"}
    BY <1>1 DEF CompleteToReady, StatusStartEncryption, Answers
  <2>2. SetupDone /\ (disc'.pending => discPrevious' = "READY")
    BY <1>0, <2>1 DEF Prepared, SetupStates
  <2> QED BY <1>0, <2>1, <2>2, OperationalStep DEF SetupStates, NoOpcode
<1>2. ASSUME NEW h, NEW ok, NEW enabled,
             LongTermKeyRequest(h) \/ EncryptionChange(h, ok, enabled)
      PROVE  Prepared'
  BY <1>0, <1>2, QuietStep DEF LongTermKeyRequest, EncryptionChange, cmdVars
<1>3. ASSUME NEW h, NEW g, NEW r, StartEncryption(h, g, r)
      PROVE  Prepared'
  <2>1. state \notin SetupStates
    BY <1>3 DEF StartEncryption, Ready, SetupStates
  <2> QED BY <1>0, <1>3, <2>1, PastChain, OperationalSubmit
          DEF StartEncryption, Opcodes, SetupStates
<1>4. ASSUME NEW h, NEW g, NEW r, NEW op \in LtkOpcodes, AnswerLtkRequest(h, g, op, r)
      PROVE  Prepared'
  <2>1. state \notin SetupStates /\ op \in Opcodes \ {"READ_BD_ADDR", "DISCONNECT"}
    BY <1>4 DEF AnswerLtkRequest, Ready, SetupStates, LtkOpcodes, Opcodes
  <2>2. CASE Submit(r, op, "LTK_REPLY_PENDING", "READY", "FAILED")
    BY <1>0, <2>1, <2>2, PastChain, OperationalSubmit DEF SetupStates
  <2>3. CASE UNCHANGED cmdVars
    BY <1>0, <2>3, QuietStep DEF cmdVars
  <2> QED BY <1>4, <2>2, <2>3 DEF AnswerLtkRequest
<1> QED BY <1>1, <1>2, <1>3, <1>4 DEF SecurityStep

\* A command that fails in the chain fails the controller.
LEMMA FailurePrepares ==
  ASSUME IInv, Prepared, FailureStep
  PROVE  Prepared'
<1>1. CASE CommandFailed
  <2>1. /\ UNCHANGED setupVars /\ pendingOpcode' = NoOpcode /\ state' = FailedTo
    BY <1>1 DEF CommandFailed
  <2>2. CASE state = "DISCONNECT_PENDING"
    <3>1. discPrevious = "READY" /\ discPrevious' = "READY"
      BY <1>1, <2>2 DEF CommandFailed, Prepared
    <3>2. state' \in {"READY", "FAILED"}
      BY <2>1, <2>2, <3>1 DEF FailedTo
    <3>3. SetupDone
      BY <3>1 DEF Prepared
    <3> QED BY <2>1, <3>1, <3>2, <3>3, OperationalStep DEF SetupStates, NoOpcode
  <2>3. CASE state # "DISCONNECT_PENDING"
    <3>1. UNCHANGED <<disc, discPrevious>>
      BY <1>1, <2>3 DEF CommandFailed, discVars
    <3>2. CASE state' = "FAILED"
      BY <2>1, <3>1, <3>2, QuietStep
    <3>3. CASE state' # "FAILED"
      <4>1. /\ state \notin SetupStates
            /\ state' \in {"READY", "SCANNING", "CONNECTING"}
        BY <2>1, <2>3, <3>3 DEF FailedTo, SetupStates
      <4>2. disc'.pending => discPrevious' = "READY"
        BY <3>1 DEF Prepared
      <4> QED BY <2>1, <4>1, <4>2, PastChain, OperationalStep DEF SetupStates, NoOpcode
    <3> QED BY <3>2, <3>3
  <2> QED BY <2>2, <2>3
<1>2. CASE CompleteUnexpected
  <2>1. /\ UNCHANGED <<staticRandom, privacy, privacyIndex, resolution, disc, discPrevious>>
        /\ pendingOpcode' = NoOpcode
        /\ state' \in {state, "FAILED"}
    BY <1>2 DEF CompleteUnexpected, linkVars, discVars
  <2>2. CASE pendingOpcode = "READ_BD_ADDR"
    <3>1. discPrevious # "READY" /\ state' = "FAILED"
      BY <1>2, <2>2 DEF CompleteUnexpected, LtkOpcodes, Prepared
    <3> QED BY <2>1, <3>1 DEF Prepared, SetupStates, PrivacyStates, NoOpcode
  <2>3. CASE pendingOpcode # "READ_BD_ADDR"
    <3>1. UNCHANGED setupVars
      BY <1>2, <2>1, <2>3 DEF CompleteUnexpected, setupVars
    <3> QED BY <2>1, <3>1, QuietStep
  <2> QED BY <2>2, <2>3
<1> QED BY <1>1, <1>2 DEF FailureStep

\* The radio is used only by a controller that went through the whole chain,
\* whatever answers, failures and disconnects came in between (hci_runtime_v1.c).
THEOREM ReadyIsPrepared == Spec => []OperationalAfterSetup
<1>1. Init => Prepared
  BY DEF Init, NoDisconnect, NoOpcode, Prepared, SetupStates, PrivacyStates
<1>2. ASSUME IInv, Prepared, [Next]_vars PROVE Prepared'
  <2>1. CASE UNCHANGED vars
    BY <1>2, <2>1, QuietStep DEF vars, cmdVars, linkVars, discVars
  <2>2. CASE Destroy \/ Reinitialize
    BY <2>2 DEF Destroy, Reinitialize, Zeroed, NoDisconnect, NoOpcode, Prepared,
       SetupStates, PrivacyStates
  <2> QED BY <1>2, <2>1, <2>2, SetupPrepares, RadioPrepares, AttemptPrepares,
             TablePrepares, SecurityPrepares, FailurePrepares DEF Next
<1>3. Prepared => OperationalAfterSetup
  BY DEF Prepared, OperationalAfterSetup, SetupDone, AddressSet
<1> QED BY InitInv, NextInv, <1>1, <1>2, <1>3, PTL DEF Spec

-----------------------------------------------------------------------------
(* The runtime with a controller that keeps to the protocol (HciLink) *)

LinkRecord ==
  [up : BOOLEAN, role : {0, 1}, closing : BOOLEAN,
   enc : {"off", "starting", "on", "waiting for key"}]

LinkCommands == {"DISCONNECT", "LE_START_ENCRYPTION"}

CommandRecord ==
  [op : LinkCommands, arg : Handles]
  \cup [op : {"LE_CREATE_CONNECTION"}, arg : Peers]
  \cup [op : Opcodes \ (LinkCommands \cup {"LE_CREATE_CONNECTION"}), arg : States]

AnswerRecord == [kind : {"complete", "status"}, op : Opcodes, ok : BOOLEAN]

EventRecord ==
  AnswerRecord \cup {NotConnected}
  \cup [kind : {"connected"}, handle : Handles, role : {0, 1}, peer : Peers]
  \cup [kind : {"disconnected", "ltk"}, handle : Handles]
  \cup [kind : {"encrypted"}, handle : Handles, ok : BOOLEAN]

LinkTypes ==
  /\ chipCmd \in {NoCommand} \cup CommandRecord
  /\ events \in Seq(EventRecord)
  /\ links \in [Handles -> LinkRecord]
  /\ initiating \in Peers \cup {NoPeer}
  /\ chipAdv \in BOOLEAN

LEMMA DeliverCases ==
  Deliver =>
    /\ events # <<>> /\ events' = Tail(events)
    /\ \E r \in {"ok", "error"} : Handle(Head(events), r) \/ UNCHANGED vars
    /\ chipCmd' = IF pendingOpcode' \in {NoOpcode, pendingOpcode}
                  THEN chipCmd ELSE SentCommand'
    /\ UNCHANGED <<links, initiating, chipAdv>>
  BY DEF Deliver

LEMMA CommandTypes ==
  ASSUME NEW c \in CommandRecord
  PROVE  /\ c.op \in Opcodes
         /\ c # NoCommand
         /\ c.op \in LinkCommands => c.arg \in Handles
         /\ c.op = "LE_CREATE_CONNECTION" => c.arg \in Peers
  BY DEF CommandRecord, LinkCommands, Opcodes, NoCommand, NoOpcode

LEMMA EventTypes ==
  ASSUME NEW e \in EventRecord
  PROVE  /\ e.kind \in {"complete", "status"} => e.op \in Opcodes /\ e.ok \in BOOLEAN
         /\ e.kind \in {"connected", "disconnected", "ltk", "encrypted"} =>
              e.handle \in Handles
         /\ e.kind = "connected" => e.role \in {0, 1} /\ e.peer \in Peers
         /\ e.kind = "encrypted" => e.ok \in BOOLEAN
         /\ e \in AnswerRecord <=> e.kind \in {"complete", "status"}
<1>1. CASE e \in AnswerRecord
  BY <1>1 DEF AnswerRecord
<1>2. CASE e = NotConnected
  BY <1>2 DEF AnswerRecord, NotConnected
<1>3. CASE e \in [kind : {"connected"}, handle : Handles, role : {0, 1}, peer : Peers]
  BY <1>3 DEF AnswerRecord
<1>4. CASE e \in [kind : {"disconnected", "ltk"}, handle : Handles]
  BY <1>4 DEF AnswerRecord
<1>5. CASE e \in [kind : {"encrypted"}, handle : Handles, ok : BOOLEAN]
  BY <1>5 DEF AnswerRecord
<1> QED BY <1>1, <1>2, <1>3, <1>4, <1>5 DEF EventRecord

LEMMA HandleStep ==
  ASSUME NEW e \in EventRecord, NEW r \in {"ok", "error"}, Handle(e, r)
  PROVE  Next
<1>1. ControllerValid /\ r \in Transport
  BY DEF Handle, Transport
<1>2. CASE e.kind \in {"complete", "status"} /\ HandleCommandEvent(e, r)
  BY <1>1, <1>2 DEF HandleCommandEvent, Next, RadioStep, AttemptStep, SecurityStep,
     FailureStep
<1>3. CASE e.kind = "not connected" /\ ConnectionFailed
  BY <1>1, <1>3 DEF Next, AttemptStep
<1>4. CASE e.kind = "connected" /\ ConnectionUnsolicited(e.handle, r)
  BY <1>1, <1>4, EventTypes DEF Next, AttemptStep
<1>5. CASE e.kind = "connected" /\ ConnectionEarly
  BY <1>1, <1>5 DEF Next, AttemptStep
<1>6. CASE e.kind = "connected" /\ ConnectionRefused(e.handle, e.role, e.peer, NoPeer, TRUE, r)
  BY <1>1, <1>6, EventTypes DEF Next, AttemptStep
<1>7. CASE e.kind = "connected" /\ ConnectionAccepted(e.handle, e.role, e.peer, NoPeer, TRUE)
  BY <1>1, <1>7, EventTypes DEF Next, TableStep
<1>8. CASE e.kind = "disconnected" /\ DisconnectionComplete(e.handle)
  BY <1>1, <1>8, EventTypes DEF Next, TableStep
<1>9. CASE e.kind = "encrypted" /\ EncryptionChange(e.handle, e.ok, TRUE)
  BY <1>1, <1>9, EventTypes DEF Next, SecurityStep
<1>10. CASE e.kind = "ltk" /\ LongTermKeyRequest(e.handle)
  BY <1>1, <1>10, EventTypes DEF Next, SecurityStep
<1> QED BY <1>2, <1>3, <1>4, <1>5, <1>6, <1>7, <1>8, <1>9, <1>10 DEF Handle

\* Whatever the two do together is a step of the runtime or none of it.
LEMMA LinkNextIsNext ==
  ASSUME LinkTypes, [LinkNext]_allVars
  PROVE  [Next]_vars
<1>1. CASE HostCall
  <2>1. PICK r \in {"ok", "error"} :
          \/ StartAdvertising("public", r) \/ StopAdvertising(r)
          \/ \E peer \in Peers : StartConnection(peer, "public", r)
          \/ CancelConnection(r)
          \/ \E h \in Handles, g \in Generations \ {0} :
               Disconnect(h, g, r) \/ StartEncryption(h, g, r)
    BY <1>1 DEF HostCall
  <2>2. ControllerValid /\ r \in Transport
    BY <1>1 DEF HostCall, Transport
  <2> QED BY <2>1, <2>2 DEF Next, RadioStep, AttemptStep, TableStep, SecurityStep,
             OwnAddresses
<1>2. CASE Deliver
  <2>1. Head(events) \in EventRecord
    BY <1>2, DeliverCases, HeadTailProperties DEF LinkTypes
  <2> QED BY <1>2, <2>1, DeliverCases, HandleStep
<1>3. CASE Execute
  BY <1>3 DEF Execute
<1>4. CASE Air
  BY <1>4 DEF Air
<1>5. CASE UNCHANGED allVars
  BY <1>5 DEF allVars
<1> QED BY <1>1, <1>2, <1>3, <1>4, <1>5 DEF LinkNext

\* The command the runtime sends, when its parameter is known.
LEMMA SentTypes ==
  ASSUME pendingOpcode' \in Opcodes, state' \in States,
         pendingOpcode' = "DISCONNECT" => disc'.handle \in Handles,
         pendingOpcode' = "LE_CREATE_CONNECTION" => attempt' \in Peers,
         pendingOpcode' = "LE_START_ENCRYPTION" =>
           conns'[CHOOSE s \in SecurityCommands' : TRUE].handle \in Handles
  PROVE  SentCommand' \in CommandRecord /\ SentCommand'.op = pendingOpcode'
<1>1. CASE pendingOpcode' = "DISCONNECT"
  BY <1>1 DEF SentCommand, CommandRecord, LinkCommands
<1>2. CASE pendingOpcode' = "LE_CREATE_CONNECTION"
  BY <1>2 DEF SentCommand, CommandRecord, LinkCommands
<1>3. CASE pendingOpcode' = "LE_START_ENCRYPTION"
  BY <1>3 DEF SentCommand, CommandRecord, LinkCommands
<1>4. CASE pendingOpcode' \notin LinkCommands \cup {"LE_CREATE_CONNECTION"}
  BY <1>4 DEF SentCommand, CommandRecord, LinkCommands
<1> QED BY <1>1, <1>2, <1>3, <1>4 DEF LinkCommands

LEMMA HostSends ==
  ASSUME IInv, IInv', LinkTypes, HostCall
  PROVE  /\ pendingOpcode = NoOpcode
         /\ pendingOpcode' # NoOpcode =>
              SentCommand' \in CommandRecord /\ SentCommand'.op = pendingOpcode'
<1>1. PICK r \in {"ok", "error"} :
        \/ StartAdvertising("public", r) \/ StopAdvertising(r)
        \/ \E peer \in Peers : StartConnection(peer, "public", r)
        \/ CancelConnection(r)
        \/ \E h \in Handles, g \in Generations \ {0} :
             Disconnect(h, g, r) \/ StartEncryption(h, g, r)
  BY DEF HostCall
<1>2. ControllerValid
  BY DEF HostCall
<1>3. state' \in States
  BY DEF IInv, TypeOK, CmdTypeOK
<1>4. CASE StartAdvertising("public", r) \/ StopAdvertising(r) \/ CancelConnection(r)
  BY <1>3, <1>4, SentTypes DEF StartAdvertising, StopAdvertising, CancelConnection,
     Ready, Submit, Opcodes
<1>5. CASE \E peer \in Peers : StartConnection(peer, "public", r)
  BY <1>3, <1>5, SentTypes DEF StartConnection, Ready, Submit, Opcodes
<1>6. CASE \E h \in Handles, g \in Generations \ {0} : Disconnect(h, g, r)
  BY <1>3, <1>6, SentTypes DEF Disconnect, Ready, Submit, Opcodes
<1>7. ASSUME NEW h \in Handles, NEW g \in Generations \ {0}, StartEncryption(h, g, r)
      PROVE  /\ pendingOpcode = NoOpcode
             /\ pendingOpcode' # NoOpcode =>
                  SentCommand' \in CommandRecord /\ SentCommand'.op = pendingOpcode'
  <2>1. PICK s \in Slots :
          /\ Pinned(s, h, g)
          /\ Submit(r, "LE_START_ENCRYPTION", "ENCRYPTION_START_PENDING",
                    "READY", "FAILED")
          /\ conns' = [conns EXCEPT ![s] =
                         [@ EXCEPT !.encryptionPending = (r = "ok"),
                                   !.encryptionCommand = (r = "ok"),
                                   !.encrypted = FALSE]]
    BY <1>7 DEF StartEncryption
  <2>2. state = "READY" /\ pendingOpcode = NoOpcode
    BY <1>7 DEF StartEncryption, Ready
  <2>3. SecurityCommands = {}
    BY <1>2, <2>2 DEF ControllerValid, SecurityCommandOwned
  <2>4. conns \in [Slots -> ConnectionRecord]
    BY DEF IInv, TypeOK, TableTypeOK
  <2>5. CASE r = "ok"
    <3>1. conns'[s].present /\ conns'[s].encryptionCommand /\ conns'[s].handle = h
      BY <2>1, <2>4, <2>5 DEF Pinned, ConnectionRecord
    <3>2. \A t \in Slots : t # s => conns'[t] = conns[t]
      BY <2>1, <2>4
    <3>3. SecurityCommands' = {s}
      BY <2>3, <3>1, <3>2 DEF SecurityCommands, Present
    <3>4. (CHOOSE t \in SecurityCommands' : TRUE) = s
      BY <3>3
    <3>5. pendingOpcode' = "LE_START_ENCRYPTION"
      BY <2>1, <2>5 DEF Submit
    <3> QED BY <1>3, <2>2, <3>1, <3>4, <3>5, SentTypes DEF Opcodes
  <2>6. CASE r # "ok"
    BY <2>1, <2>2, <2>6 DEF Submit
  <2> QED BY <2>5, <2>6
<1> QED BY <1>1, <1>4, <1>5, <1>6, <1>7

\* An answer may bring on the next command of a chain, and a link nobody asked
\* for its end; nothing else an event does sends a command.
LEMMA HandleSends ==
  ASSUME IInv', NEW e \in EventRecord, NEW r \in {"ok", "error"}, Handle(e, r)
  PROVE  /\ \/ pendingOpcode' = pendingOpcode
            \/ e \in AnswerRecord /\ pendingOpcode' = NoOpcode
            \/ /\ e \in AnswerRecord \/ pendingOpcode = NoOpcode
               /\ SentCommand' \in CommandRecord /\ SentCommand'.op = pendingOpcode'
         /\ e \in AnswerRecord => e.op = pendingOpcode
<1>1. state' \in States
  BY DEF IInv, TypeOK, CmdTypeOK
<1>2. e.kind \in {"complete", "status"} <=> e \in AnswerRecord
  BY EventTypes
<1>3. CASE e.kind \in {"complete", "status"} /\ HandleCommandEvent(e, r)
  <2>1. CASE CompleteAdvertisingStep(r)
    BY <1>1, <1>2, <1>3, <2>1, SentTypes DEF CompleteAdvertisingStep, Submit, Opcodes,
       HandleCommandEvent
  <2>2. CASE \/ CommandFailed \/ CompleteAdvertisingSwitch \/ CompleteCancel
             \/ CompleteUnexpected \/ StatusCreateConnection \/ StatusDisconnect
             \/ StatusStartEncryption
    BY <1>2, <1>3, <2>2 DEF HandleCommandEvent, CommandFailed, CompleteAdvertisingSwitch,
       CompleteCancel, CompleteUnexpected, StatusCreateConnection, StatusDisconnect,
       StatusStartEncryption
  <2> QED BY <1>3, <2>1, <2>2 DEF HandleCommandEvent
<1>4. CASE e.kind = "connected" /\ \/ ConnectionUnsolicited(e.handle, r)
                                   \/ ConnectionRefused(e.handle, e.role, e.peer, NoPeer, TRUE, r)
  <2>1. e.handle \in Handles /\ e \notin AnswerRecord
    BY <1>2, <1>4, EventTypes
  <2>2. \/ pendingOpcode' = pendingOpcode
        \/ pendingOpcode = NoOpcode /\ TearDown(e.handle, r)
    BY <1>4 DEF ConnectionUnsolicited, ConnectionRefused, FailController, CanTearDown
  <2>3. CASE pendingOpcode = NoOpcode /\ TearDown(e.handle, r)
    BY <1>1, <2>1, <2>3, SentTypes DEF TearDown, Submit, Opcodes
  <2> QED BY <2>1, <2>2, <2>3
<1>5. CASE \/ e.kind = "connected" /\ ConnectionEarly
           \/ /\ e.kind = "connected"
              /\ ConnectionAccepted(e.handle, e.role, e.peer, NoPeer, TRUE)
           \/ e.kind = "not connected" /\ ConnectionFailed
           \/ e.kind = "disconnected" /\ DisconnectionComplete(e.handle)
           \/ e.kind = "encrypted" /\ EncryptionChange(e.handle, e.ok, TRUE)
           \/ e.kind = "ltk" /\ LongTermKeyRequest(e.handle)
  <2>1. pendingOpcode' = pendingOpcode
    BY <1>5 DEF ConnectionEarly, ConnectionAccepted, ConnectionFailed, FailController,
       DisconnectionComplete, EncryptionChange, LongTermKeyRequest, cmdVars
  <2> QED BY <1>2, <1>5, <2>1
<1> QED BY <1>3, <1>4, <1>5 DEF Handle

\* Every answer is to the one command that is outstanding, and comes after the
\* command was executed.
InFlight ==
  /\ chipCmd # NoCommand =>
       /\ pendingOpcode = chipCmd.op
       /\ \A i \in 1..Len(events) : events[i] \notin AnswerRecord
  /\ \A i \in 1..Len(events) :
       events[i] \in AnswerRecord => events[i].op = pendingOpcode
  /\ \A i, j \in 1..Len(events) :
       events[i] \in AnswerRecord /\ events[j] \in AnswerRecord => i = j

LEMMA NothingInFlight ==
  ASSUME LinkTypes, InFlight, pendingOpcode = NoOpcode
  PROVE  /\ chipCmd = NoCommand
         /\ \A i \in 1..Len(events) : events[i] \notin AnswerRecord
<1>1. NoOpcode \notin Opcodes
  BY DEF NoOpcode, Opcodes
<1>2. chipCmd = NoCommand
  BY <1>1, CommandTypes DEF LinkTypes, InFlight
<1>3. \A i \in 1..Len(events) : events[i] \in EventRecord
  BY ElementOfSeq DEF LinkTypes
<1>4. \A i \in 1..Len(events) : events[i] \in AnswerRecord => events[i].op \in Opcodes
  BY DEF AnswerRecord
<1> QED BY <1>1, <1>2, <1>4 DEF InFlight

\* What the controller adds to the queue of events.
LEMMA QueueTypes ==
  ASSUME LinkTypes, NEW es \in Seq(EventRecord), Queue(es)
  PROVE  /\ events' \in Seq(EventRecord)
         /\ Len(events') = Len(events) + Len(es)
         /\ \A i \in 1..Len(events) : events'[i] = events[i]
         /\ \A i \in 1..Len(es) : events'[Len(events) + i] = es[i]
  BY ConcatProperties DEF LinkTypes, Queue

LEMMA EventsTyped ==
  /\ \A op \in Opcodes, ok \in BOOLEAN :
       /\ Complete(op, ok) \in AnswerRecord /\ Complete(op, ok).op = op
       /\ Status(op, ok) \in AnswerRecord /\ Status(op, ok).op = op
  /\ \A h \in Handles :
       /\ \A role \in {0, 1}, peer \in Peers :
            Connected(h, role, peer) \in EventRecord \ AnswerRecord
       /\ Disconnected(h) \in EventRecord \ AnswerRecord
       /\ LtkRequested(h) \in EventRecord \ AnswerRecord
       /\ \A ok \in BOOLEAN : Encrypted(h, ok) \in EventRecord \ AnswerRecord
  /\ NotConnected \in EventRecord \ AnswerRecord
<1>1. \A op \in Opcodes, ok \in BOOLEAN :
       /\ Complete(op, ok) \in AnswerRecord /\ Complete(op, ok).op = op
       /\ Status(op, ok) \in AnswerRecord /\ Status(op, ok).op = op
  BY DEF Complete, Status, AnswerRecord
<1>2. ASSUME NEW h \in Handles
      PROVE  /\ \A role \in {0, 1}, peer \in Peers :
                  Connected(h, role, peer) \in EventRecord \ AnswerRecord
             /\ Disconnected(h) \in EventRecord \ AnswerRecord
             /\ LtkRequested(h) \in EventRecord \ AnswerRecord
             /\ \A ok \in BOOLEAN : Encrypted(h, ok) \in EventRecord \ AnswerRecord
  BY DEF Connected, Disconnected, LtkRequested, Encrypted, EventRecord, AnswerRecord
<1>3. NotConnected \in EventRecord \ AnswerRecord
  BY DEF NotConnected, EventRecord, AnswerRecord
<1> QED BY <1>1, <1>2, <1>3

\* Events that are no answers leave what is in flight alone.
LEMMA AirKeeps ==
  ASSUME LinkTypes, InFlight, NEW e \in EventRecord \ AnswerRecord, Queue(<<e>>),
         UNCHANGED <<chipCmd, pendingOpcode>>
  PROVE  events' \in Seq(EventRecord) /\ InFlight'
<1> DEFINE es == <<e>>
<1>1. es \in Seq(EventRecord) /\ Len(es) = 1 /\ es[1] = e /\ Queue(es)
  OBVIOUS
<1> HIDE DEF es
<1>2. /\ events' \in Seq(EventRecord) /\ Len(events') = Len(events) + 1
      /\ \A i \in 1..Len(events) : events'[i] = events[i]
      /\ events'[Len(events) + 1] = e
  <2>1. 1 \in 1..Len(es)
    BY <1>1
  <2> QED BY <1>1, <2>1, QueueTypes
<1>3. Len(events) \in Nat
  BY LenProperties DEF LinkTypes
<1>4. \A i \in 1..Len(events') : events'[i] \in AnswerRecord =>
        i \in 1..Len(events) /\ events'[i] = events[i]
  <2> SUFFICES ASSUME NEW i \in 1..Len(events'), events'[i] \in AnswerRecord
               PROVE  i \in 1..Len(events)
    BY <1>2
  <2>1. i # Len(events) + 1
    BY <1>2
  <2> QED BY <1>2, <1>3, <2>1
<1> QED BY <1>2, <1>4 DEF InFlight

LEMMA PairSeq ==
  ASSUME NEW S, NEW x \in S, NEW y \in S
  PROVE  /\ <<x, y>> \in Seq(S) /\ Len(<<x, y>>) = 2
         /\ <<x, y>>[1] = x /\ <<x, y>>[2] = y
  OBVIOUS

\* A command that is executed is answered once.
LEMMA ExecuteKeeps ==
  ASSUME LinkTypes, InFlight, chipCmd # NoCommand, NEW es \in Seq(EventRecord),
         Queue(es), Len(es) > 0, es[1] \in AnswerRecord, es[1].op = chipCmd.op,
         \A i \in 2..Len(es) : es[i] \notin AnswerRecord,
         chipCmd' = NoCommand, UNCHANGED pendingOpcode
  PROVE  events' \in Seq(EventRecord) /\ InFlight'
<1>1. /\ events' \in Seq(EventRecord) /\ Len(events') = Len(events) + Len(es)
      /\ \A i \in 1..Len(events) : events'[i] = events[i]
      /\ \A i \in 1..Len(es) : events'[Len(events) + i] = es[i]
  BY QueueTypes
<1>2. Len(events) \in Nat /\ Len(es) \in Nat
  BY LenProperties DEF LinkTypes
<1>3. \A i \in 1..Len(events') : events'[i] \in AnswerRecord => i = Len(events) + 1
  <2> SUFFICES ASSUME NEW i \in 1..Len(events'), events'[i] \in AnswerRecord
               PROVE  i = Len(events) + 1
    OBVIOUS
  <2>1. i \notin 1..Len(events)
    BY <1>1 DEF InFlight
  <2>2. i - Len(events) \in 1..Len(es) /\ Len(events) + (i - Len(events)) = i
    BY <1>1, <1>2, <2>1
  <2>3. es[i - Len(events)] \in AnswerRecord
    BY <1>1, <2>2
  <2>4. i - Len(events) \notin 2..Len(es)
    BY <2>3
  <2> QED BY <1>2, <2>2, <2>4
<1>4. events'[Len(events) + 1].op = pendingOpcode
  BY <1>1, <1>2 DEF InFlight
<1> QED BY <1>1, <1>3, <1>4 DEF InFlight

LEMMA HostKeeps ==
  ASSUME IInv, IInv', LinkTypes, InFlight, HostCall
  PROVE  LinkTypes' /\ InFlight'
<1>1. /\ UNCHANGED <<events, links, initiating, chipAdv>>
      /\ chipCmd' = IF pendingOpcode' = NoOpcode THEN chipCmd ELSE SentCommand'
  BY DEF HostCall
<1>2. /\ pendingOpcode = NoOpcode
      /\ pendingOpcode' # NoOpcode =>
           SentCommand' \in CommandRecord /\ SentCommand'.op = pendingOpcode'
  BY HostSends
<1>3. chipCmd = NoCommand /\ \A i \in 1..Len(events) : events[i] \notin AnswerRecord
  BY <1>2, NothingInFlight
<1>4. chipCmd' = NoCommand \/ (chipCmd' \in CommandRecord /\ chipCmd'.op = pendingOpcode')
  BY <1>1, <1>2, <1>3
<1>5. LinkTypes'
  BY <1>1, <1>4 DEF LinkTypes
<1>6. InFlight'
  BY <1>1, <1>3, <1>4 DEF InFlight
<1> QED BY <1>5, <1>6

LEMMA DeliverKeeps ==
  ASSUME IInv, IInv', LinkTypes, InFlight, Deliver
  PROVE  LinkTypes' /\ InFlight'
<1> DEFINE e == Head(events)
<1>1. /\ events # <<>> /\ events' = Tail(events)
      /\ \E r \in {"ok", "error"} : Handle(e, r) \/ UNCHANGED vars
      /\ chipCmd' = IF pendingOpcode' \in {NoOpcode, pendingOpcode}
                    THEN chipCmd ELSE SentCommand'
      /\ UNCHANGED <<links, initiating, chipAdv>>
  BY DeliverCases
<1>2. events \in Seq(EventRecord)
  BY DEF LinkTypes
<1>3. /\ e \in EventRecord /\ e = events[1] /\ Len(events) \in Nat
      /\ Len(events) # 0
      /\ events' \in Seq(EventRecord)
      /\ Len(events') = Len(events) - 1
      /\ \A i \in 1..Len(events') : events'[i] = events[i + 1]
  BY <1>1, <1>2, HeadTailProperties, LenProperties, EmptySeq
<1> HIDE DEF e
<1>4. /\ \/ pendingOpcode' = pendingOpcode
         \/ e \in AnswerRecord /\ pendingOpcode' = NoOpcode
         \/ /\ e \in AnswerRecord \/ pendingOpcode = NoOpcode
            /\ SentCommand' \in CommandRecord /\ SentCommand'.op = pendingOpcode'
  BY <1>1, <1>3, HandleSends DEF vars, cmdVars
<1>5. e \in AnswerRecord \/ pendingOpcode = NoOpcode => chipCmd = NoCommand
  BY <1>3, NothingInFlight DEF InFlight
<1>6. e \in AnswerRecord \/ pendingOpcode = NoOpcode =>
        \A i \in 1..Len(events') : events'[i] \notin AnswerRecord
  <2>1. CASE e \in AnswerRecord
    <3> SUFFICES ASSUME NEW i \in 1..Len(events'), events'[i] \in AnswerRecord
                 PROVE  FALSE
      BY <2>1
    <3>1. i + 1 \in 1..Len(events) /\ 1 \in 1..Len(events) /\ i + 1 # 1
      BY <1>3
    <3> QED BY <1>3, <2>1, <3>1 DEF InFlight
  <2>2. CASE pendingOpcode = NoOpcode
    <3>1. \A i \in 1..Len(events') : i + 1 \in 1..Len(events)
      BY <1>3
    <3> QED BY <1>3, <2>2, <3>1, NothingInFlight
  <2> QED BY <2>1, <2>2
<1>7. CASE pendingOpcode' = pendingOpcode
  <2>1. chipCmd' = chipCmd
    BY <1>1, <1>7
  <2>2. LinkTypes'
    BY <1>1, <1>3, <2>1 DEF LinkTypes
  <2>3. \A i \in 1..Len(events') : i + 1 \in 1..Len(events)
    BY <1>3
  <2>4. /\ chipCmd # NoCommand => \A i \in 1..Len(events') : events'[i] \notin AnswerRecord
        /\ \A i \in 1..Len(events') :
             events'[i] \in AnswerRecord => events'[i].op = pendingOpcode
    BY <1>3, <2>3 DEF InFlight
  <2>5. \A i, j \in 1..Len(events') :
          events'[i] \in AnswerRecord /\ events'[j] \in AnswerRecord => i = j
    <3> SUFFICES ASSUME NEW i \in 1..Len(events'), NEW j \in 1..Len(events'),
                        events'[i] \in AnswerRecord, events'[j] \in AnswerRecord
                 PROVE  i = j
      OBVIOUS
    <3>1. i + 1 = j + 1
      BY <1>3, <2>3 DEF InFlight
    <3> QED BY <3>1
  <2> QED BY <1>7, <2>1, <2>2, <2>4, <2>5 DEF InFlight
<1>8. CASE pendingOpcode' # pendingOpcode
  <2>1. e \in AnswerRecord \/ pendingOpcode = NoOpcode
    BY <1>4, <1>8
  <2>2. chipCmd' = NoCommand \/ (chipCmd' \in CommandRecord /\ chipCmd'.op = pendingOpcode')
    BY <1>1, <1>4, <1>5, <1>8, <2>1
  <2>3. LinkTypes'
    BY <1>1, <1>3, <2>2 DEF LinkTypes
  <2> QED BY <1>6, <2>1, <2>2, <2>3 DEF InFlight
<1> QED BY <1>7, <1>8

LEMMA LinkTypesStep ==
  ASSUME LinkTypes, NEW h \in Handles
  PROVE  /\ links[h].up \in BOOLEAN
         /\ [links EXCEPT ![h] = NoLink] \in [Handles -> LinkRecord]
         /\ \A role \in {0, 1} :
              [links EXCEPT ![h] = LinkUp(role)] \in [Handles -> LinkRecord]
         /\ \A b \in BOOLEAN :
              [links EXCEPT ![h].closing = b] \in [Handles -> LinkRecord]
         /\ \A x \in {"off", "starting", "on", "waiting for key"} :
              [links EXCEPT ![h].enc = x] \in [Handles -> LinkRecord]
<1>1. links \in [Handles -> LinkRecord] /\ links[h] \in LinkRecord
  BY DEF LinkTypes
<1>2. NoLink \in LinkRecord /\ \A role \in {0, 1} : LinkUp(role) \in LinkRecord
  BY DEF NoLink, LinkUp, LinkRecord
<1>3. /\ \A b \in BOOLEAN : [links[h] EXCEPT !.closing = b] \in LinkRecord
      /\ \A x \in {"off", "starting", "on", "waiting for key"} :
           [links[h] EXCEPT !.enc = x] \in LinkRecord
  BY <1>1 DEF LinkRecord
<1> QED BY <1>1, <1>2, <1>3 DEF LinkRecord

LEMMA ControllerKeeps ==
  ASSUME LinkTypes, InFlight, Execute
  PROVE  LinkTypes' /\ InFlight'
<1>1. chipCmd' = NoCommand /\ UNCHANGED pendingOpcode
  BY DEF Execute, vars, cmdVars
<1>2. chipCmd # NoCommand => chipCmd \in CommandRecord
  BY DEF LinkTypes
<1>3. ASSUME NEW es \in Seq(EventRecord), Queue(es), Len(es) > 0,
             es[1] \in AnswerRecord, es[1].op = chipCmd.op, chipCmd # NoCommand,
             \A i \in 2..Len(es) : es[i] \notin AnswerRecord,
             links' \in [Handles -> LinkRecord], initiating' \in Peers \cup {NoPeer},
             chipAdv' \in BOOLEAN
      PROVE  LinkTypes' /\ InFlight'
  <2>1. events' \in Seq(EventRecord) /\ InFlight'
    BY <1>1, <1>3, ExecuteKeeps
  <2> QED BY <1>1, <1>3, <2>1 DEF LinkTypes
<1>4. ASSUME NEW a \in AnswerRecord, Queue(<<a>>), a.op = chipCmd.op, chipCmd # NoCommand,
             links' \in [Handles -> LinkRecord], initiating' \in Peers \cup {NoPeer},
             chipAdv' \in BOOLEAN
      PROVE  LinkTypes' /\ InFlight'
  <2> DEFINE es == <<a>>
  <2>1. /\ es \in Seq(EventRecord) /\ Len(es) = 1 /\ es[1] = a /\ Queue(es)
        /\ \A i \in 2..1 : FALSE
    BY <1>4 DEF EventRecord
  <2> HIDE DEF es
  <2> QED BY <1>3, <1>4, <2>1
<1>5. CASE ExecuteDisconnect
  <2> DEFINE h == chipCmd.arg
  <2>1. /\ chipCmd.op = "DISCONNECT" /\ Queue(<<Status("DISCONNECT", links[h].up)>>)
        /\ links' = [links EXCEPT ![h].closing = links[h].up]
        /\ UNCHANGED <<initiating, chipAdv>>
    BY <1>5 DEF ExecuteDisconnect
  <2>2. chipCmd # NoCommand
    BY <2>1 DEF NoCommand, NoOpcode
  <2>3. h \in Handles
    BY <1>2, <2>1, <2>2, CommandTypes DEF LinkCommands
  <2> HIDE DEF h
  <2>4. links[h].up \in BOOLEAN /\ links' \in [Handles -> LinkRecord]
    BY <2>1, <2>3, LinkTypesStep
  <2>5. /\ Status("DISCONNECT", links[h].up) \in AnswerRecord
        /\ Status("DISCONNECT", links[h].up).op = chipCmd.op
    BY <2>1, <2>4, EventsTyped DEF Opcodes
  <2> QED BY <1>4, <2>1, <2>2, <2>4, <2>5 DEF LinkTypes
<1>6. CASE ExecuteStartEncryption
  <2> DEFINE h == chipCmd.arg
  <2>1. /\ chipCmd.op = "LE_START_ENCRYPTION"
        /\ Queue(<<Status("LE_START_ENCRYPTION", links[h].up)>>)
        /\ links' = IF links[h].up THEN [links EXCEPT ![h].enc = "starting"] ELSE links
        /\ UNCHANGED <<initiating, chipAdv>>
    BY <1>6 DEF ExecuteStartEncryption
  <2>2. chipCmd # NoCommand
    BY <2>1 DEF NoCommand, NoOpcode
  <2>3. h \in Handles
    BY <1>2, <2>1, <2>2, CommandTypes DEF LinkCommands
  <2> HIDE DEF h
  <2>4. links[h].up \in BOOLEAN /\ links' \in [Handles -> LinkRecord]
    BY <2>1, <2>3, LinkTypesStep DEF LinkTypes
  <2>5. /\ Status("LE_START_ENCRYPTION", links[h].up) \in AnswerRecord
        /\ Status("LE_START_ENCRYPTION", links[h].up).op = chipCmd.op
    BY <2>1, <2>4, EventsTyped DEF Opcodes
  <2> QED BY <1>4, <2>1, <2>2, <2>4, <2>5 DEF LinkTypes
<1>7. ASSUME NEW accept \in BOOLEAN, ExecuteCreateConnection(accept)
      PROVE  LinkTypes' /\ InFlight'
  <2>1. /\ chipCmd.op = "LE_CREATE_CONNECTION"
        /\ Queue(<<Status("LE_CREATE_CONNECTION", accept)>>)
        /\ initiating' = IF accept THEN chipCmd.arg ELSE initiating
        /\ UNCHANGED <<links, chipAdv>>
    BY <1>7 DEF ExecuteCreateConnection
  <2>2. chipCmd # NoCommand
    BY <2>1 DEF NoCommand, NoOpcode
  <2>3. initiating' \in Peers \cup {NoPeer}
    BY <1>2, <2>1, <2>2, CommandTypes DEF LinkTypes
  <2>4. /\ Status("LE_CREATE_CONNECTION", accept) \in AnswerRecord
        /\ Status("LE_CREATE_CONNECTION", accept).op = chipCmd.op
    BY <2>1, EventsTyped DEF Opcodes
  <2> QED BY <1>4, <2>1, <2>2, <2>3, <2>4 DEF LinkTypes
<1>8. CASE ExecuteCancel
  <2> DEFINE op == "LE_CREATE_CONNECTION_CANCEL"
  <2>1. /\ chipCmd.op = op
        /\ \/ Queue(<<Complete(op, FALSE)>>)
           \/ Queue(<<Complete(op, TRUE), NotConnected>>)
        /\ initiating' = NoPeer
        /\ UNCHANGED <<links, chipAdv>>
    BY <1>8 DEF ExecuteCancel
  <2>2. chipCmd # NoCommand
    BY <2>1 DEF NoCommand, NoOpcode
  <2>3. \A ok \in BOOLEAN : Complete(op, ok) \in AnswerRecord /\ Complete(op, ok).op = op
    BY EventsTyped DEF Opcodes
  <2>4. CASE Queue(<<Complete(op, FALSE)>>)
    BY <1>4, <2>1, <2>2, <2>3, <2>4 DEF LinkTypes
  <2>5. CASE Queue(<<Complete(op, TRUE), NotConnected>>)
    <3> DEFINE es == <<Complete(op, TRUE), NotConnected>>
    <3>1. Complete(op, TRUE) \in EventRecord /\ NotConnected \in EventRecord
      BY <2>3, EventsTyped DEF EventRecord
    <3>2. /\ es \in Seq(EventRecord) /\ Len(es) = 2 /\ Queue(es)
          /\ es[1] = Complete(op, TRUE) /\ es[2] = NotConnected
      BY <2>5, <3>1, PairSeq
    <3> HIDE DEF es
    <3>3. \A i \in 2..Len(es) : es[i] \notin AnswerRecord
      BY <3>2, EventsTyped
    <3>4. initiating' \in Peers \cup {NoPeer} /\ chipAdv' \in BOOLEAN
          /\ links' \in [Handles -> LinkRecord]
      BY <2>1 DEF LinkTypes
    <3>5. es[1] \in AnswerRecord /\ es[1].op = chipCmd.op
      BY <2>1, <2>3, <3>2
    <3>6. es \in Seq(EventRecord) /\ Queue(es) /\ Len(es) > 0
      BY <3>2
    <3> QED BY <1>3, <2>2, <3>3, <3>4, <3>5, <3>6
  <2> QED BY <2>1, <2>4, <2>5
<1>9. ASSUME NEW accept \in BOOLEAN, ExecuteAdvertising(accept)
      PROVE  LinkTypes' /\ InFlight'
  <2>1. /\ chipCmd.op \in {"LE_ADV_PARAMS", "LE_ADV_DATA", "LE_SCAN_RSP_DATA",
                           "LE_ADV_ENABLE"}
        /\ Queue(<<Complete(chipCmd.op, accept)>>)
        /\ chipAdv' \in {chipCmd.arg = "ADV_ENABLE_PENDING", chipAdv}
        /\ UNCHANGED <<links, initiating>>
    BY <1>9 DEF ExecuteAdvertising
  <2>2. chipCmd # NoCommand
    BY <2>1 DEF NoCommand, NoOpcode
  <2>3. chipAdv' \in BOOLEAN
    BY <2>1 DEF LinkTypes
  <2>4. /\ Complete(chipCmd.op, accept) \in AnswerRecord
        /\ Complete(chipCmd.op, accept).op = chipCmd.op
    BY <2>1, EventsTyped DEF Opcodes
  <2> QED BY <1>4, <2>1, <2>2, <2>3, <2>4 DEF LinkTypes
<1> QED BY <1>5, <1>6, <1>7, <1>8, <1>9 DEF Execute

LEMMA AirStepKeeps ==
  ASSUME LinkTypes, InFlight, Air
  PROVE  LinkTypes' /\ InFlight'
<1>1. UNCHANGED <<chipCmd, pendingOpcode>>
  BY DEF Air, vars, cmdVars
<1>2. ASSUME NEW e \in EventRecord \ AnswerRecord, Queue(<<e>>),
             links' \in [Handles -> LinkRecord], initiating' \in Peers \cup {NoPeer},
             chipAdv' \in BOOLEAN
      PROVE  LinkTypes' /\ InFlight'
  <2>1. events' \in Seq(EventRecord) /\ InFlight'
    BY <1>1, <1>2, AirKeeps
  <2> QED BY <1>1, <1>2, <2>1 DEF LinkTypes
<1>3. CASE AttemptFails
  BY <1>2, <1>3, EventsTyped DEF AttemptFails, LinkTypes
<1>4. ASSUME NEW h \in Handles, ConnectPeer(h)
      PROVE  LinkTypes' /\ InFlight'
  <2>1. Connected(h, 0, initiating) \in EventRecord \ AnswerRecord
    BY <1>4, EventsTyped DEF ConnectPeer, LinkTypes
  <2> QED BY <1>2, <1>4, <2>1, LinkTypesStep DEF ConnectPeer, LinkTypes
<1>5. ASSUME NEW h \in Handles, LinkDown(h)
      PROVE  LinkTypes' /\ InFlight'
  BY <1>2, <1>5, EventsTyped, LinkTypesStep DEF LinkDown, LinkTypes
<1>6. ASSUME NEW h \in Handles, PeerWantsEncryption(h)
      PROVE  LinkTypes' /\ InFlight'
  BY <1>2, <1>6, EventsTyped, LinkTypesStep DEF PeerWantsEncryption, LinkTypes
<1>7. ASSUME NEW h \in Handles, NEW peer \in Peers, PeerConnects(h, peer)
      PROVE  LinkTypes' /\ InFlight'
  <2>1. Connected(h, 1, peer) \in EventRecord \ AnswerRecord
    BY EventsTyped
  <2> QED BY <1>2, <1>7, <2>1, LinkTypesStep DEF PeerConnects, LinkTypes
<1>8. ASSUME NEW h \in Handles, NEW ok \in BOOLEAN, EncryptionEnds(h, ok)
      PROVE  LinkTypes' /\ InFlight'
  <2>1. Encrypted(h, ok) \in EventRecord \ AnswerRecord
    BY EventsTyped
  <2>2. links' \in [Handles -> LinkRecord]
    BY <1>8, LinkTypesStep DEF EncryptionEnds
  <2> QED BY <1>2, <1>8, <2>1, <2>2 DEF EncryptionEnds, LinkTypes
<1> QED BY <1>3, <1>4, <1>5, <1>6, <1>7, <1>8 DEF Air

LEMMA LinkInitInv == LinkInit => IInv /\ LinkTypes /\ InFlight
<1> SUFFICES ASSUME LinkInit PROVE IInv /\ LinkTypes /\ InFlight
  OBVIOUS
<1>1. TypeOK
  <2>1. CmdTypeOK
    BY DEF LinkInit, CmdTypeOK, States, ScanModes
  <2>2. SetupTypeOK /\ RadioTypeOK
    BY DEF LinkInit, SetupTypeOK, RadioTypeOK, ScanModes
  <2>3. LinkTypeOK
    BY EmptyDiscType DEF LinkInit, LinkTypeOK
  <2>4. TableTypeOK
    BY ConstantsAssumption, EmptyEntryType DEF LinkInit, TableTypeOK, Generations
  <2> QED BY <2>1, <2>2, <2>3, <2>4 DEF TypeOK
<1>2. TableInv
  BY EmptyTable DEF LinkInit
<1>3. SetupInv /\ RadioInv /\ LinkInv
  BY DEF LinkInit, NoDisconnect, SetupInv, RadioInv, LinkInv
<1>4. [h \in Handles |-> NoLink] \in [Handles -> LinkRecord]
  BY DEF NoLink, LinkRecord
<1>5. LinkTypes
  <2>1. <<>> \in Seq(EventRecord)
    BY EmptySeq
  <2> QED BY <1>4, <2>1 DEF LinkInit, LinkTypes
<1>6. InFlight
  <2>1. 1..Len(events) = {} /\ chipCmd = NoCommand
    BY DEF LinkInit
  <2> QED BY <2>1 DEF InFlight
<1> QED BY <1>1, <1>2, <1>3, <1>5, <1>6 DEF IInv

LEMMA LinkNextInv ==
  IInv /\ LinkTypes /\ InFlight /\ [LinkNext]_allVars
    => IInv' /\ LinkTypes' /\ InFlight'
<1> SUFFICES ASSUME IInv, LinkTypes, InFlight, [LinkNext]_allVars
             PROVE  IInv' /\ LinkTypes' /\ InFlight'
  OBVIOUS
<1>1. IInv'
  BY LinkNextIsNext, NextInv
<1>2. CASE UNCHANGED allVars
  BY <1>1, <1>2 DEF allVars, chipVars, vars, cmdVars, LinkTypes, InFlight
<1> QED BY <1>1, <1>2, HostKeeps, DeliverKeeps, ControllerKeeps, AirStepKeeps
        DEF LinkNext

\* The runtime keeps the table consistent with a controller that races it too,
\* and no call or event of HciLink is one HciController does not know.
THEOREM LinkKeepsRecord == LinkSpec => [][Next]_vars /\ []SelfConsistent
<1>1. IInv => SelfConsistent
  BY DEF IInv, SetupInv, RadioInv, LinkInv, TableInv, SelfConsistent
<1> QED BY LinkInitInv, LinkNextInv, LinkNextIsNext, <1>1, PTL DEF LinkSpec

\* One credit is enough: send_command is never called while a command waits for
\* its answer (hci_runtime_v1.c, transport_send_checked and command_complete).
THEOREM OneCredit == LinkSpec => []OneCommandInFlight
<1>1. LinkTypes /\ InFlight => OneCommandInFlight
  <2> SUFFICES ASSUME LinkTypes, InFlight PROVE OneCommandInFlight
    OBVIOUS
  <2> DEFINE answers == {i \in 1..Len(events) : events[i].kind \in {"complete", "status"}}
  <2>1. \A i \in 1..Len(events) : events[i] \in EventRecord
    BY ElementOfSeq DEF LinkTypes
  <2>2. answers = {i \in 1..Len(events) : events[i] \in AnswerRecord}
    BY <2>1, EventTypes
  <2>3. Cardinality(answers) <= 1
    <3>1. CASE answers = {}
      BY <3>1, FS_EmptySet
    <3>2. CASE answers # {}
      <4>1. PICK i \in answers : TRUE
        BY <3>2
      <4>2. answers = {i}
        BY <2>2, <4>1 DEF InFlight
      <4>3. Cardinality({i}) = 1
        BY FS_Singleton
      <4> QED BY <4>2, <4>3
    <3> QED BY <3>1, <3>2
  <2> QED BY <2>2, <2>3 DEF InFlight, OneCommandInFlight
<1> QED BY LinkInitInv, LinkNextInv, <1>1, PTL DEF LinkSpec

-----------------------------------------------------------------------------
(* What a call or an event does to the runtime, as far as links go *)

\* The entries with the flags of their encryption, and the pending disconnect.
SameEntry(s) ==
  /\ conns'[s].present = conns[s].present
  /\ conns'[s].handle = conns[s].handle
  /\ conns'[s].encrypted = conns[s].encrypted
  /\ conns'[s].encryptionPending = conns[s].encryptionPending
  /\ conns'[s].encryptionCommand = conns[s].encryptionCommand
  /\ conns'[s].ltkReplyCommand = conns[s].ltkReplyCommand
SameTable == \A s \in Slots : SameEntry(s)
SameDisconnect == UNCHANGED <<disc, discPrevious>>

\* The states a step may enter that starts neither a disconnect nor encryption.
OrdinaryStates ==
  States \ {"UNINITIALIZED", "LTK_REPLY_PENDING", "ENCRYPTION_START_PENDING",
            "DISCONNECT_PENDING"}

\* A step of scanning, advertising or a connection attempt.
Moves ==
  /\ SameTable /\ SameDisconnect
  /\ state' \in {state} \cup OrdinaryStates
  /\ state = "FAILED" => state' = "FAILED"
  /\ state = "ENCRYPTION_START_PENDING" => state' \in {state, "FAILED"}
  /\ pendingOpcode' = pendingOpcode
       \/ pendingOpcode' \notin {"DISCONNECT", "LE_START_ENCRYPTION"}

\* A link is torn down, or the controller fails in its place.
TornDown(h) ==
  /\ SameTable
  /\ state \notin {"FAILED", "ENCRYPTION_START_PENDING"} /\ ~disc.pending
  /\ discPrevious' = "READY"
  /\ \/ /\ state' = "DISCONNECT_PENDING" /\ pendingOpcode' = "DISCONNECT"
        /\ disc' = [pending |-> TRUE, handle |-> h, generation |-> 0]
     \/ /\ state' = "FAILED" /\ pendingOpcode' = NoOpcode
        /\ disc' = NoDisconnect

Entered(h) ==
  /\ ~HandlePresent(h) /\ SameDisconnect
  /\ \E t \in Slots :
       /\ ~conns[t].present
       /\ conns'[t].present /\ conns'[t].handle = h
       /\ ~conns'[t].encrypted /\ ~conns'[t].encryptionPending
       /\ ~conns'[t].encryptionCommand /\ ~conns'[t].ltkReplyCommand
       /\ \A s \in Slots : s # t => conns'[s] = conns[s]
  /\ state \notin {"FAILED", "ENCRYPTION_START_PENDING"}
  /\ state' \in OrdinaryStates /\ pendingOpcode' = pendingOpcode

Left(h) ==
  LET matched == disc.pending /\ disc.handle = h
  IN  /\ conns' = [s \in Slots |->
                    IF conns[s].present /\ conns[s].handle = h
                      THEN NoConnection ELSE conns[s]]
      /\ IF matched
           THEN state' = discPrevious /\ disc' = NoDisconnect /\ discPrevious' = "READY"
           ELSE state' = state /\ SameDisconnect
      /\ pendingOpcode' = pendingOpcode

Changed(h, ok) ==
  /\ \E s \in Slots :
       /\ conns[s].present /\ conns[s].handle = h /\ ~conns[s].encryptionCommand
       /\ ok => conns[s].encryptionPending
       /\ conns'[s].present /\ conns'[s].handle = h
       /\ conns'[s].encrypted = ok /\ ~conns'[s].encryptionPending
       /\ ~conns'[s].encryptionCommand
       /\ conns'[s].ltkReplyCommand = conns[s].ltkReplyCommand
       /\ \A t \in Slots : t # s => conns'[t] = conns[t]
  /\ SameDisconnect /\ UNCHANGED <<state, pendingOpcode>>

\* LE Start Encryption answered.
StartAnswered(ok) ==
  /\ state = "ENCRYPTION_START_PENDING" /\ state' = "READY" /\ pendingOpcode' = NoOpcode
  /\ SameDisconnect
  /\ \A s \in Slots :
       /\ conns'[s].present = conns[s].present
       /\ conns'[s].handle = conns[s].handle
       /\ conns'[s].ltkReplyCommand = conns[s].ltkReplyCommand
       /\ ~conns'[s].encryptionCommand
       /\ conns[s].encryptionCommand /\ ~ok =>
            ~conns'[s].encryptionPending /\ ~conns'[s].encrypted
       /\ ok \/ ~conns[s].encryptionCommand =>
            /\ conns'[s].encryptionPending = conns[s].encryptionPending
            /\ conns'[s].encrypted = conns[s].encrypted

\* Disconnect answered.
DisconnectRefused ==
  /\ SameTable /\ state = "DISCONNECT_PENDING" /\ pendingOpcode' = NoOpcode
  /\ state' = IF disc.generation = 0 THEN "FAILED" ELSE discPrevious
  /\ disc' = NoDisconnect /\ discPrevious' = "READY"

DisconnectTaken ==
  /\ SameTable /\ pendingOpcode = "DISCONNECT" /\ pendingOpcode' = NoOpcode
  /\ disc' = disc
  /\ IF disc.pending
       THEN UNCHANGED <<state, discPrevious>>
       ELSE state' = discPrevious /\ discPrevious' = "READY"

\* What every step of the runtime on its own leaves alone, for a controller that
\* is never sent a Long Term Key.  A command for encryption goes with the state
\* that awaits it, and with no disconnect.
HostInv ==
  /\ state \notin {"UNINITIALIZED", "LTK_REPLY_PENDING"}
  /\ disc.pending \/ state = "DISCONNECT_PENDING" \/ pendingOpcode = "DISCONNECT"
       => discPrevious = "READY"
  /\ \A s \in Slots : ~conns[s].ltkReplyCommand
  /\ \A s, t \in Slots :
       conns[s].encryptionCommand /\ conns[t].encryptionCommand => s = t
  /\ (\E s \in Slots : conns[s].encryptionCommand) =>
       /\ state \in {"ENCRYPTION_START_PENDING", "FAILED"}
       /\ ~disc.pending /\ pendingOpcode # "DISCONNECT"

HandleEffect(e) ==
  \/ e.kind \notin {"connected", "disconnected", "encrypted"} /\ Moves
       /\ (state = "ENCRYPTION_START_PENDING" /\ e.kind \in {"complete", "status"}
             => state' = "FAILED" /\ e.ok)
  \/ e.kind = "connected" /\ SameTable /\ SameDisconnect /\ state' = "FAILED"
       /\ pendingOpcode' = pendingOpcode
  \/ e.kind = "connected" /\ TornDown(e.handle)
  \/ e.kind = "connected" /\ Entered(e.handle)
  \/ e.kind = "disconnected" /\ Left(e.handle)
  \/ e.kind = "encrypted" /\ Changed(e.handle, e.ok)
  \/ e.kind \in {"complete", "status"} /\ StartAnswered(e.ok)
  \/ e.kind \in {"complete", "status"} /\ DisconnectRefused
  \/ e.kind \in {"complete", "status"} /\ e.ok /\ DisconnectTaken

LEMMA HandleEffects ==
  ASSUME IInv, HostInv, NEW e \in EventRecord, NEW r \in {"ok", "error"}, Handle(e, r)
  PROVE  HandleEffect(e)
<1>1. /\ conns \in [Slots -> ConnectionRecord] /\ state \in States
      /\ discPrevious \in {"UNINITIALIZED", "READY"}
      /\ \A s \in Slots : conns[s] \in ConnectionRecord
  BY DEF IInv, TypeOK, TableTypeOK, CmdTypeOK, LinkTypeOK
<1>2. \A s \in Slots : conns'[s] = conns[s] => SameEntry(s)
  BY DEF SameEntry
<1>3. ControllerValid
  BY DEF Handle
<1>4. CASE e.kind \in {"complete", "status"} /\ ~e.ok /\ CommandFailed
  <2>1. /\ \A s \in Slots : conns'[s] = FailedEntry(conns[s])
        /\ pendingOpcode' = NoOpcode /\ state' = FailedTo
        /\ IF state = "DISCONNECT_PENDING"
             THEN disc' = NoDisconnect /\ discPrevious' = "READY"
             ELSE SameDisconnect
    BY <1>4 DEF CommandFailed, discVars, SameDisconnect
  <2>2. CASE state = "ENCRYPTION_START_PENDING"
    <3>1. state' = "READY" /\ SameDisconnect
      BY <2>1, <2>2 DEF FailedTo
    <3>2. ASSUME NEW s \in Slots
          PROVE  conns'[s] = IF conns[s].encryptionCommand
                               THEN [conns[s] EXCEPT !.encryptionCommand = FALSE,
                                       !.encryptionPending = FALSE, !.encrypted = FALSE]
                               ELSE conns[s]
      BY <2>1, <2>2 DEF FailedEntry
    <3>3. /\ pendingOpcode' = NoOpcode
          /\ ~e.ok \/ \A s \in Slots : ~conns[s].encryptionCommand
      BY <1>4, <2>1
    <3>4. ASSUME NEW s \in Slots
          PROVE  /\ conns'[s].present = conns[s].present
                 /\ conns'[s].handle = conns[s].handle
                 /\ conns'[s].ltkReplyCommand = conns[s].ltkReplyCommand
                 /\ ~conns'[s].encryptionCommand
                 /\ conns[s].encryptionCommand =>
                      ~conns'[s].encryptionPending /\ ~conns'[s].encrypted
                 /\ ~conns[s].encryptionCommand => conns'[s] = conns[s]
      BY <1>1, <3>2 DEF ConnectionRecord
    <3>5. StartAnswered(e.ok)
      BY <2>2, <3>1, <3>3, <3>4 DEF StartAnswered
    <3> QED BY <1>4, <3>5 DEF HandleEffect
  <2>3. CASE state = "DISCONNECT_PENDING"
    <3>1. ASSUME NEW s \in Slots PROVE SameEntry(s)
      <4>1. conns'[s] \in {conns[s], [conns[s] EXCEPT !.disconnectPending = FALSE]}
        BY <2>1, <2>3 DEF FailedEntry
      <4> QED BY <1>1, <4>1 DEF SameEntry, ConnectionRecord
    <3>2. state' = IF disc.generation = 0 THEN "FAILED" ELSE discPrevious
      BY <2>1, <2>3 DEF FailedTo
    <3> QED BY <1>4, <2>1, <2>3, <3>1, <3>2 DEF HandleEffect, DisconnectRefused, SameTable
  <2>4. CASE state \notin {"ENCRYPTION_START_PENDING", "DISCONNECT_PENDING"}
    <3>1. ASSUME NEW s \in Slots PROVE SameEntry(s)
      <4>1. conns'[s] = conns[s]
        BY <2>1, <2>4 DEF FailedEntry, HostInv
      <4> QED BY <1>2, <4>1
    <3>2. state' \in OrdinaryStates /\ (state = "FAILED" => state' = "FAILED")
      BY <2>1, <2>4 DEF FailedTo, OrdinaryStates, States, PendingStates
    <3>3. Moves
      BY <2>1, <2>4, <3>1, <3>2 DEF Moves, SameTable, NoOpcode
    <3> QED BY <1>4, <2>4, <3>3 DEF HandleEffect
  <2> QED BY <2>2, <2>3, <2>4
<1>5. CASE /\ e.kind \in {"complete", "status"} /\ e.ok
           /\ \/ CompleteAdvertisingStep(r) \/ CompleteAdvertisingSwitch
              \/ CompleteCancel \/ StatusCreateConnection
  <2>1. /\ UNCHANGED <<disc, discPrevious, conns>>
        /\ state \notin {"FAILED", "ENCRYPTION_START_PENDING"}
        /\ state' \in {"ADV_DATA_PENDING", "SCAN_RSP_DATA_PENDING", "ADV_ENABLE_PENDING",
                       "READY", "FAILED", "CONNECTING"}
        /\ pendingOpcode' \in {"LE_ADV_DATA", "LE_SCAN_RSP_DATA", "LE_ADV_ENABLE", NoOpcode}
    BY <1>5 DEF CompleteAdvertisingStep, CompleteAdvertisingSwitch, CompleteCancel,
       StatusCreateConnection, Answers, Submit, linkVars, discVars, connVars
  <2>2. Moves
    BY <1>2, <2>1 DEF Moves, SameTable, SameDisconnect, OrdinaryStates, States,
       PendingStates, NoOpcode
  <2> QED BY <1>5, <2>1, <2>2 DEF HandleEffect
<1>6. CASE e.kind \in {"complete", "status"} /\ e.ok /\ CompleteUnexpected
  <2>1. /\ UNCHANGED <<disc, discPrevious, conns>> /\ pendingOpcode' = NoOpcode
        /\ state' \in {state, "FAILED"}
        /\ pendingOpcode \notin LtkOpcodes => state' = "FAILED"
    BY <1>6 DEF CompleteUnexpected, linkVars, discVars, connVars
  <2>2. state = "ENCRYPTION_START_PENDING" => state' = "FAILED"
    BY <1>3, <2>1 DEF ControllerValid, SecurityCommandOwned, LtkOpcodes
  <2>3. Moves
    BY <1>2, <2>1 DEF Moves, SameTable, SameDisconnect, OrdinaryStates, States,
       PendingStates, NoOpcode
  <2> QED BY <1>6, <2>2, <2>3 DEF HandleEffect
<1>7. CASE e.kind = "status" /\ e.ok /\ StatusDisconnect
  BY <1>2, <1>7 DEF StatusDisconnect, HandleEffect, DisconnectTaken, SameTable, connVars
<1>8. CASE e.kind = "status" /\ e.ok /\ StatusStartEncryption
  <2>1. /\ state = "ENCRYPTION_START_PENDING" /\ state' = "READY"
        /\ pendingOpcode' = NoOpcode /\ SameDisconnect
        /\ \A s \in Slots : conns'[s] = [conns[s] EXCEPT !.encryptionCommand = FALSE]
    BY <1>8 DEF StatusStartEncryption, Answers, SameDisconnect, discVars
  <2>2. ASSUME NEW s \in Slots
        PROVE  /\ conns'[s].present = conns[s].present
               /\ conns'[s].handle = conns[s].handle
               /\ conns'[s].ltkReplyCommand = conns[s].ltkReplyCommand
               /\ ~conns'[s].encryptionCommand
               /\ conns'[s].encryptionPending = conns[s].encryptionPending
               /\ conns'[s].encrypted = conns[s].encrypted
    BY <1>1, <2>1 DEF ConnectionRecord
  <2>3. StartAnswered(e.ok)
    BY <1>8, <2>1, <2>2 DEF StartAnswered
  <2> QED BY <1>8, <2>3 DEF HandleEffect
<1>9. CASE e.kind \in {"complete", "status"} /\ HandleCommandEvent(e, r)
  BY <1>4, <1>5, <1>6, <1>7, <1>8, <1>9 DEF HandleCommandEvent
<1>10. CASE e.kind = "not connected" /\ ConnectionFailed
  <2>1. /\ UNCHANGED <<disc, discPrevious, conns, pendingOpcode>>
        /\ state' = state \/ (state = "CONNECTING" /\ state' = "READY")
    BY <1>10 DEF ConnectionFailed, discVars, connVars
  <2>2. Moves
    BY <1>2, <2>1 DEF Moves, SameTable, SameDisconnect, OrdinaryStates, States,
       PendingStates
  <2> QED BY <1>10, <2>2 DEF HandleEffect
<1>11. ASSUME e.kind = "connected", FailController, UNCHANGED <<discVars, connVars>>
       PROVE  HandleEffect(e)
  BY <1>2, <1>11 DEF HandleEffect, FailController, discVars, connVars, SameTable,
     SameDisconnect
<1>12. ASSUME e.kind = "connected", CanTearDown(e.handle), TearDown(e.handle, r),
              state \notin {"FAILED", "ENCRYPTION_START_PENDING"}, UNCHANGED connVars
       PROVE  HandleEffect(e)
  <2>1. TornDown(e.handle)
    BY <1>2, <1>12 DEF CanTearDown, TearDown, TornDown, Submit, SameTable, connVars
  <2> QED BY <1>12, <2>1 DEF HandleEffect
<1>13. CASE e.kind = "connected" /\ ConnectionUnsolicited(e.handle, r)
  BY <1>11, <1>12, <1>13 DEF ConnectionUnsolicited
<1>14. CASE e.kind = "connected" /\ ConnectionEarly
  BY <1>11, <1>14 DEF ConnectionEarly, linkVars
<1>15. CASE e.kind = "connected" /\ ConnectionRefused(e.handle, e.role, e.peer, NoPeer, TRUE, r)
  BY <1>11, <1>12, <1>15 DEF ConnectionRefused
<1>16. CASE e.kind = "connected" /\ ConnectionAccepted(e.handle, e.role, e.peer, NoPeer, TRUE)
  <2>1. PICK t \in Slots :
          /\ ~conns[t].present
          /\ conns' = [conns EXCEPT ![t] = NewConnection(e.handle, connGen, e.role, e.peer)]
    BY <1>16 DEF ConnectionAccepted, FreeSlots, Present
  <2>2. /\ \A s \in Slots : s # t => conns'[s] = conns[s]
        /\ conns'[t] = NewConnection(e.handle, connGen, e.role, e.peer)
    BY <1>1, <2>1
  <2>3. /\ ~HandlePresent(e.handle) /\ SameDisconnect /\ pendingOpcode' = pendingOpcode
        /\ state \in {"CONNECTING", "CONNECT_CANCEL_PENDING"}
        /\ state' \in {"CONNECT_CANCEL_PENDING", "READY"}
    BY <1>16 DEF ConnectionAccepted, Acceptable, discVars, SameDisconnect
  <2>4. state' \in OrdinaryStates
    BY <2>3 DEF OrdinaryStates, States, PendingStates
  <2>5. /\ conns'[t].present /\ conns'[t].handle = e.handle
        /\ ~conns'[t].encrypted /\ ~conns'[t].encryptionPending
        /\ ~conns'[t].encryptionCommand /\ ~conns'[t].ltkReplyCommand
    BY <2>2 DEF NewConnection, NoConnection
  <2>6. state \notin {"FAILED", "ENCRYPTION_START_PENDING"}
    BY <2>3
  <2>7. Entered(e.handle)
    BY <2>1, <2>2, <2>3, <2>4, <2>5, <2>6 DEF Entered
  <2> QED BY <1>16, <2>7 DEF HandleEffect
<1>17. CASE e.kind = "disconnected" /\ DisconnectionComplete(e.handle)
  <2>1. Left(e.handle)
    BY <1>17 DEF DisconnectionComplete, Left, discVars, SameDisconnect
  <2> QED BY <1>17, <2>1 DEF HandleEffect
<1>18. CASE e.kind = "encrypted" /\ EncryptionChange(e.handle, e.ok, TRUE)
  <2>1. PICK s \in Present :
          LET c == conns[s]
          IN  /\ c.handle = e.handle
              /\ ~c.encryptionCommand /\ ~c.ltkReplyCommand
              /\ e.ok /\ TRUE => c.encryptionPending /\ ~c.ltkRequest
              /\ conns' = [conns EXCEPT ![s] =
                             [@ EXCEPT !.encrypted = (e.ok /\ TRUE),
                                       !.encryptionPending = FALSE,
                                       !.ltkRequest = (e.ok /\ c.ltkRequest)]]
    BY <1>18 DEF EncryptionChange
  <2>2. s \in Slots /\ conns[s].present /\ conns[s] \in ConnectionRecord
    BY <1>1 DEF Present
  <2>3. /\ conns'[s] = [conns[s] EXCEPT !.encrypted = (e.ok /\ TRUE),
                                        !.encryptionPending = FALSE,
                                        !.ltkRequest = (e.ok /\ conns[s].ltkRequest)]
        /\ \A t \in Slots : t # s => conns'[t] = conns[t]
    BY <1>1, <2>1, <2>2
  <2>4. e.ok \in BOOLEAN
    BY <1>18, EventTypes
  <2>5. /\ conns[s].handle = e.handle /\ ~conns[s].encryptionCommand
        /\ e.ok => conns[s].encryptionPending
    BY <2>1
  <2>6. (e.ok /\ TRUE) = e.ok
    BY <2>4
  <2>7. /\ conns'[s].present /\ conns'[s].handle = conns[s].handle
        /\ conns'[s].encrypted = (e.ok /\ TRUE) /\ ~conns'[s].encryptionPending
        /\ conns'[s].encryptionCommand = conns[s].encryptionCommand
        /\ conns'[s].ltkReplyCommand = conns[s].ltkReplyCommand
    BY <2>2, <2>3 DEF ConnectionRecord
  <2>8. SameDisconnect /\ UNCHANGED <<state, pendingOpcode>>
    BY <1>18 DEF EncryptionChange, SameDisconnect, discVars, cmdVars
  <2>9. Changed(e.handle, e.ok)
    BY <2>2, <2>3, <2>5, <2>6, <2>7, <2>8 DEF Changed
  <2> QED BY <1>18, <2>9 DEF HandleEffect
<1>19. CASE e.kind = "ltk" /\ LongTermKeyRequest(e.handle)
  <2>1. ASSUME NEW s \in Slots PROVE SameEntry(s)
    <3>1. conns'[s] \in {conns[s], [conns[s] EXCEPT !.ltkRequest = TRUE]}
      BY <1>19 DEF LongTermKeyRequest
    <3> QED BY <1>1, <3>1 DEF SameEntry, ConnectionRecord
  <2>2. Moves
    BY <1>19, <2>1 DEF Moves, SameTable, SameDisconnect, LongTermKeyRequest, cmdVars,
       discVars
  <2> QED BY <1>19, <2>2 DEF HandleEffect
<1> QED BY <1>9, <1>10, <1>13, <1>14, <1>15, <1>16, <1>17, <1>18, <1>19 DEF Handle

\* A disconnect of a table entry, and encryption of one.
DisconnectSent ==
  /\ SameTable /\ state = "READY" /\ ~disc.pending /\ discPrevious' = "READY"
  /\ \/ /\ state' = "DISCONNECT_PENDING" /\ pendingOpcode' = "DISCONNECT"
        /\ disc'.generation # 0 /\ disc'.pending
     \/ /\ state' = "READY" /\ pendingOpcode' = NoOpcode
        /\ disc' = NoDisconnect

StartSent(h) ==
  /\ state = "READY" /\ state' = "ENCRYPTION_START_PENDING" /\ SameDisconnect
  /\ pendingOpcode' = "LE_START_ENCRYPTION"
  /\ \A s \in Slots : ~conns[s].encryptionCommand
  /\ \E t \in Slots :
       /\ conns[t].present /\ conns[t].handle = h
       /\ ~conns[t].encrypted /\ ~conns[t].encryptionPending
       /\ conns'[t].present /\ conns'[t].handle = h
       /\ ~conns'[t].encrypted /\ conns'[t].encryptionPending
       /\ conns'[t].encryptionCommand
       /\ conns'[t].ltkReplyCommand = conns[t].ltkReplyCommand
       /\ \A s \in Slots : s # t => conns'[s] = conns[s]

HostEffect ==
  \/ state \in {"READY", "CONNECTING"} /\ Moves
       /\ pendingOpcode' \notin {"DISCONNECT", "LE_START_ENCRYPTION"}
  \/ DisconnectSent
  \/ \E h \in Handles : StartSent(h) /\ SentCommand' = [op |-> "LE_START_ENCRYPTION", arg |-> h]

LEMMA HostEffects ==
  ASSUME IInv, HostInv, HostCall
  PROVE  pendingOpcode = NoOpcode /\ HostEffect
<1>1. PICK r \in {"ok", "error"} :
        \/ StartAdvertising("public", r) \/ StopAdvertising(r)
        \/ \E peer \in Peers : StartConnection(peer, "public", r)
        \/ CancelConnection(r)
        \/ \E h \in Handles, g \in Generations \ {0} :
             Disconnect(h, g, r) \/ StartEncryption(h, g, r)
  BY DEF HostCall
<1>2. /\ conns \in [Slots -> ConnectionRecord] /\ state \in States
      /\ \A s \in Slots : conns[s] \in ConnectionRecord
  BY DEF IInv, TypeOK, TableTypeOK, CmdTypeOK
<1>3. \A s \in Slots : conns'[s] = conns[s] => SameEntry(s)
  BY DEF SameEntry
<1>4. CASE \/ StartAdvertising("public", r) \/ StopAdvertising(r) \/ CancelConnection(r)
           \/ \E peer \in Peers : StartConnection(peer, "public", r)
  <2>1. /\ UNCHANGED <<disc, discPrevious, conns>> /\ pendingOpcode = NoOpcode
        /\ state \in {"READY", "CONNECTING"}
        /\ state' \in {"READY", "CONNECTING", "ADV_PARAMS_PENDING", "ADV_DISABLE_PENDING",
                       "CONNECT_PENDING", "CONNECT_CANCEL_PENDING"}
        /\ pendingOpcode' \in {NoOpcode, "LE_ADV_PARAMS", "LE_ADV_ENABLE",
                               "LE_CREATE_CONNECTION", "LE_CREATE_CONNECTION_CANCEL"}
    BY <1>4 DEF StartAdvertising, StopAdvertising, CancelConnection, StartConnection, Ready,
       Submit, linkVars, discVars, connVars
  <2>2. Moves
    BY <1>3, <2>1 DEF Moves, SameTable, SameDisconnect, OrdinaryStates, States,
       PendingStates, NoOpcode
  <2> QED BY <2>1, <2>2 DEF HostEffect, NoOpcode
<1>5. ASSUME NEW h \in Handles, NEW g \in Generations \ {0}, Disconnect(h, g, r)
      PROVE  pendingOpcode = NoOpcode /\ HostEffect
  <2>1. PICK t \in Slots :
          conns' = [conns EXCEPT ![t] = [@ EXCEPT !.disconnectPending = (r = "ok")]]
    BY <1>5 DEF Disconnect
  <2>2. ASSUME NEW s \in Slots PROVE SameEntry(s)
    <3>1. conns'[s] \in {conns[s], [conns[s] EXCEPT !.disconnectPending = (r = "ok")]}
      BY <1>2, <2>1
    <3> QED BY <1>2, <3>1 DEF SameEntry, ConnectionRecord
  <2>3. /\ state = "READY" /\ pendingOpcode = NoOpcode /\ ~disc.pending
        /\ discPrevious' = "READY" /\ g # 0
        /\ \/ /\ r = "ok" /\ state' = "DISCONNECT_PENDING" /\ pendingOpcode' = "DISCONNECT"
              /\ disc' = [pending |-> TRUE, handle |-> h, generation |-> g]
           \/ /\ r = "error" /\ state' = "READY" /\ pendingOpcode' = NoOpcode
              /\ disc' = NoDisconnect
    BY <1>5 DEF Disconnect, Ready, Submit
  <2>4. DisconnectSent
    BY <2>2, <2>3 DEF DisconnectSent, SameTable
  <2> QED BY <2>3, <2>4 DEF HostEffect
<1>6. ASSUME NEW h \in Handles, NEW g \in Generations \ {0}, StartEncryption(h, g, r)
      PROVE  pendingOpcode = NoOpcode /\ HostEffect
  <2>1. PICK t \in Slots :
          /\ Pinned(t, h, g)
          /\ ~(\/ conns[t].encrypted \/ conns[t].encryptionPending
               \/ conns[t].ltkRequest \/ conns[t].disconnectPending)
          /\ Submit(r, "LE_START_ENCRYPTION", "ENCRYPTION_START_PENDING", "READY", "FAILED")
          /\ conns' = [conns EXCEPT ![t] =
                         [@ EXCEPT !.encryptionPending = (r = "ok"),
                                   !.encryptionCommand = (r = "ok"),
                                   !.encrypted = FALSE]]
    BY <1>6 DEF StartEncryption
  <2>2. state = "READY" /\ pendingOpcode = NoOpcode /\ SameDisconnect
    BY <1>6 DEF StartEncryption, Ready, SameDisconnect, discVars
  <2>3. \A s \in Slots : ~conns[s].encryptionCommand
    BY <2>2 DEF HostInv
  <2>4. /\ \A s \in Slots : s # t => conns'[s] = conns[s]
        /\ conns'[t] = [conns[t] EXCEPT !.encryptionPending = (r = "ok"),
                                        !.encryptionCommand = (r = "ok"),
                                        !.encrypted = FALSE]
    BY <1>2, <2>1
  <2>5. /\ conns'[t].present = conns[t].present /\ conns'[t].handle = conns[t].handle
        /\ conns'[t].encrypted = FALSE
        /\ conns'[t].encryptionPending = (r = "ok")
        /\ conns'[t].encryptionCommand = (r = "ok")
        /\ conns'[t].ltkReplyCommand = conns[t].ltkReplyCommand
    BY <1>2, <2>4 DEF ConnectionRecord
  <2>6. /\ conns[t].present /\ conns[t].handle = h
        /\ ~conns[t].encrypted /\ ~conns[t].encryptionPending
    BY <2>1 DEF Pinned
  <2>7. CASE r = "ok"
    <3>1. state' = "ENCRYPTION_START_PENDING" /\ pendingOpcode' = "LE_START_ENCRYPTION"
      BY <2>1, <2>7 DEF Submit
    <3>2. StartSent(h)
      BY <2>2, <2>3, <2>4, <2>5, <2>6, <2>7, <3>1 DEF StartSent
    <3>3. SecurityCommands' = {t}
      BY <2>3, <2>4, <2>5, <2>6, <2>7 DEF SecurityCommands, Present, HostInv
    <3>4. (CHOOSE s \in SecurityCommands' : TRUE) = t
      BY <3>3
    <3>5. SentCommand' = [op |-> "LE_START_ENCRYPTION", arg |-> h]
      BY <2>5, <2>6, <3>1, <3>4 DEF SentCommand
    <3> QED BY <2>2, <3>2, <3>5 DEF HostEffect
  <2>8. CASE r = "error"
    <3>1. state' = "READY" /\ pendingOpcode' = NoOpcode
      BY <2>1, <2>8 DEF Submit
    <3>2. ~conns'[t].encryptionPending /\ ~conns'[t].encryptionCommand
      BY <2>5, <2>8
    <3>3. conns[t].encrypted = FALSE /\ conns[t].encryptionPending = FALSE
          /\ conns[t].encryptionCommand = FALSE
      BY <1>2, <2>3, <2>6 DEF ConnectionRecord
    <3>4. SameEntry(t)
      BY <2>5, <2>8, <3>3 DEF SameEntry
    <3>5. SameTable
      BY <1>3, <2>4, <3>4 DEF SameTable
    <3>6. Moves
      BY <2>2, <3>1, <3>5 DEF Moves, NoOpcode
    <3> QED BY <2>2, <3>1, <3>6 DEF HostEffect, NoOpcode
  <2> QED BY <2>7, <2>8
<1> QED BY <1>1, <1>4, <1>5, <1>6

\* HostInv goes through every step.
LEMMA HandleKeepsHost ==
  ASSUME IInv, HostInv, NEW e \in EventRecord, NEW r \in {"ok", "error"}, Handle(e, r)
  PROVE  HostInv'
<1>1. HandleEffect(e)
  BY HandleEffects
<1>2. NoDisconnect.pending = FALSE /\ NoOpcode # "DISCONNECT"
  BY DEF NoDisconnect, NoOpcode
<1>3. ASSUME SameTable
      PROVE  /\ \A s \in Slots : ~conns'[s].ltkReplyCommand
             /\ \A s \in Slots : conns'[s].encryptionCommand = conns[s].encryptionCommand
             /\ \A s, t \in Slots :
                  conns'[s].encryptionCommand /\ conns'[t].encryptionCommand => s = t
  BY <1>3 DEF SameTable, SameEntry, HostInv
<1>4. CASE Moves
  <2>1. state' \notin {"UNINITIALIZED", "LTK_REPLY_PENDING"}
    BY <1>4 DEF Moves, OrdinaryStates, HostInv
  <2>2. disc.pending' \/ state' = "DISCONNECT_PENDING" \/ pendingOpcode' = "DISCONNECT"
          => discPrevious' = "READY"
    BY <1>4 DEF Moves, SameDisconnect, OrdinaryStates, HostInv
  <2>3. SameTable
    BY <1>4 DEF Moves
  <2>4. (\E s \in Slots : conns'[s].encryptionCommand) =>
          /\ state' \in {"ENCRYPTION_START_PENDING", "FAILED"}
          /\ ~disc.pending' /\ pendingOpcode' # "DISCONNECT"
    BY <1>3, <1>4, <2>3 DEF Moves, SameDisconnect, HostInv
  <2> QED BY <1>3, <2>1, <2>2, <2>3, <2>4 DEF HostInv
<1>5. CASE SameTable /\ SameDisconnect /\ state' = "FAILED" /\ pendingOpcode' = pendingOpcode
  BY <1>3, <1>5 DEF HostInv, SameDisconnect
<1>6. CASE TornDown(e.handle)
  <2>1. \A s \in Slots : ~conns[s].encryptionCommand
    BY <1>6 DEF TornDown, HostInv
  <2> QED BY <1>2, <1>3, <1>6, <2>1 DEF TornDown, HostInv
<1>7. CASE Entered(e.handle)
  <2>1. \A s \in Slots : ~conns[s].encryptionCommand
    BY <1>7 DEF Entered, HostInv
  <2>2. \A s \in Slots : ~conns'[s].encryptionCommand /\ ~conns'[s].ltkReplyCommand
    BY <1>7, <2>1 DEF Entered, HostInv
  <2> QED BY <1>7, <2>2 DEF Entered, HostInv, SameDisconnect, OrdinaryStates
<1>8. CASE Left(e.handle)
  <2>1. \A s \in Slots : conns'[s] = NoConnection \/ conns'[s] = conns[s]
    BY <1>8 DEF Left
  <2>2. ~NoConnection.encryptionCommand /\ ~NoConnection.ltkReplyCommand
    BY DEF NoConnection
  <2>3. /\ \A s \in Slots : ~conns'[s].ltkReplyCommand
        /\ \A s \in Slots : conns'[s].encryptionCommand => conns[s].encryptionCommand
    BY <2>1, <2>2 DEF HostInv
  <2>4. \A s, t \in Slots :
          conns'[s].encryptionCommand /\ conns'[t].encryptionCommand => s = t
    BY <2>3 DEF HostInv
  <2>5. CASE disc.pending /\ disc.handle = e.handle
    <3>1. \A s \in Slots : ~conns'[s].encryptionCommand
      BY <2>3, <2>5 DEF HostInv
    <3>2. state' = "READY" /\ disc' = NoDisconnect /\ discPrevious' = "READY"
      BY <1>8, <2>5 DEF Left, HostInv
    <3> QED BY <2>3, <2>4, <3>1, <3>2 DEF HostInv
  <2>6. CASE ~(disc.pending /\ disc.handle = e.handle)
    BY <1>8, <2>3, <2>4, <2>6 DEF Left, HostInv, SameDisconnect
  <2> QED BY <2>5, <2>6
<1>9. CASE Changed(e.handle, e.ok)
  <2>1. /\ \A s \in Slots : ~conns'[s].ltkReplyCommand
        /\ \A s \in Slots : conns'[s].encryptionCommand => conns[s].encryptionCommand
    BY <1>9 DEF Changed, HostInv
  <2> QED BY <1>9, <2>1 DEF Changed, HostInv, SameDisconnect
<1>10. CASE StartAnswered(e.ok)
  BY <1>2, <1>10 DEF StartAnswered, HostInv, SameDisconnect
<1>11. CASE DisconnectRefused
  <2>1. \A s \in Slots : ~conns[s].encryptionCommand
    BY <1>11 DEF DisconnectRefused, HostInv
  <2> QED BY <1>2, <1>3, <1>11, <2>1 DEF DisconnectRefused, HostInv
<1>12. CASE DisconnectTaken
  <2>1. (\A s \in Slots : ~conns[s].encryptionCommand) /\ discPrevious = "READY"
    BY <1>12 DEF DisconnectTaken, HostInv
  <2> QED BY <1>2, <1>3, <1>12, <2>1 DEF DisconnectTaken, HostInv
<1> QED BY <1>1, <1>4, <1>5, <1>6, <1>7, <1>8, <1>9, <1>10, <1>11, <1>12 DEF HandleEffect

LEMMA HostKeepsHost ==
  ASSUME IInv, HostInv, HostCall
  PROVE  HostInv'
<1>1. HostEffect
  BY HostEffects
<1>2. NoDisconnect.pending = FALSE /\ NoOpcode # "DISCONNECT"
  BY DEF NoDisconnect, NoOpcode
<1>3. CASE state \in {"READY", "CONNECTING"} /\ Moves /\ pendingOpcode' # "DISCONNECT"
  <2>1. \A s \in Slots : ~conns'[s].encryptionCommand /\ ~conns'[s].ltkReplyCommand
    BY <1>3 DEF Moves, SameTable, SameEntry, HostInv
  <2> QED BY <1>3, <2>1 DEF Moves, HostInv, SameDisconnect, OrdinaryStates
<1>4. CASE DisconnectSent
  <2>1. \A s \in Slots : ~conns'[s].encryptionCommand /\ ~conns'[s].ltkReplyCommand
    BY <1>4 DEF DisconnectSent, SameTable, SameEntry, HostInv
  <2> QED BY <1>2, <1>4, <2>1 DEF DisconnectSent, HostInv
<1>5. ASSUME NEW h \in Handles, StartSent(h) PROVE HostInv'
  <2>1. ~disc.pending
    BY <1>5 DEF StartSent, IInv, LinkInv
  <2>2. /\ \A s \in Slots : ~conns'[s].ltkReplyCommand
        /\ \A s, t \in Slots :
             conns'[s].encryptionCommand /\ conns'[t].encryptionCommand => s = t
    BY <1>5 DEF StartSent, HostInv
  <2> QED BY <1>5, <2>1, <2>2 DEF StartSent, HostInv, SameDisconnect
<1> QED BY <1>1, <1>3, <1>4, <1>5 DEF HostEffect

\* Only a start of encryption can be left without an entry that owns it.
LEMMA ValidUnlessStarting ==
  ASSUME IInv, HostInv, state # "ENCRYPTION_START_PENDING"
  PROVE  ControllerValid
<1>1. SecurityCommands \subseteq {s \in Slots : conns[s].encryptionCommand}
  BY DEF SecurityCommands, Present, HostInv
<1>2. CASE state = "FAILED"
  <2>1. SecurityCommandOwned
    BY <1>1, <1>2 DEF SecurityCommandOwned, HostInv
  <2> QED BY <2>1, <1>2 DEF ControllerValid, IInv, SetupInv, RadioInv, LinkInv, TableInv
<1>3. CASE state # "FAILED"
  <2>1. SecurityCommands = {}
    BY <1>1, <1>3 DEF HostInv
  <2>2. SecurityCommandOwned
    BY <1>3, <2>1 DEF SecurityCommandOwned, HostInv
  <2> QED BY <2>2 DEF ControllerValid, IInv, SetupInv, RadioInv, LinkInv, TableInv, HostInv
<1> QED BY <1>2, <1>3

-----------------------------------------------------------------------------
(* What is on its way about a link *)

\* Where the events of a kind about a handle are in the queue.
Positions(kind, h) ==
  {i \in 1..Len(events) : events[i].kind = kind /\ events[i].handle = h}
Ups(h) == Positions("connected", h)
Downs(h) == Positions("disconnected", h)

LEMMA Positive ==
  ASSUME LinkTypes, NEW kind, NEW h
  PROVE  \A i \in Positions(kind, h) : i \in Int /\ 1 <= i /\ i <= Len(events)
<1>1. Len(events) \in Nat
  BY LenProperties DEF LinkTypes
<1> QED BY <1>1 DEF Positions

\* An event that is taken off the queue: the others move up.
LEMMA Taken ==
  ASSUME LinkTypes, events # <<>>, events' = Tail(events)
  PROVE  /\ Head(events) \in EventRecord /\ Head(events) = events[1]
         /\ Len(events) \in Nat \ {0} /\ Len(events') = Len(events) - 1
         /\ \A i \in 1..Len(events') : i + 1 \in 1..Len(events) /\ events'[i] = events[i + 1]
         /\ \A kind, h :
              /\ 1 \in Positions(kind, h) <=>
                   Head(events).kind = kind /\ Head(events).handle = h
              /\ \A i \in Int : i \in Positions(kind, h)' <=>
                                  1 <= i /\ i + 1 \in Positions(kind, h)
<1>1. events \in Seq(EventRecord)
  BY DEF LinkTypes
<1>2. /\ Head(events) \in EventRecord /\ Head(events) = events[1]
      /\ Len(events) \in Nat \ {0} /\ Len(events') = Len(events) - 1
      /\ \A i \in 1..Len(events') : events'[i] = events[i + 1]
  BY <1>1, HeadTailProperties, LenProperties, EmptySeq
<1>3. \A i \in 1..Len(events') : i + 1 \in 1..Len(events)
  BY <1>2
<1>4. ASSUME NEW kind, NEW h
      PROVE  1 \in Positions(kind, h) <=>
               Head(events).kind = kind /\ Head(events).handle = h
  BY <1>2 DEF Positions
<1>5. ASSUME NEW kind, NEW h, NEW i \in Int
      PROVE  i \in Positions(kind, h)' <=> 1 <= i /\ i + 1 \in Positions(kind, h)
  <2>1. i \in 1..Len(events') <=> 1 <= i /\ i + 1 \in 1..Len(events)
    BY <1>2
  <2> QED BY <1>2, <2>1 DEF Positions
<1> QED BY <1>2, <1>3, <1>4, <1>5

\* Events that are queued come last.
LEMMA Put ==
  ASSUME LinkTypes, NEW es \in Seq(EventRecord), Queue(es), NEW kind, NEW h
  PROVE  \A i : i \in Positions(kind, h)' <=>
                  \/ i \in Positions(kind, h)
                  \/ \E k \in 1..Len(es) : /\ i = Len(events) + k
                                           /\ es[k].kind = kind /\ es[k].handle = h
<1>1. /\ Len(events') = Len(events) + Len(es)
      /\ \A i \in 1..Len(events) : events'[i] = events[i]
      /\ \A i \in 1..Len(es) : events'[Len(events) + i] = es[i]
  BY QueueTypes
<1>2. Len(events) \in Nat /\ Len(es) \in Nat
  BY LenProperties DEF LinkTypes
<1>3. \A i : i \in 1..Len(events') <=>
               i \in 1..Len(events) \/ \E k \in 1..Len(es) : i = Len(events) + k
  <2> TAKE i
  <2>1. ASSUME i \in 1..Len(events'), i \notin 1..Len(events)
        PROVE  \E k \in 1..Len(es) : i = Len(events) + k
    <3>1. i - Len(events) \in 1..Len(es) /\ i = Len(events) + (i - Len(events))
      BY <1>1, <1>2, <2>1
    <3> QED BY <3>1
  <2> QED BY <1>1, <1>2, <2>1
<1>4. \A i \in 1..Len(events), k \in 1..Len(es) : i # Len(events) + k
  BY <1>2
<1> QED BY <1>1, <1>3, <1>4 DEF Positions

LEMMA PutOne ==
  ASSUME LinkTypes, NEW e \in EventRecord, Queue(<<e>>), NEW kind, NEW h
  PROVE  /\ Len(events) \in Nat
         /\ Positions(kind, h)' = IF e.kind = kind /\ e.handle = h
                                    THEN Positions(kind, h) \cup {Len(events) + 1}
                                    ELSE Positions(kind, h)
<1> DEFINE es == <<e>>
<1>1. es \in Seq(EventRecord) /\ Len(es) = 1 /\ es[1] = e /\ Queue(es)
  OBVIOUS
<1>2. Len(events) \in Nat
  BY LenProperties DEF LinkTypes
<1> HIDE DEF es
<1>3. \A k : k \in 1..Len(es) <=> k = 1
  BY <1>1
<1>4. \A i : i \in Positions(kind, h)' <=>
               \/ i \in Positions(kind, h)
               \/ i = Len(events) + 1 /\ e.kind = kind /\ e.handle = h
  BY <1>1, <1>3, Put
<1> QED BY <1>2, <1>4

\* What the two lists of a handle say: a link is not reported up again before
\* it is reported down, and the last report is true.
Ordered(U, D, up) ==
  /\ \A i, k \in U : i < k => \E j \in D : i < j /\ j < k
  /\ \A i \in U : up \/ \E j \in D : i < j
  /\ \A j \in D : up => \E i \in U : j < i

\* An entry of the table: the link has not come up again since it was entered,
\* and if it has gone the news of it is queued.
Backed(U, D, up) ==
  /\ \A i \in U : \E j \in D : j < i
  /\ up \/ D # {}

\* The same positions one step nearer the head of the queue.
Shifted(U, U2) ==
  /\ \A i \in U \cup U2 : i \in Int /\ 1 <= i
  /\ \A i \in Int : i \in U2 <=> 1 <= i /\ i + 1 \in U

LEMMA OrderedShift ==
  ASSUME NEW U, NEW D, NEW U2, NEW D2, NEW up,
         Shifted(U, U2), Shifted(D, D2), Ordered(U, D, up)
  PROVE  /\ Ordered(U2, D2, up)
         /\ Backed(U, D, up) /\ 1 \notin D => Backed(U2, D2, up)
         /\ 1 \in U => Backed(U2, D2, up)
         /\ 1 \in D /\ up => U2 # {}
<1> USE DEF Shifted
<1>1. ASSUME NEW j \in D, NEW i \in Int, 1 <= i, i < j
      PROVE  j - 1 \in D2 /\ j - 1 \in Int /\ (j - 1) + 1 = j
  BY <1>1
<1>2. ASSUME NEW i \in U2, NEW k \in U2, i < k
      PROVE  \E j \in D2 : i < j /\ j < k
  <2>1. PICK j \in D : i + 1 < j /\ j < k + 1
    BY <1>2 DEF Ordered
  <2>2. j - 1 \in D2 /\ i < j - 1 /\ j - 1 < k
    BY <1>2, <2>1
  <2> QED BY <2>2
<1>3. ASSUME NEW i \in U2, ~up
      PROVE  \E j \in D2 : i < j
  <2>1. PICK j \in D : i + 1 < j
    BY <1>3 DEF Ordered
  <2>2. j - 1 \in D2 /\ i < j - 1
    BY <1>3, <2>1
  <2> QED BY <2>2
<1>4. ASSUME NEW j \in D, up
      PROVE  \E i \in U2 : j - 1 < i
  <2>1. PICK i \in U : j < i
    BY <1>4 DEF Ordered
  <2>2. i - 1 \in U2 /\ j - 1 < i - 1
    BY <1>4, <2>1
  <2> QED BY <2>2
<1>5. \A j \in D2 : up => \E i \in U2 : j < i
  <2> SUFFICES ASSUME NEW j \in D2, up PROVE \E i \in U2 : j < i
    OBVIOUS
  <2>1. j + 1 \in D /\ j \in Int /\ (j + 1) - 1 = j
    OBVIOUS
  <2>2. \E i \in U2 : (j + 1) - 1 < i
    BY <1>4, <2>1
  <2> QED BY <2>1, <2>2
<1>6. ASSUME Backed(U, D, up), 1 \notin D
      PROVE  Backed(U2, D2, up)
  <2>1. ASSUME NEW j \in D PROVE j - 1 \in D2
    BY <1>6, <2>1
  <2>2. ASSUME NEW i \in U2 PROVE \E j \in D2 : j < i
    <3>1. PICK j \in D : j < i + 1
      BY <1>6 DEF Backed
    <3>2. j - 1 \in D2 /\ j - 1 < i
      BY <2>1, <3>1
    <3> QED BY <3>2
  <2> QED BY <1>6, <2>1, <2>2 DEF Backed
<1>7. ASSUME 1 \in U
      PROVE  Backed(U2, D2, up)
  <2>1. ASSUME NEW j \in D, 1 < j PROVE j - 1 \in D2
    BY <2>1
  <2>2. ASSUME NEW i \in U2 PROVE \E j \in D2 : j < i
    <3>1. i + 1 \in U /\ 1 < i + 1
      OBVIOUS
    <3>2. PICK j \in D : 1 < j /\ j < i + 1
      BY <1>7, <3>1 DEF Ordered
    <3>3. j - 1 \in D2 /\ j - 1 < i
      BY <2>1, <3>2
    <3> QED BY <3>3
  <2>3. up \/ D2 # {}
    <3>1. up \/ \E j \in D : 1 < j
      BY <1>7 DEF Ordered
    <3> QED BY <2>1, <3>1
  <2> QED BY <2>2, <2>3 DEF Backed
<1>8. 1 \in D /\ up => U2 # {}
  BY <1>4
<1>9. Ordered(U2, D2, up)
  BY <1>2, <1>3, <1>5 DEF Ordered
<1> QED BY <1>6, <1>7, <1>8, <1>9

\* A link that comes up, or goes down, with its event.
LEMMA OrderedUp ==
  ASSUME NEW U, NEW D, NEW n \in Int, \A i \in U \cup D : i \in Int /\ i < n,
         Ordered(U, D, FALSE)
  PROVE  /\ Ordered(U \cup {n}, D, TRUE)
         /\ Backed(U, D, FALSE) => Backed(U \cup {n}, D, TRUE)
<1>1. \A i \in U : \E j \in D : i < j /\ j < n
  BY DEF Ordered
<1>2. \A i, k \in U \cup {n} : i < k => \E j \in D : i < j /\ j < k
  BY <1>1 DEF Ordered
<1>3. \A j \in D : j < n
  OBVIOUS
<1>4. Ordered(U \cup {n}, D, TRUE)
  BY <1>2, <1>3 DEF Ordered
<1>5. Backed(U, D, FALSE) => Backed(U \cup {n}, D, TRUE)
  BY <1>3 DEF Backed
<1> QED BY <1>4, <1>5

LEMMA OrderedDown ==
  ASSUME NEW U, NEW D, NEW n \in Int, \A i \in U \cup D : i \in Int /\ i < n,
         Ordered(U, D, TRUE)
  PROVE  /\ Ordered(U, D \cup {n}, FALSE)
         /\ Backed(U, D, TRUE) => Backed(U, D \cup {n}, FALSE)
  BY DEF Ordered, Backed

\* What a step of the controller does to the lists of a handle.
Next1 == Len(events) + 1
Kept(h) ==
  /\ Ups(h)' = Ups(h) /\ Downs(h)' = Downs(h) /\ links'[h].up = links[h].up
CameUp(h) ==
  /\ ~links[h].up /\ links'[h].up
  /\ Ups(h)' = Ups(h) \cup {Next1} /\ Downs(h)' = Downs(h)
WentDown(h) ==
  /\ links[h].up /\ ~links'[h].up
  /\ Ups(h)' = Ups(h) /\ Downs(h)' = Downs(h) \cup {Next1}

\* A command that is executed is answered, and no link is reported on.
Answering(es) ==
  /\ es \in Seq(EventRecord) /\ Queue(es)
  /\ \A k \in 1..Len(es) : es[k].kind \notin {"connected", "disconnected", "encrypted"}
  /\ chipCmd.op = "LE_START_ENCRYPTION" =>
       Len(es) = 1 /\ es[1].ok = links[chipCmd.arg].up

LEMMA ExecuteAnswers ==
  ASSUME LinkTypes, Execute
  PROVE  \E es \in Seq(EventRecord) : Answering(es)
<1>1. ASSUME NEW a \in AnswerRecord, Queue(<<a>>),
             chipCmd.op = "LE_START_ENCRYPTION" => a.ok = links[chipCmd.arg].up
      PROVE  \E es \in Seq(EventRecord) : Answering(es)
  <2> DEFINE es == <<a>>
  <2>1. a \in EventRecord /\ a.kind \in {"complete", "status"}
    BY <1>1 DEF EventRecord, AnswerRecord
  <2>2. es \in Seq(EventRecord) /\ Len(es) = 1 /\ es[1] = a /\ Queue(es)
    BY <1>1, <2>1
  <2> HIDE DEF es
  <2>3. \A k \in 1..Len(es) : es[k].kind \notin {"connected", "disconnected", "encrypted"}
    BY <2>1, <2>2
  <2> QED BY <1>1, <2>2, <2>3 DEF Answering
<1>2. chipCmd # NoCommand => chipCmd \in CommandRecord
  BY DEF LinkTypes
<1>3. CASE ExecuteDisconnect \/ ExecuteStartEncryption
  <2>1. /\ chipCmd.op \in LinkCommands
        /\ Queue(<<Status(chipCmd.op, links[chipCmd.arg].up)>>)
    BY <1>3 DEF ExecuteDisconnect, ExecuteStartEncryption, LinkCommands
  <2>2. chipCmd # NoCommand
    BY <2>1 DEF NoCommand, NoOpcode, LinkCommands
  <2>3. chipCmd.arg \in Handles /\ chipCmd.op \in Opcodes
    BY <1>2, <2>1, <2>2, CommandTypes
  <2>4. links[chipCmd.arg].up \in BOOLEAN
    BY <2>3, LinkTypesStep
  <2>5. Status(chipCmd.op, links[chipCmd.arg].up).ok = links[chipCmd.arg].up
    BY DEF Status
  <2> QED BY <1>1, <2>1, <2>3, <2>4, <2>5, EventsTyped
<1>4. ASSUME NEW accept \in BOOLEAN, ExecuteCreateConnection(accept) \/ ExecuteAdvertising(accept)
      PROVE  \E es \in Seq(EventRecord) : Answering(es)
  BY <1>1, <1>4, EventsTyped DEF ExecuteCreateConnection, ExecuteAdvertising, Opcodes
<1>5. CASE ExecuteCancel
  <2> DEFINE op == "LE_CREATE_CONNECTION_CANCEL"
  <2>1. /\ chipCmd.op = op
        /\ Queue(<<Complete(op, FALSE)>>) \/ Queue(<<Complete(op, TRUE), NotConnected>>)
    BY <1>5 DEF ExecuteCancel
  <2>2. \A ok \in BOOLEAN : Complete(op, ok) \in AnswerRecord
    BY EventsTyped DEF Opcodes
  <2>3. CASE Queue(<<Complete(op, FALSE)>>)
    BY <1>1, <2>1, <2>2, <2>3
  <2>4. CASE Queue(<<Complete(op, TRUE), NotConnected>>)
    <3> DEFINE es == <<Complete(op, TRUE), NotConnected>>
    <3>1. Complete(op, TRUE) \in EventRecord /\ NotConnected \in EventRecord
      BY <2>2, EventsTyped DEF EventRecord
    <3>2. /\ es \in Seq(EventRecord) /\ Len(es) = 2 /\ Queue(es)
          /\ es[1] = Complete(op, TRUE) /\ es[2] = NotConnected
      BY <2>4, <3>1, PairSeq
    <3> HIDE DEF es
    <3>3. \A k \in 1..Len(es) : es[k].kind \notin {"connected", "disconnected", "encrypted"}
      <4>1. /\ Complete(op, TRUE).kind \notin {"connected", "disconnected", "encrypted"}
            /\ NotConnected.kind \notin {"connected", "disconnected", "encrypted"}
        BY DEF Complete, NotConnected
      <4>2. \A k \in 1..Len(es) : k = 1 \/ k = 2
        BY <3>2
      <4> QED BY <3>2, <4>1, <4>2
    <3>4. chipCmd.op # "LE_START_ENCRYPTION"
      BY <2>1
    <3> QED BY <3>2, <3>3, <3>4 DEF Answering
  <2> QED BY <2>1, <2>3, <2>4
<1> QED BY <1>3, <1>4, <1>5 DEF Execute

LEMMA ExecuteQuiet ==
  ASSUME LinkTypes, Execute, NEW kind \in {"connected", "disconnected", "encrypted"}, NEW h
  PROVE  Positions(kind, h)' = Positions(kind, h)
<1>1. PICK es \in Seq(EventRecord) : Answering(es)
  BY ExecuteAnswers
<1>2. \A k \in 1..Len(es) : es[k].kind # kind
  BY <1>1 DEF Answering
<1>3. Queue(es)
  BY <1>1 DEF Answering
<1>4. \A i : i \in Positions(kind, h)' <=>
               \/ i \in Positions(kind, h)
               \/ \E k \in 1..Len(es) : /\ i = Len(events) + k
                                        /\ es[k].kind = kind /\ es[k].handle = h
  BY <1>3, Put
<1>5. \A i : i \in Positions(kind, h)' <=> i \in Positions(kind, h)
  BY <1>2, <1>4
<1> QED BY <1>5

\* The bits of a link the two lists and the table are about.
LEMMA LinkChange ==
  ASSUME LinkTypes, NEW h \in Handles
  PROVE  /\ \A b : links' = [links EXCEPT ![h].closing = b] =>
              \A g \in Handles : links'[g].up = links[g].up /\ links'[g].enc = links[g].enc
         /\ \A x : links' = [links EXCEPT ![h].enc = x] =>
              /\ \A g \in Handles : links'[g].up = links[g].up
              /\ links'[h].enc = x
              /\ \A g \in Handles : g # h => links'[g].enc = links[g].enc
         /\ \A role : links' = [links EXCEPT ![h] = LinkUp(role)] =>
              /\ links'[h].up /\ links'[h].enc = "off"
              /\ \A g \in Handles : g # h => links'[g] = links[g]
         /\ links' = [links EXCEPT ![h] = NoLink] =>
              /\ ~links'[h].up /\ links'[h].enc = "off"
              /\ \A g \in Handles : g # h => links'[g] = links[g]
<1>1. links \in [Handles -> LinkRecord] /\ \A g \in Handles : links[g] \in LinkRecord
  BY DEF LinkTypes
<1>2. ASSUME NEW b, links' = [links EXCEPT ![h].closing = b], NEW g \in Handles
      PROVE  links'[g].up = links[g].up /\ links'[g].enc = links[g].enc
  <2>1. links'[g] \in {links[g], [links[g] EXCEPT !.closing = b]}
    BY <1>1, <1>2
  <2> QED BY <1>1, <2>1 DEF LinkRecord
<1>3. ASSUME NEW x, links' = [links EXCEPT ![h].enc = x]
      PROVE  /\ \A g \in Handles : links'[g].up = links[g].up
             /\ links'[h].enc = x
             /\ \A g \in Handles : g # h => links'[g].enc = links[g].enc
  <2>1. /\ links'[h] = [links[h] EXCEPT !.enc = x]
        /\ \A g \in Handles : g # h => links'[g] = links[g]
    BY <1>1, <1>3
  <2>2. links[h] \in LinkRecord
    BY <1>1
  <2>3. links'[h].up = links[h].up /\ links'[h].enc = x
    BY <2>1, <2>2 DEF LinkRecord
  <2> QED BY <2>1, <2>3
<1>4. ASSUME NEW role, links' = [links EXCEPT ![h] = LinkUp(role)]
      PROVE  /\ links'[h].up /\ links'[h].enc = "off"
             /\ \A g \in Handles : g # h => links'[g] = links[g]
  BY <1>1, <1>4 DEF LinkUp, NoLink
<1>5. ASSUME links' = [links EXCEPT ![h] = NoLink]
      PROVE  /\ ~links'[h].up /\ links'[h].enc = "off"
             /\ \A g \in Handles : g # h => links'[g] = links[g]
  BY <1>1, <1>5 DEF NoLink
<1> QED BY <1>2, <1>3, <1>4, <1>5

LEMMA ExecuteLinks ==
  ASSUME LinkTypes, Execute
  PROVE  /\ \A h \in Handles : links'[h].up = links[h].up
         /\ \/ \A h \in Handles : links'[h].enc = links[h].enc
            \/ /\ ExecuteStartEncryption /\ chipCmd.arg \in Handles
               /\ links[chipCmd.arg].up /\ links'[chipCmd.arg].enc = "starting"
               /\ \A h \in Handles : h # chipCmd.arg => links'[h].enc = links[h].enc
<1>1. chipCmd # NoCommand => chipCmd \in CommandRecord
  BY DEF LinkTypes
<1>2. chipCmd.op \in LinkCommands => chipCmd.arg \in Handles
  <2>1. NoCommand.op \notin LinkCommands
    BY DEF NoCommand, NoOpcode, LinkCommands
  <2> QED BY <1>1, <2>1, CommandTypes
<1>3. CASE ExecuteDisconnect
  <2>1. /\ chipCmd.op = "DISCONNECT"
        /\ links' = [links EXCEPT ![chipCmd.arg].closing = links[chipCmd.arg].up]
    BY <1>3 DEF ExecuteDisconnect
  <2> QED BY <1>2, <2>1, LinkChange DEF LinkCommands
<1>4. CASE ExecuteStartEncryption
  <2>1. chipCmd.op = "LE_START_ENCRYPTION"
    BY <1>4 DEF ExecuteStartEncryption
  <2>2. CASE ~links[chipCmd.arg].up
    BY <1>4, <2>2 DEF ExecuteStartEncryption
  <2>3. CASE links[chipCmd.arg].up
    <3>1. links' = [links EXCEPT ![chipCmd.arg].enc = "starting"]
      BY <1>4, <2>3 DEF ExecuteStartEncryption
    <3> QED BY <1>2, <1>4, <2>1, <2>3, <3>1, LinkChange DEF LinkCommands
  <2> QED BY <2>2, <2>3
<1>5. CASE ExecuteCancel
  BY <1>5 DEF ExecuteCancel
<1>6. ASSUME NEW accept \in BOOLEAN, ExecuteCreateConnection(accept) \/ ExecuteAdvertising(accept)
      PROVE  UNCHANGED links
  BY <1>6 DEF ExecuteCreateConnection, ExecuteAdvertising
<1> QED BY <1>3, <1>4, <1>5, <1>6 DEF Execute

\* A step in the air, by the event it queues.
AirEffect(h, e) ==
  /\ e \in EventRecord \ AnswerRecord /\ Queue(<<e>>)
  /\ \/ /\ e = NotConnected /\ UNCHANGED links
     \/ /\ \E role \in {0, 1}, peer \in Peers :
             e = Connected(h, role, peer) /\ links' = [links EXCEPT ![h] = LinkUp(role)]
        /\ ~links[h].up
     \/ /\ e = Disconnected(h) /\ links[h].up
        /\ links' = [links EXCEPT ![h] = NoLink]
     \/ /\ e = LtkRequested(h) /\ links[h].up /\ links[h].enc = "off"
        /\ links' = [links EXCEPT ![h].enc = "waiting for key"]
     \/ \E ok \in BOOLEAN :
          /\ e = Encrypted(h, ok) /\ links[h].enc = "starting"
          /\ links' = [links EXCEPT ![h].enc = IF ok THEN "on" ELSE "off"]

LEMMA AirEffects ==
  ASSUME LinkTypes, Air
  PROVE  \/ UNCHANGED links /\ Queue(<<NotConnected>>)
         \/ \E h \in Handles, e \in EventRecord : AirEffect(h, e)
<1>1. CASE AttemptFails
  BY <1>1 DEF AttemptFails
<1>2. ASSUME NEW h \in Handles, ConnectPeer(h)
      PROVE  \E e \in EventRecord : AirEffect(h, e)
  <2>1. initiating \in Peers
    BY <1>2 DEF ConnectPeer, LinkTypes
  <2>2. Connected(h, 0, initiating) \in EventRecord \ AnswerRecord
    BY <2>1, EventsTyped
  <2>3. AirEffect(h, Connected(h, 0, initiating))
    BY <1>2, <2>1, <2>2 DEF ConnectPeer, AirEffect
  <2> QED BY <2>2, <2>3
<1>3. ASSUME NEW h \in Handles, NEW peer \in Peers, PeerConnects(h, peer)
      PROVE  \E e \in EventRecord : AirEffect(h, e)
  <2>1. Connected(h, 1, peer) \in EventRecord \ AnswerRecord
    BY EventsTyped
  <2>2. AirEffect(h, Connected(h, 1, peer))
    BY <1>3, <2>1 DEF PeerConnects, AirEffect
  <2> QED BY <2>1, <2>2
<1>4. ASSUME NEW h \in Handles, LinkDown(h)
      PROVE  \E e \in EventRecord : AirEffect(h, e)
  <2>1. Disconnected(h) \in EventRecord \ AnswerRecord
    BY EventsTyped
  <2>2. AirEffect(h, Disconnected(h))
    BY <1>4, <2>1 DEF LinkDown, AirEffect
  <2> QED BY <2>1, <2>2
<1>5. ASSUME NEW h \in Handles, PeerWantsEncryption(h)
      PROVE  \E e \in EventRecord : AirEffect(h, e)
  <2>1. LtkRequested(h) \in EventRecord \ AnswerRecord
    BY EventsTyped
  <2>2. AirEffect(h, LtkRequested(h))
    BY <1>5, <2>1 DEF PeerWantsEncryption, AirEffect
  <2> QED BY <2>1, <2>2
<1>6. ASSUME NEW h \in Handles, NEW ok \in BOOLEAN, EncryptionEnds(h, ok)
      PROVE  \E e \in EventRecord : AirEffect(h, e)
  <2>1. Encrypted(h, ok) \in EventRecord \ AnswerRecord
    BY EventsTyped
  <2>2. AirEffect(h, Encrypted(h, ok))
    BY <1>6, <2>1 DEF EncryptionEnds, AirEffect
  <2> QED BY <2>1, <2>2
<1> QED BY <1>1, <1>2, <1>3, <1>4, <1>5, <1>6 DEF Air

\* The controller reports what it does to a link, and nothing else.
LEMMA ChipReports ==
  ASSUME LinkTypes, Execute \/ Air, NEW h \in Handles
  PROVE  Kept(h) \/ CameUp(h) \/ WentDown(h)
<1>1. CASE Execute
  BY <1>1, ExecuteQuiet, ExecuteLinks DEF Kept, Ups, Downs
<1>2. ASSUME UNCHANGED links, Queue(<<NotConnected>>)
      PROVE  Kept(h)
  <2>1. NotConnected \in EventRecord /\ NotConnected.kind = "not connected"
    BY EventsTyped DEF NotConnected
  <2> QED BY <1>2, <2>1, PutOne DEF Kept, Ups, Downs
<1>3. ASSUME NEW g \in Handles, NEW e \in EventRecord, AirEffect(g, e)
      PROVE  Kept(h) \/ CameUp(h) \/ WentDown(h)
  <2>1. /\ Queue(<<e>>)
        /\ Ups(h)' = IF e.kind = "connected" /\ e.handle = h
                       THEN Ups(h) \cup {Next1} ELSE Ups(h)
        /\ Downs(h)' = IF e.kind = "disconnected" /\ e.handle = h
                         THEN Downs(h) \cup {Next1} ELSE Downs(h)
    BY <1>3, PutOne DEF AirEffect, Ups, Downs, Next1
  <2>2. CASE e = NotConnected /\ UNCHANGED links
    BY <2>1, <2>2 DEF NotConnected, Kept
  <2>3. ASSUME NEW role \in {0, 1}, NEW peer \in Peers, e = Connected(g, role, peer),
               links' = [links EXCEPT ![g] = LinkUp(role)], ~links[g].up
        PROVE  Kept(h) \/ CameUp(h)
    <3>1. e.kind = "connected" /\ e.handle = g
      BY <2>3 DEF Connected
    <3>2. links'[g].up /\ \A k \in Handles : k # g => links'[k] = links[k]
      BY <2>3, LinkChange
    <3> QED BY <2>1, <2>3, <3>1, <3>2 DEF Kept, CameUp
  <2>4. CASE e = Disconnected(g) /\ links[g].up /\ links' = [links EXCEPT ![g] = NoLink]
    <3>1. e.kind = "disconnected" /\ e.handle = g
      BY <2>4 DEF Disconnected
    <3>2. ~links'[g].up /\ \A k \in Handles : k # g => links'[k] = links[k]
      BY <2>4, LinkChange
    <3> QED BY <2>1, <2>4, <3>1, <3>2 DEF Kept, WentDown
  <2>5. ASSUME NEW x, links' = [links EXCEPT ![g].enc = x],
               e.kind \in {"ltk", "encrypted"}
        PROVE  Kept(h)
    <3>1. links'[h].up = links[h].up
      BY <2>5, LinkChange
    <3> QED BY <2>1, <2>5, <3>1 DEF Kept
  <2>6. CASE e = LtkRequested(g) /\ links' = [links EXCEPT ![g].enc = "waiting for key"]
    BY <2>5, <2>6 DEF LtkRequested
  <2>7. ASSUME NEW ok \in BOOLEAN, e = Encrypted(g, ok),
               links' = [links EXCEPT ![g].enc = IF ok THEN "on" ELSE "off"]
        PROVE  Kept(h)
    BY <2>5, <2>7 DEF Encrypted
  <2> QED BY <1>3, <2>2, <2>3, <2>4, <2>6, <2>7 DEF AirEffect
<1> QED BY <1>1, <1>2, <1>3, AirEffects

-----------------------------------------------------------------------------
(* No link without an owner *)

\* The controller reports each link up and down in turn and the last report is
\* true; an entry of the table is backed by a link or by the news of its end; a
\* link of a runtime that has not failed is in the table, about to be reported
\* to it, or being torn down.  A record that is not valid takes no events, so
\* nothing is said of its table.
LinkOrder == \A h \in Handles : Ordered(Ups(h), Downs(h), links[h].up)

Named == \A s \in Slots : conns[s].present => conns[s].handle \in Handles

TableBacked ==
  ControllerValid =>
    \A h \in Handles : HandlePresent(h) => Backed(Ups(h), Downs(h), links[h].up)

TearsDown(h) == disc.pending /\ disc.generation = 0 /\ disc.handle = h

UpOwned ==
  ControllerValid /\ ~failedOnce =>
    \A h \in Handles :
      links[h].up => Ups(h) # {} \/ HandlePresent(h) \/ TearsDown(h)

OrphanInv ==
  /\ HostInv /\ LinkOrder /\ Named /\ TableBacked /\ UpOwned
  /\ state = "FAILED" => failedOnce

LEMMA DeliverStep ==
  Deliver =>
    /\ events # <<>> /\ events' = Tail(events) /\ UNCHANGED links
    /\ \/ \E r \in {"ok", "error"} : Handle(Head(events), r)
       \/ Ignored(Head(events)) /\ UNCHANGED vars
  BY DEF Deliver

\* Events about links are ignored only by a record that is not valid, or when
\* the table does not have the link.
LEMMA IgnoredLinks ==
  ASSUME NEW e, Ignored(e), ControllerValid
  PROVE  /\ e.kind # "connected"
         /\ e.kind = "disconnected" => ~HandlePresent(e.handle)
<1>1. CASE e.kind = "connected"
  BY <1>1 DEF Ignored
<1>2. CASE e.kind = "disconnected"
  BY <1>2 DEF Ignored
<1> QED BY <1>1, <1>2

\* A record that is valid was valid before.
LEMMA StaysInvalid ==
  ASSUME [LinkNext]_allVars, ControllerValid'
  PROVE  ControllerValid
<1>1. ASSUME UNCHANGED vars PROVE ControllerValid
  BY <1>1 DEF vars, cmdVars, setupVars, radioVars, linkVars, discVars, connVars,
     ControllerValid, TableValid, SecurityCommandOwned, SecurityCommands, Present,
     EntriesDistinct, DisconnectMarked, ConnectionValid
<1>2. CASE Deliver
  BY <1>1, <1>2, DeliverStep DEF Handle
<1>3. CASE HostCall
  BY <1>3 DEF HostCall
<1>4. CASE Execute \/ Air \/ UNCHANGED allVars
  BY <1>1, <1>4 DEF Execute, Air, allVars
<1> QED BY <1>2, <1>3, <1>4 DEF LinkNext

\* What an event does to the presence of a handle in the table.
LEMMA SameTablePresence ==
  ASSUME SameTable
  PROVE  /\ Named => Named'
         /\ \A h : HandlePresent(h)' <=> HandlePresent(h)
<1>1. \A s \in Slots : /\ conns'[s].present = conns[s].present
                       /\ conns'[s].handle = conns[s].handle
  BY DEF SameTable, SameEntry
<1> QED BY <1>1 DEF Named, HandlePresent, Present

LEMMA HandlePresence ==
  ASSUME NEW e \in EventRecord, HandleEffect(e), Named, NEW h
  PROVE  /\ Named'
         /\ HandlePresent(h)' => HandlePresent(h) \/ (e.kind = "connected" /\ e.handle = h)
         /\ HandlePresent(h) => HandlePresent(h)' \/ (e.kind = "disconnected" /\ e.handle = h)
         /\ e.kind = "disconnected" /\ e.handle = h => ~HandlePresent(h)'
         /\ e.kind = "connected" /\ e.handle = h =>
              HandlePresent(h)' \/ TearsDown(h)' \/ state' = "FAILED"
         /\ TearsDown(h) => \/ TearsDown(h)' \/ state' = "FAILED"
                            \/ e.kind = "disconnected" /\ e.handle = h
<1>1. ASSUME SameDisconnect PROVE TearsDown(h) => TearsDown(h)'
  BY <1>1 DEF SameDisconnect, TearsDown
<1>2. CASE Moves /\ e.kind \notin {"connected", "disconnected", "encrypted"}
  BY <1>1, <1>2, SameTablePresence DEF Moves
<1>3. CASE SameTable /\ SameDisconnect /\ state' = "FAILED" /\ e.kind = "connected"
  BY <1>1, <1>3, SameTablePresence
<1>4. CASE TornDown(e.handle) /\ e.kind = "connected"
  <2>1. ~TearsDown(h)
    BY <1>4 DEF TornDown, TearsDown
  <2>2. e.handle = h => TearsDown(h)' \/ state' = "FAILED"
    BY <1>4 DEF TornDown, TearsDown
  <2> QED BY <1>4, <2>1, <2>2, SameTablePresence DEF TornDown
<1>5. CASE Entered(e.handle) /\ e.kind = "connected"
  <2>1. PICK t \in Slots :
          /\ ~conns[t].present
          /\ conns'[t].present /\ conns'[t].handle = e.handle
          /\ \A s \in Slots : s # t => conns'[s] = conns[s]
    BY <1>5 DEF Entered
  <2>2. e.handle \in Handles
    BY <1>5, EventTypes
  <2>3. Named'
    BY <2>1, <2>2 DEF Named
  <2>4. HandlePresent(h)' <=> HandlePresent(h) \/ e.handle = h
    BY <2>1 DEF HandlePresent, Present
  <2> QED BY <1>1, <1>5, <2>3, <2>4 DEF Entered
<1>6. CASE Left(e.handle) /\ e.kind = "disconnected"
  <2>1. /\ ~NoConnection.present
        /\ \A s \in Slots : conns'[s] = IF conns[s].present /\ conns[s].handle = e.handle
                                          THEN NoConnection ELSE conns[s]
    BY <1>6 DEF Left, NoConnection
  <2>2. \A s \in Slots : conns'[s].present => conns'[s] = conns[s] /\ conns[s].handle # e.handle
    BY <2>1
  <2>3. \A s \in Slots : conns[s].present /\ conns[s].handle # e.handle => conns'[s] = conns[s]
    BY <2>1
  <2>4. Named' /\ ~HandlePresent(e.handle)'
    BY <2>2 DEF Named, HandlePresent, Present
  <2>5. HandlePresent(h)' => HandlePresent(h)
    BY <2>2 DEF HandlePresent, Present
  <2>6. HandlePresent(h) /\ e.handle # h => HandlePresent(h)'
    BY <2>3 DEF HandlePresent, Present
  <2>7. TearsDown(h) /\ e.handle # h => TearsDown(h)'
    BY <1>6 DEF Left, TearsDown, SameDisconnect
  <2> QED BY <1>6, <2>4, <2>5, <2>6, <2>7
<1>7. CASE Changed(e.handle, e.ok) /\ e.kind = "encrypted"
  <2>1. \A s \in Slots : conns'[s].handle = conns[s].handle
    BY <1>7 DEF Changed
  <2>2. \A s \in Slots : conns'[s].present <=> conns[s].present
    BY <1>7 DEF Changed
  <2>3. Named' /\ (HandlePresent(h)' <=> HandlePresent(h))
    BY <2>1, <2>2 DEF Named, HandlePresent, Present
  <2> QED BY <1>1, <1>7, <2>3 DEF Changed
<1>8. CASE StartAnswered(e.ok) /\ e.kind \in {"complete", "status"}
  <2>1. \A s \in Slots : /\ conns'[s].present = conns[s].present
                         /\ conns'[s].handle = conns[s].handle
    BY <1>8 DEF StartAnswered
  <2>2. Named' /\ (HandlePresent(h)' <=> HandlePresent(h))
    BY <2>1 DEF Named, HandlePresent, Present
  <2> QED BY <1>1, <1>8, <2>2 DEF StartAnswered
<1>9. CASE DisconnectRefused /\ e.kind \in {"complete", "status"}
  <2>1. TearsDown(h) => state' = "FAILED"
    BY <1>9 DEF DisconnectRefused, TearsDown
  <2> QED BY <1>9, <2>1, SameTablePresence DEF DisconnectRefused
<1>10. CASE DisconnectTaken /\ e.kind \in {"complete", "status"}
  <2>1. TearsDown(h) => TearsDown(h)'
    BY <1>10 DEF DisconnectTaken, TearsDown
  <2> QED BY <1>10, <2>1, SameTablePresence DEF DisconnectTaken
<1> QED BY <1>2, <1>3, <1>4, <1>5, <1>6, <1>7, <1>8, <1>9, <1>10 DEF HandleEffect

LEMMA HostPresence ==
  ASSUME HostEffect, Named
  PROVE  Named' /\ \A h : HandlePresent(h)' <=> HandlePresent(h)
<1>1. CASE Moves \/ DisconnectSent
  BY <1>1, SameTablePresence DEF Moves, DisconnectSent
<1>2. ASSUME NEW g \in Handles, StartSent(g)
      PROVE  Named' /\ \A h : HandlePresent(h)' <=> HandlePresent(h)
  <2>1. \A s \in Slots : /\ conns'[s].present <=> conns[s].present
                         /\ conns'[s].handle = conns[s].handle
    BY <1>2 DEF StartSent
  <2> QED BY <2>1 DEF Named, HandlePresent, Present
<1> QED BY <1>1, <1>2 DEF HostEffect

LEMMA ChipOrders ==
  ASSUME LinkTypes, LinkTypes', Execute \/ Air, NEW h \in Handles,
         Ordered(Ups(h), Downs(h), links[h].up)
  PROVE  /\ Ordered(Ups(h), Downs(h), links[h].up)'
         /\ Backed(Ups(h), Downs(h), links[h].up) => Backed(Ups(h), Downs(h), links[h].up)'
         /\ links'[h].up => \/ Ups(h)' # {}
                            \/ links[h].up /\ Ups(h)' = Ups(h)
<1>1. Kept(h) \/ CameUp(h) \/ WentDown(h)
  BY ChipReports
<1>2. links[h].up \in BOOLEAN /\ links'[h].up \in BOOLEAN
  BY DEF LinkTypes, LinkRecord
<1>3. Next1 \in Int /\ \A i \in Ups(h) \cup Downs(h) : i \in Int /\ i < Next1
  <2>1. Len(events) \in Nat
    BY LenProperties DEF LinkTypes
  <2> QED BY <2>1, Positive DEF Ups, Downs, Next1
<1>4. CASE Kept(h)
  BY <1>4 DEF Kept
<1>5. CASE CameUp(h)
  <2>1. links[h].up = FALSE /\ links'[h].up = TRUE
    BY <1>2, <1>5 DEF CameUp
  <2>2. /\ Ordered(Ups(h) \cup {Next1}, Downs(h), TRUE)
        /\ Backed(Ups(h), Downs(h), FALSE) => Backed(Ups(h) \cup {Next1}, Downs(h), TRUE)
    BY <1>3, <2>1, OrderedUp
  <2> QED BY <1>5, <2>1, <2>2 DEF CameUp
<1>6. CASE WentDown(h)
  <2>1. links[h].up = TRUE /\ links'[h].up = FALSE
    BY <1>2, <1>6 DEF WentDown
  <2>2. /\ Ordered(Ups(h), Downs(h) \cup {Next1}, FALSE)
        /\ Backed(Ups(h), Downs(h), TRUE) => Backed(Ups(h), Downs(h) \cup {Next1}, FALSE)
    BY <1>3, <2>1, OrderedDown
  <2> QED BY <1>6, <2>1, <2>2 DEF WentDown
<1> QED BY <1>1, <1>4, <1>5, <1>6

LEMMA DeliverOrders ==
  ASSUME LinkTypes, LinkTypes', events # <<>>, events' = Tail(events), UNCHANGED links,
         NEW h \in Handles, Ordered(Ups(h), Downs(h), links[h].up)
  PROVE  LET e == Head(events)
             up == e.kind = "connected" /\ e.handle = h
             down == e.kind = "disconnected" /\ e.handle = h
         IN  /\ Ordered(Ups(h), Downs(h), links[h].up)'
             /\ Backed(Ups(h), Downs(h), links[h].up) /\ ~down =>
                  Backed(Ups(h), Downs(h), links[h].up)'
             /\ up => Backed(Ups(h), Downs(h), links[h].up)'
             /\ down /\ links[h].up => Ups(h)' # {}
             /\ Ups(h) # {} /\ ~up => Ups(h)' # {}
<1>1. /\ 1 \in Ups(h) <=> Head(events).kind = "connected" /\ Head(events).handle = h
      /\ 1 \in Downs(h) <=> Head(events).kind = "disconnected" /\ Head(events).handle = h
      /\ \A i \in Int : i \in Ups(h)' <=> 1 <= i /\ i + 1 \in Ups(h)
      /\ \A i \in Int : i \in Downs(h)' <=> 1 <= i /\ i + 1 \in Downs(h)
  BY Taken DEF Ups, Downs
<1>2. \A i \in Ups(h) \cup Downs(h) : i \in Int /\ 1 <= i
  BY Positive DEF Ups, Downs
<1>3. \A i \in Ups(h)' \cup Downs(h)' : i \in Int /\ 1 <= i
  <2>1. ASSUME NEW kind PROVE \A i \in Positions(kind, h)' : i \in Int /\ 1 <= i
    <3>1. Len(events') \in Nat
      BY LenProperties DEF LinkTypes
    <3> QED BY <3>1 DEF Positions
  <2> QED BY <2>1 DEF Ups, Downs
<1>4. /\ Ordered(Ups(h)', Downs(h)', links[h].up)
      /\ Backed(Ups(h), Downs(h), links[h].up) /\ 1 \notin Downs(h) =>
           Backed(Ups(h)', Downs(h)', links[h].up)
      /\ 1 \in Ups(h) => Backed(Ups(h)', Downs(h)', links[h].up)
      /\ 1 \in Downs(h) /\ links[h].up => Ups(h)' # {}
  <2> DEFINE U == Ups(h)
             D == Downs(h)
             V == Ups(h)'
             E == Downs(h)'
             up == links[h].up
  <2>1. Shifted(U, V) /\ Shifted(D, E) /\ Ordered(U, D, up)
    BY <1>1, <1>2, <1>3 DEF Shifted
  <2> HIDE DEF U, D, V, E, up
  <2>2. /\ Ordered(V, E, up)
        /\ Backed(U, D, up) /\ 1 \notin D => Backed(V, E, up)
        /\ 1 \in U => Backed(V, E, up)
        /\ 1 \in D /\ up => V # {}
    BY <2>1, OrderedShift
  <2> QED BY <2>2 DEF U, D, V, E, up
<1>5. Ups(h) # {} /\ 1 \notin Ups(h) => Ups(h)' # {}
  <2> SUFFICES ASSUME NEW i \in Ups(h), 1 \notin Ups(h) PROVE Ups(h)' # {}
    OBVIOUS
  <2>1. i - 1 \in Int /\ 1 <= i - 1 /\ (i - 1) + 1 = i
    BY <1>2
  <2>2. i - 1 \in Ups(h)'
    BY <1>1, <2>1
  <2> QED BY <2>2
<1> QED BY <1>1, <1>4, <1>5

LEMMA OrphanChip ==
  ASSUME LinkTypes, LinkTypes', OrphanInv, Execute \/ Air,
         failedOnce' = (failedOnce \/ state' = "FAILED")
  PROVE  OrphanInv'
<1>1. UNCHANGED vars
  BY DEF Execute, Air
<1>2. UNCHANGED <<state, pendingOpcode, disc, discPrevious, conns>>
  BY <1>1 DEF vars, cmdVars, linkVars, discVars, connVars
<1>3. ControllerValid' => ControllerValid
  BY StaysInvalid DEF LinkNext
<1>4. HostInv' /\ Named' /\ (state' = "FAILED" => failedOnce')
  BY <1>2 DEF OrphanInv, HostInv, Named
<1>5. \A h \in Handles : /\ HandlePresent(h)' <=> HandlePresent(h)
                         /\ TearsDown(h)' <=> TearsDown(h)
  BY <1>2 DEF HandlePresent, Present, TearsDown
<1>6. ASSUME NEW h \in Handles
      PROVE  /\ Ordered(Ups(h), Downs(h), links[h].up)'
             /\ Backed(Ups(h), Downs(h), links[h].up) =>
                  Backed(Ups(h), Downs(h), links[h].up)'
             /\ links'[h].up => \/ Ups(h)' # {}
                                \/ links[h].up /\ Ups(h)' = Ups(h)
  BY ChipOrders DEF OrphanInv, LinkOrder
<1>7. LinkOrder'
  BY <1>6 DEF LinkOrder
<1>8. TableBacked'
  BY <1>3, <1>5, <1>6 DEF OrphanInv, TableBacked
<1>9. UpOwned'
  <2> SUFFICES ASSUME ControllerValid', ~failedOnce', NEW h \in Handles, links'[h].up
               PROVE  Ups(h)' # {} \/ HandlePresent(h)' \/ TearsDown(h)'
    BY DEF UpOwned
  <2>1. links[h].up => Ups(h) # {} \/ HandlePresent(h) \/ TearsDown(h)
    BY <1>3 DEF OrphanInv, UpOwned
  <2> QED BY <1>5, <1>6, <2>1
<1> QED BY <1>4, <1>7, <1>8, <1>9 DEF OrphanInv

LEMMA OrphanHost ==
  ASSUME IInv, OrphanInv, HostCall, failedOnce' = (failedOnce \/ state' = "FAILED")
  PROVE  OrphanInv'
<1>1. HostInv' /\ HostEffect
  BY HostKeepsHost, HostEffects DEF OrphanInv
<1>2. ControllerValid' => ControllerValid
  BY StaysInvalid DEF LinkNext
<1>3. Named' /\ \A h : HandlePresent(h)' <=> HandlePresent(h)
  BY <1>1, HostPresence DEF OrphanInv
<1>4. UNCHANGED <<events, links>>
  BY DEF HostCall
<1>5. \A h : Ups(h)' = Ups(h) /\ Downs(h)' = Downs(h)
  BY <1>4 DEF Ups, Downs, Positions
<1>6. ~disc.pending
  BY <1>1 DEF HostEffect, DisconnectSent, StartSent, IInv, LinkInv
<1>7. LinkOrder'
  BY <1>4, <1>5 DEF OrphanInv, LinkOrder
<1>8. TableBacked'
  BY <1>2, <1>3, <1>4, <1>5 DEF OrphanInv, TableBacked
<1>9. UpOwned'
  <2> SUFFICES ASSUME ControllerValid', ~failedOnce', NEW h \in Handles, links'[h].up
               PROVE  Ups(h)' # {} \/ HandlePresent(h)' \/ TearsDown(h)'
    BY DEF UpOwned
  <2>1. Ups(h) # {} \/ HandlePresent(h)
    BY <1>2, <1>4, <1>6 DEF OrphanInv, UpOwned, TearsDown
  <2> QED BY <1>3, <1>5, <2>1
<1> QED BY <1>1, <1>3, <1>7, <1>8, <1>9 DEF OrphanInv

LEMMA OrphanDeliver ==
  ASSUME IInv, LinkTypes, LinkTypes', OrphanInv, Deliver,
         failedOnce' = (failedOnce \/ state' = "FAILED")
  PROVE  OrphanInv'
<1> DEFINE e == Head(events)
<1>1. /\ events # <<>> /\ events' = Tail(events) /\ UNCHANGED links
      /\ \/ \E r \in {"ok", "error"} : Handle(e, r)
         \/ Ignored(e) /\ UNCHANGED vars
  BY DeliverStep
<1>2. e \in EventRecord
  BY <1>1, Taken
<1>3. ControllerValid' => ControllerValid
  BY StaysInvalid DEF LinkNext
<1>4. ASSUME NEW h \in Handles
      PROVE  LET up == e.kind = "connected" /\ e.handle = h
                 down == e.kind = "disconnected" /\ e.handle = h
             IN  /\ Ordered(Ups(h), Downs(h), links[h].up)'
                 /\ Backed(Ups(h), Downs(h), links[h].up) /\ ~down =>
                      Backed(Ups(h), Downs(h), links[h].up)'
                 /\ up => Backed(Ups(h), Downs(h), links[h].up)'
                 /\ down /\ links[h].up => Ups(h)' # {}
                 /\ Ups(h) # {} /\ ~up => Ups(h)' # {}
  BY <1>1, DeliverOrders DEF OrphanInv, LinkOrder
<1> HIDE DEF e
<1>5. HostInv' /\ Named'
  <2>1. ASSUME UNCHANGED vars PROVE HostInv' /\ Named'
    BY <2>1 DEF vars, cmdVars, linkVars, discVars, connVars, OrphanInv, HostInv, Named
  <2>2. ASSUME NEW r \in {"ok", "error"}, Handle(e, r) PROVE HostInv' /\ Named'
    <3>1. HandleEffect(e)
      BY <1>2, <2>2, HandleEffects DEF OrphanInv
    <3>2. HostInv'
      BY <1>2, <2>2, HandleKeepsHost DEF OrphanInv
    <3>3. Named'
      BY <1>2, <3>1, HandlePresence DEF OrphanInv
    <3> QED BY <3>2, <3>3
  <2> QED BY <1>1, <2>1, <2>2
<1>6. ASSUME NEW h \in Handles, ControllerValid
      PROVE  LET up == e.kind = "connected" /\ e.handle = h
                 down == e.kind = "disconnected" /\ e.handle = h
             IN  /\ HandlePresent(h)' => HandlePresent(h) \/ up
                 /\ HandlePresent(h) => HandlePresent(h)' \/ down
                 /\ down => ~HandlePresent(h)'
                 /\ up => HandlePresent(h)' \/ TearsDown(h)' \/ state' = "FAILED"
                 /\ TearsDown(h) => TearsDown(h)' \/ state' = "FAILED" \/ down
  <2>1. CASE Ignored(e) /\ UNCHANGED vars
    <3>1. /\ HandlePresent(h)' <=> HandlePresent(h)
          /\ TearsDown(h)' <=> TearsDown(h)
      BY <2>1 DEF vars, linkVars, discVars, connVars, HandlePresent, Present, TearsDown
    <3>2. /\ e.kind # "connected"
          /\ e.kind = "disconnected" => ~HandlePresent(e.handle)
      BY <1>6, <2>1, IgnoredLinks
    <3> QED BY <3>1, <3>2
  <2>2. ASSUME NEW r \in {"ok", "error"}, Handle(e, r)
        PROVE  HandleEffect(e)
    BY <1>2, <2>2, HandleEffects DEF OrphanInv
  <2> QED BY <1>1, <1>2, <2>1, <2>2, HandlePresence DEF OrphanInv
<1>7. LinkOrder'
  BY <1>4 DEF LinkOrder
<1>8. TableBacked'
  <2> SUFFICES ASSUME ControllerValid', NEW h \in Handles, HandlePresent(h)'
               PROVE  Backed(Ups(h), Downs(h), links[h].up)'
    BY DEF TableBacked
  <2>1. ControllerValid
    BY <1>3
  <2>2. HandlePresent(h) => Backed(Ups(h), Downs(h), links[h].up)
    BY <2>1 DEF OrphanInv, TableBacked
  <2> QED BY <1>4, <1>6, <2>1, <2>2
<1>9. UpOwned'
  <2> SUFFICES ASSUME ControllerValid', ~failedOnce', NEW h \in Handles, links'[h].up
               PROVE  Ups(h)' # {} \/ HandlePresent(h)' \/ TearsDown(h)'
    BY DEF UpOwned
  <2>1. ControllerValid /\ ~failedOnce /\ state' # "FAILED" /\ links[h].up
    BY <1>1, <1>3
  <2>2. Ups(h) # {} \/ HandlePresent(h) \/ TearsDown(h)
    BY <2>1 DEF OrphanInv, UpOwned
  <2> QED BY <1>4, <1>6, <2>1, <2>2
<1> QED BY <1>5, <1>7, <1>8, <1>9 DEF OrphanInv

LEMMA OrphanInit == LinkInit => OrphanInv
<1> SUFFICES ASSUME LinkInit PROVE OrphanInv
  OBVIOUS
<1>1. /\ state = "READY" /\ pendingOpcode = NoOpcode /\ disc = NoDisconnect
      /\ \A s \in Slots : conns[s] = NoConnection
      /\ Len(events) = 0 /\ \A h \in Handles : links[h] = NoLink
  BY DEF LinkInit
<1>2. /\ ~NoDisconnect.pending /\ NoOpcode # "DISCONNECT" /\ ~NoLink.up
      /\ ~NoConnection.present /\ ~NoConnection.encryptionCommand
      /\ ~NoConnection.ltkReplyCommand
  BY DEF NoDisconnect, NoOpcode, NoLink, NoConnection
<1>3. HostInv /\ Named
  BY <1>1, <1>2 DEF HostInv, Named
<1>4. \A h : Ups(h) = {} /\ Downs(h) = {}
  BY <1>1 DEF Ups, Downs, Positions
<1>5. LinkOrder
  BY <1>1, <1>2, <1>4 DEF LinkOrder, Ordered
<1>6. TableBacked /\ UpOwned
  BY <1>1, <1>2 DEF TableBacked, UpOwned, HandlePresent, Present
<1> QED BY <1>1, <1>3, <1>5, <1>6 DEF OrphanInv

LEMMA OrphanNext ==
  ASSUME IInv, LinkTypes, LinkTypes', OrphanInv, [LinkNext]_allVars
  PROVE  OrphanInv'
<1>1. CASE LinkNext
  BY <1>1, OrphanChip, OrphanHost, OrphanDeliver DEF LinkNext
<1>2. CASE UNCHANGED allVars
  <2>1. UNCHANGED <<vars, events, links, failedOnce>>
    BY <1>2 DEF allVars, chipVars
  <2>2. ControllerValid' => ControllerValid
    BY <1>2, StaysInvalid
  <2>3. UNCHANGED <<state, pendingOpcode, disc, discPrevious, conns>>
    BY <2>1 DEF vars, cmdVars, linkVars, discVars, connVars
  <2>4. HostInv' /\ Named' /\ (state' = "FAILED" => failedOnce')
    BY <2>1, <2>3 DEF OrphanInv, HostInv, Named
  <2>5. \A h : /\ Ups(h)' = Ups(h) /\ Downs(h)' = Downs(h)
               /\ HandlePresent(h)' <=> HandlePresent(h)
               /\ TearsDown(h)' <=> TearsDown(h)
    BY <2>1, <2>3 DEF Ups, Downs, Positions, HandlePresent, Present, TearsDown
  <2>6. LinkOrder'
    BY <2>1, <2>5 DEF OrphanInv, LinkOrder
  <2>7. TableBacked'
    BY <2>1, <2>2, <2>5 DEF OrphanInv, TableBacked
  <2>8. UpOwned'
    BY <2>1, <2>2, <2>5 DEF OrphanInv, UpOwned
  <2> QED BY <2>4, <2>6, <2>7, <2>8 DEF OrphanInv
<1> QED BY <1>1, <1>2

\* Whatever raced what, a settled runtime that has never failed has exactly the
\* controller's links in its table (hci_runtime_v1.c, connection_complete,
\* submit_disconnect_handle and disconnection_complete).
THEOREM NoLinkOrphaned == LinkSpec => []NoOrphanLink
<1>1. ASSUME IInv, LinkTypes, OrphanInv, Settled, ~failedOnce
      PROVE  {h \in Handles : links[h].up} = {conns[s].handle : s \in Present}
  <2>1. state = "READY" /\ Len(events) = 0
    BY <1>1 DEF Settled
  <2>2. ControllerValid
    BY <1>1, <2>1, ValidUnlessStarting DEF OrphanInv
  <2>3. \A h : Ups(h) = {} /\ Downs(h) = {}
    BY <2>1 DEF Ups, Downs, Positions
  <2>4. ~disc.pending
    BY <1>1, <2>1 DEF IInv, LinkInv
  <2>5. ASSUME NEW h \in Handles, links[h].up
        PROVE  \E s \in Present : conns[s].handle = h
    <3>1. Ups(h) # {} \/ HandlePresent(h) \/ TearsDown(h)
      BY <1>1, <2>2, <2>5 DEF OrphanInv, UpOwned
    <3> QED BY <2>3, <2>4, <3>1 DEF TearsDown, HandlePresent
  <2>6. ASSUME NEW s \in Present
        PROVE  conns[s].handle \in Handles /\ links[conns[s].handle].up
    <3>1. conns[s].handle \in Handles /\ HandlePresent(conns[s].handle)
      BY <1>1 DEF OrphanInv, Named, Present, HandlePresent
    <3>2. Backed(Ups(conns[s].handle), Downs(conns[s].handle), links[conns[s].handle].up)
      BY <1>1, <2>2, <3>1 DEF OrphanInv, TableBacked
    <3> QED BY <2>3, <3>1, <3>2 DEF Backed
  <2> QED BY <2>5, <2>6
<1>2. IInv /\ LinkTypes /\ OrphanInv => NoOrphanLink
  BY <1>1 DEF NoOrphanLink
<1>3. IInv /\ LinkTypes /\ InFlight /\ OrphanInv /\ [LinkNext]_allVars => OrphanInv'
  BY LinkNextInv, OrphanNext
<1> QED BY LinkInitInv, LinkNextInv, OrphanInit, <1>2, <1>3, PTL DEF LinkSpec
-----------------------------------------------------------------------------
(* What is reported encrypted is encrypted *)

Encs(h) == Positions("encrypted", h)
Oks(h) == {i \in Encs(h) : events[i].ok}
Replies == {i \in 1..Len(events) : events[i] \in AnswerRecord}

Awaits(h) ==
  \E s \in Slots : conns[s].present /\ conns[s].handle = h /\ conns[s].encryptionPending
Reported(h) ==
  \E s \in Slots : conns[s].present /\ conns[s].handle = h /\ conns[s].encrypted
Owner(h) ==
  \E s \in Slots : conns[s].present /\ conns[s].handle = h /\ conns[s].encryptionCommand

\* The events about the encryption of a link: at most one is queued, before the
\* end of the link, and what it says is true until then.
Story(E, O, D, enc) ==
  /\ O \subseteq E
  /\ \A i \in E, j \in D : i < j
  /\ \A i, j \in E : i = j
  /\ enc = "starting" => E = {} /\ D = {}
  /\ D = {} /\ O # {} => enc = "on"

AllShifted(E, O, D, E2, O2, D2) ==
  Shifted(E, E2) /\ Shifted(O, O2) /\ Shifted(D, D2)

LEMMA StoryShift ==
  ASSUME NEW E, NEW O, NEW D, NEW E2, NEW O2, NEW D2, NEW enc,
         AllShifted(E, O, D, E2, O2, D2), Story(E, O, D, enc)
  PROVE  /\ Story(E2, O2, D2, enc)
         /\ 1 \in E \/ 1 \in D => E2 = {} /\ enc # "starting"
         /\ 1 \in O /\ D2 = {} => enc = "on"
         /\ D2 = {} /\ 1 \notin D => D = {}
         /\ E2 # {} => E # {}
<1>1. \A i \in E \cup O \cup D \cup E2 \cup O2 \cup D2 : i \in Int /\ 1 <= i
  BY DEF AllShifted, Shifted
<1>2. /\ \A i \in E2 : i + 1 \in E
      /\ \A i \in O2 : i + 1 \in O
      /\ \A i \in D2 : i + 1 \in D
  BY <1>1 DEF AllShifted, Shifted
<1>3. ASSUME NEW i \in D, i # 1 PROVE i - 1 \in D2
  <2>1. i - 1 \in Int /\ 1 <= i - 1 /\ (i - 1) + 1 = i
    BY <1>1, <1>3
  <2> QED BY <2>1 DEF AllShifted, Shifted
<1>4. O2 \subseteq E2
  <2> SUFFICES ASSUME NEW i \in O2 PROVE i \in E2
    OBVIOUS
  <2>1. i \in Int /\ 1 <= i /\ i + 1 \in E
    BY <1>1, <1>2 DEF Story
  <2> QED BY <2>1 DEF AllShifted, Shifted
<1>5. \A i \in E2, j \in D2 : i < j
  <2> SUFFICES ASSUME NEW i \in E2, NEW j \in D2 PROVE i < j
    OBVIOUS
  <2>1. i + 1 < j + 1
    BY <1>2 DEF Story
  <2> QED BY <1>1, <2>1
<1>6. \A i, j \in E2 : i = j
  <2> SUFFICES ASSUME NEW i \in E2, NEW j \in E2 PROVE i = j
    OBVIOUS
  <2>1. i + 1 = j + 1
    BY <1>2 DEF Story
  <2> QED BY <1>1, <2>1
<1>7. 1 \in E => E2 = {}
  <2> SUFFICES ASSUME 1 \in E, NEW i \in E2 PROVE FALSE
    OBVIOUS
  <2>1. i + 1 = 1
    BY <1>2 DEF Story
  <2> QED BY <1>1, <2>1
<1>8. 1 \in D => E = {}
  <2> SUFFICES ASSUME 1 \in D, NEW i \in E PROVE FALSE
    OBVIOUS
  <2>1. i < 1
    BY DEF Story
  <2> QED BY <1>1, <2>1
<1>9. E2 # {} => E # {}
  BY <1>2
<1>10. O2 # {} => O # {} /\ E # {}
  BY <1>2 DEF Story
<1>11. D2 = {} /\ 1 \notin D => D = {}
  BY <1>3
<1>12. enc = "starting" => E2 = {} /\ D2 = {}
  BY <1>2 DEF Story
<1>13. D2 = {} /\ O2 # {} => enc = "on"
  BY <1>8, <1>10, <1>11 DEF Story
<1>14. 1 \in O /\ D2 = {} => enc = "on"
  <2>1. 1 \in O => 1 \in E
    BY DEF Story
  <2>2. 1 \in O /\ D2 = {} => D = {}
    BY <1>8, <1>11, <2>1
  <2> QED BY <2>2 DEF Story
<1>15. 1 \in E \/ 1 \in D => enc # "starting"
  BY DEF Story
<1>16. Story(E2, O2, D2, enc)
  BY <1>4, <1>5, <1>6, <1>12, <1>13 DEF Story
<1> QED BY <1>7, <1>8, <1>9, <1>11, <1>14, <1>15, <1>16

LEMMA StoryGrows ==
  ASSUME NEW E, NEW O, NEW D, NEW enc, NEW n \in Int,
         \A i \in E \cup D : i \in Int /\ i < n, Story(E, O, D, enc)
  PROVE  /\ E = {} => Story(E, O, D, "starting") \/ D # {}
         /\ D # {} \/ O = {} => Story(E, O, D, "off")
         /\ Story(E, O, D \cup {n}, "off")
         /\ enc = "starting" => /\ Story(E \cup {n}, O \cup {n}, D, "on")
                                /\ Story(E \cup {n}, O, D, "off")
<1>1. E = {} => Story(E, O, D, "starting") \/ D # {}
  BY DEF Story
<1>2. D # {} \/ O = {} => Story(E, O, D, "off")
  BY DEF Story
<1>3. Story(E, O, D \cup {n}, "off")
  BY DEF Story
<1>4. ASSUME enc = "starting"
      PROVE  /\ Story(E \cup {n}, O \cup {n}, D, "on")
             /\ Story(E \cup {n}, O, D, "off")
  <2>1. E = {} /\ D = {} /\ O = {}
    BY <1>4 DEF Story
  <2> QED BY <2>1 DEF Story
<1> QED BY <1>1, <1>2, <1>3, <1>4

\* What a step of the controller does to the encryption of a link.
EncryptionStep(h) ==
  LET on == links[h].enc
      next == links'[h].enc
      same == Encs(h)' = Encs(h) /\ Oks(h)' = Oks(h)
  IN  \/ same /\ Downs(h)' = Downs(h) /\ next = on
      \/ /\ same /\ Downs(h)' = Downs(h)
         /\ chipCmd # NoCommand /\ chipCmd.op = "LE_START_ENCRYPTION" /\ chipCmd.arg = h
         /\ links[h].up /\ next = "starting" /\ chipCmd' = NoCommand
      \/ same /\ Downs(h)' = Downs(h) /\ on = "off" /\ next \notin {"on", "starting"}
      \/ same /\ Downs(h)' = Downs(h) /\ ~links[h].up /\ next = "off"
      \/ same /\ Downs(h)' = Downs(h) \cup {Next1} /\ next = "off"
      \/ /\ \E ok \in BOOLEAN :
              /\ Oks(h)' = IF ok THEN Oks(h) \cup {Next1} ELSE Oks(h)
              /\ next = IF ok THEN "on" ELSE "off"
         /\ Encs(h)' = Encs(h) \cup {Next1} /\ Downs(h)' = Downs(h) /\ on = "starting"

LEMMA OksStep ==
  ASSUME LinkTypes, NEW es \in Seq(EventRecord), Queue(es), NEW h
  PROVE  /\ Encs(h)' = Encs(h) => Oks(h)' = Oks(h)
         /\ \A i \in Replies' : i > Len(events) \/ (i \in Replies /\ events'[i] = events[i])
<1>1. /\ events' \in Seq(EventRecord)
      /\ Len(events') = Len(events) + Len(es)
      /\ \A i \in 1..Len(events) : events'[i] = events[i]
  BY QueueTypes
<1>2. \A i \in Encs(h) : i \in 1..Len(events)
  BY DEF Encs, Positions
<1>3. Encs(h)' = Encs(h) => Oks(h)' = Oks(h)
  BY <1>1, <1>2 DEF Oks
<1>4. \A i \in Replies' : i > Len(events) \/ (i \in Replies /\ events'[i] = events[i])
  <2> SUFFICES ASSUME NEW i \in Replies', ~(i > Len(events))
               PROVE  i \in Replies /\ events'[i] = events[i]
    OBVIOUS
  <2>1. Len(events) \in Nat /\ Len(events') \in Nat
    BY <1>1, LenProperties DEF LinkTypes
  <2>2. i \in 1..Len(events') /\ events'[i] \in AnswerRecord
    BY DEF Replies
  <2>3. i \in 1..Len(events)
    BY <2>1, <2>2
  <2> QED BY <1>1, <2>2, <2>3 DEF Replies
<1> QED BY <1>3, <1>4

LEMMA OksPut ==
  ASSUME LinkTypes, NEW e \in EventRecord, Queue(<<e>>), NEW h
  PROVE  /\ Encs(h)' = IF e.kind = "encrypted" /\ e.handle = h
                         THEN Encs(h) \cup {Next1} ELSE Encs(h)
         /\ Oks(h)' = IF e.kind = "encrypted" /\ e.handle = h /\ e.ok
                        THEN Oks(h) \cup {Next1} ELSE Oks(h)
<1> DEFINE es == <<e>>
<1>1. es \in Seq(EventRecord) /\ Len(es) = 1 /\ es[1] = e /\ Queue(es)
  OBVIOUS
<1> HIDE DEF es
<1>2. /\ \A i \in 1..Len(events) : events'[i] = events[i]
      /\ events'[Next1] = e
  <2>1. 1 \in 1..Len(es)
    BY <1>1
  <2> QED BY <1>1, <2>1, QueueTypes DEF Next1
<1>3. Encs(h)' = IF e.kind = "encrypted" /\ e.handle = h
                   THEN Encs(h) \cup {Next1} ELSE Encs(h)
  BY PutOne DEF Encs, Next1
<1>4. \A i \in Encs(h) : i \in 1..Len(events)
  BY DEF Encs, Positions
<1> QED BY <1>2, <1>3, <1>4 DEF Oks

LEMMA ExecuteEncryption ==
  ASSUME LinkTypes, Execute, NEW h \in Handles
  PROVE  EncryptionStep(h)
<1>1. PICK es \in Seq(EventRecord) : Answering(es)
  BY ExecuteAnswers
<1>2. Encs(h)' = Encs(h) /\ Downs(h)' = Downs(h)
  BY ExecuteQuiet DEF Encs, Downs
<1>3. Oks(h)' = Oks(h)
  BY <1>1, <1>2, OksStep DEF Answering
<1>4. \/ links'[h].enc = links[h].enc
      \/ ExecuteStartEncryption /\ chipCmd.arg = h /\ links[h].up /\ links'[h].enc = "starting"
  BY ExecuteLinks
<1>5. ExecuteStartEncryption => chipCmd.op = "LE_START_ENCRYPTION" /\ chipCmd # NoCommand
  BY DEF ExecuteStartEncryption, NoCommand, NoOpcode
<1>6. chipCmd' = NoCommand
  BY DEF Execute
<1> QED BY <1>2, <1>3, <1>4, <1>5, <1>6 DEF EncryptionStep

LEMMA QuietReplies ==
  ASSUME LinkTypes, NEW e \in EventRecord \ AnswerRecord, Queue(<<e>>)
  PROVE  \A i \in Replies' : i \in Replies /\ events'[i] = events[i]
<1> DEFINE es == <<e>>
<1>1. es \in Seq(EventRecord) /\ Len(es) = 1 /\ es[1] = e /\ Queue(es)
  OBVIOUS
<1> HIDE DEF es
<1>2. /\ Len(events') = Len(events) + 1 /\ events'[Len(events) + 1] = e
      /\ Len(events) \in Nat
  <2>1. 1 \in 1..Len(es)
    BY <1>1
  <2> QED BY <1>1, <2>1, QueueTypes, LenProperties DEF LinkTypes
<1>3. \A i \in Replies' : i > Len(events) \/ (i \in Replies /\ events'[i] = events[i])
  BY <1>1, OksStep
<1>4. \A i \in Replies' : ~(i > Len(events))
  <2> SUFFICES ASSUME NEW i \in Replies', i > Len(events) PROVE FALSE
    OBVIOUS
  <2>1. i \in 1..Len(events') /\ events'[i] \in AnswerRecord
    BY DEF Replies
  <2>2. i = Len(events) + 1
    BY <1>2, <2>1
  <2> QED BY <1>2, <2>1, <2>2
<1> QED BY <1>3, <1>4

LEMMA AirEncryption ==
  ASSUME LinkTypes, Air, NEW h \in Handles
  PROVE  EncryptionStep(h) /\ \A i \in Replies' : i \in Replies /\ events'[i] = events[i]
<1>1. ASSUME NEW e \in EventRecord \ AnswerRecord, Queue(<<e>>)
      PROVE  /\ Encs(h)' = IF e.kind = "encrypted" /\ e.handle = h
                             THEN Encs(h) \cup {Next1} ELSE Encs(h)
             /\ Oks(h)' = IF e.kind = "encrypted" /\ e.handle = h /\ e.ok
                            THEN Oks(h) \cup {Next1} ELSE Oks(h)
             /\ Downs(h)' = IF e.kind = "disconnected" /\ e.handle = h
                              THEN Downs(h) \cup {Next1} ELSE Downs(h)
             /\ \A i \in Replies' : i \in Replies /\ events'[i] = events[i]
  <2>1. /\ Encs(h)' = IF e.kind = "encrypted" /\ e.handle = h
                        THEN Encs(h) \cup {Next1} ELSE Encs(h)
        /\ Oks(h)' = IF e.kind = "encrypted" /\ e.handle = h /\ e.ok
                       THEN Oks(h) \cup {Next1} ELSE Oks(h)
    BY <1>1, OksPut
  <2>2. Downs(h)' = IF e.kind = "disconnected" /\ e.handle = h
                      THEN Downs(h) \cup {Next1} ELSE Downs(h)
    BY <1>1, PutOne DEF Downs, Next1
  <2>3. \A i \in Replies' : i \in Replies /\ events'[i] = events[i]
    BY <1>1, QuietReplies
  <2> QED BY <2>1, <2>2, <2>3
<1>2. ASSUME UNCHANGED links, Queue(<<NotConnected>>)
      PROVE  EncryptionStep(h) /\ \A i \in Replies' : i \in Replies /\ events'[i] = events[i]
  <2>1. /\ NotConnected \in EventRecord \ AnswerRecord
        /\ NotConnected.kind \notin {"encrypted", "disconnected"}
    BY EventsTyped DEF NotConnected
  <2> QED BY <1>1, <1>2, <2>1 DEF EncryptionStep
<1>3. ASSUME NEW g \in Handles, NEW e \in EventRecord, AirEffect(g, e)
      PROVE  EncryptionStep(h) /\ \A i \in Replies' : i \in Replies /\ events'[i] = events[i]
  <2>1. e \in EventRecord \ AnswerRecord /\ Queue(<<e>>)
    BY <1>3 DEF AirEffect
  <2>2. /\ Encs(h)' = IF e.kind = "encrypted" /\ e.handle = h
                        THEN Encs(h) \cup {Next1} ELSE Encs(h)
        /\ Oks(h)' = IF e.kind = "encrypted" /\ e.handle = h /\ e.ok
                       THEN Oks(h) \cup {Next1} ELSE Oks(h)
        /\ Downs(h)' = IF e.kind = "disconnected" /\ e.handle = h
                         THEN Downs(h) \cup {Next1} ELSE Downs(h)
        /\ \A i \in Replies' : i \in Replies /\ events'[i] = events[i]
    BY <1>1, <2>1
  <2>3. CASE e = NotConnected /\ UNCHANGED links
    <3>1. e.kind \notin {"encrypted", "disconnected"}
      BY <2>3 DEF NotConnected
    <3> QED BY <2>2, <2>3, <3>1 DEF EncryptionStep
  <2>4. ASSUME NEW role \in {0, 1}, NEW peer \in Peers, e = Connected(g, role, peer),
               links' = [links EXCEPT ![g] = LinkUp(role)], ~links[g].up
        PROVE  EncryptionStep(h)
    <3>1. e.kind \notin {"encrypted", "disconnected"}
      BY <2>4 DEF Connected
    <3>2. links'[g].enc = "off" /\ \A k \in Handles : k # g => links'[k] = links[k]
      BY <2>4, LinkChange
    <3> QED BY <2>2, <2>4, <3>1, <3>2 DEF EncryptionStep
  <2>5. CASE e = Disconnected(g) /\ links' = [links EXCEPT ![g] = NoLink]
    <3>1. e.kind = "disconnected" /\ e.handle = g
      BY <2>5 DEF Disconnected
    <3>2. links'[g].enc = "off" /\ \A k \in Handles : k # g => links'[k] = links[k]
      BY <2>5, LinkChange
    <3> QED BY <2>2, <3>1, <3>2 DEF EncryptionStep
  <2>6. CASE e = LtkRequested(g) /\ links[g].enc = "off"
             /\ links' = [links EXCEPT ![g].enc = "waiting for key"]
    <3>1. e.kind = "ltk"
      BY <2>6 DEF LtkRequested
    <3>2. links[g].enc = "off"
      BY <2>6
    <3>3. \A k \in Handles : k # g => links'[k].enc = links[k].enc
      BY <2>6, LinkChange
    <3>4. links'[g].enc = "waiting for key"
      BY <2>6, LinkChange
    <3>5. links'[g].enc \notin {"on", "starting"}
      BY <3>4
    <3> QED BY <2>2, <3>1, <3>2, <3>3, <3>5 DEF EncryptionStep
  <2>7. ASSUME NEW ok \in BOOLEAN, e = Encrypted(g, ok), links[g].enc = "starting",
               links' = [links EXCEPT ![g].enc = IF ok THEN "on" ELSE "off"]
        PROVE  EncryptionStep(h)
    <3>1. e.kind = "encrypted" /\ e.handle = g /\ e.ok = ok
      BY <2>7 DEF Encrypted
    <3>2. /\ links'[g].enc = IF ok THEN "on" ELSE "off"
          /\ \A k \in Handles : k # g => links'[k].enc = links[k].enc
      BY <2>7, LinkChange
    <3>3. CASE g = h
      BY <2>2, <2>7, <3>1, <3>2, <3>3 DEF EncryptionStep
    <3>4. CASE g # h
      BY <2>2, <3>1, <3>2, <3>4 DEF EncryptionStep
    <3> QED BY <3>3, <3>4
  <2>8. EncryptionStep(h)
    BY <1>3, <2>3, <2>4, <2>5, <2>6, <2>7 DEF AirEffect
  <2> QED BY <2>2, <2>8
<1> QED BY <1>2, <1>3, AirEffects

\* A link whose encryption the runtime started and lost sight of: the runtime
\* has failed, or the news of the end of the link comes before the answer, and
\* takes with it the entry a valid record needs.  Nothing is reported about
\* the link any more.
Doomed(h) ==
  \/ Owner(h) /\ state = "FAILED"
  \/ Owner(h) /\ \E j \in Downs(h) : \A k \in Replies : j < k
  \/ /\ state = "FAILED" /\ ~disc.pending /\ pendingOpcode # "DISCONNECT"
     /\ ~HandlePresent(h)
Safe(h) == ControllerValid /\ ~Doomed(h)

Starting(h) ==
  chipCmd # NoCommand /\ chipCmd.op = "LE_START_ENCRYPTION" /\ chipCmd.arg = h

StoryInv ==
  \A h \in Handles : Safe(h) =>
    /\ Story(Encs(h), Oks(h), Downs(h), links[h].enc)
    /\ Encs(h) # {} \/ links[h].enc = "starting" => Awaits(h)
    /\ Downs(h) = {} /\ Reported(h) => links[h].enc = "on"

StartInv ==
  \A h \in Handles : Starting(h) =>
    /\ ControllerValid =>
         /\ state \in {"ENCRYPTION_START_PENDING", "FAILED"} /\ ~disc.pending
         /\ HandlePresent(h) \/ state = "ENCRYPTION_START_PENDING" => Owner(h)
    /\ Safe(h) => Encs(h) = {} /\ links[h].enc # "starting"

\* A start is refused only for a link that has gone.
RefusedInv ==
  ControllerValid /\ state = "ENCRYPTION_START_PENDING" =>
    \A k \in Replies, h \in Handles :
      ~events[k].ok /\ Owner(h) => \E j \in Downs(h) : j < k

EncryptionInv == StoryInv /\ StartInv /\ RefusedInv

LEMMA OwnerAwaits ==
  ASSUME ControllerValid, NEW h, Owner(h)
  PROVE  Awaits(h) /\ ~Reported(h) /\ HandlePresent(h)
<1>1. PICK s \in Slots : conns[s].present /\ conns[s].handle = h /\ conns[s].encryptionCommand
  BY DEF Owner
<1>2. ConnectionValid(conns[s])
  BY DEF ControllerValid, TableValid
<1>3. conns[s].encryptionPending /\ ~conns[s].encrypted
  BY <1>1, <1>2 DEF ConnectionValid
<1>4. \A t \in Slots : conns[t].present /\ conns[t].handle = h => t = s
  BY <1>1 DEF ControllerValid, TableValid, EntriesDistinct, Present
<1> QED BY <1>1, <1>3, <1>4 DEF Awaits, Reported, HandlePresent, Present

LEMMA OwnerUnique ==
  ASSUME HostInv, NEW g, NEW h, Owner(g), Owner(h)
  PROVE  g = h
<1>1. PICK s \in Slots : conns[s].handle = g /\ conns[s].encryptionCommand
  BY DEF Owner
<1>2. PICK t \in Slots : conns[t].handle = h /\ conns[t].encryptionCommand
  BY DEF Owner
<1>3. s = t
  BY <1>1, <1>2 DEF HostInv
<1> QED BY <1>1, <1>2, <1>3

LEMMA FlagsPresent ==
  ASSUME NEW h
  PROVE  Awaits(h) \/ Reported(h) \/ Owner(h) => HandlePresent(h)
BY DEF Awaits, Reported, Owner, HandlePresent, Present

\* While the start is on its way to the controller the link is still owned and
\* up as far as the runtime will ever know.
LEMMA SafeStarting ==
  ASSUME InFlight, StartInv, NEW h \in Handles, Starting(h), Safe(h)
  PROVE  /\ Owner(h) /\ state = "ENCRYPTION_START_PENDING"
         /\ Downs(h) = {} /\ Encs(h) = {} /\ links[h].enc # "starting"
<1>1. Replies = {} /\ pendingOpcode = "LE_START_ENCRYPTION"
  BY DEF InFlight, Starting, Replies
<1>2. /\ state \in {"ENCRYPTION_START_PENDING", "FAILED"} /\ ~disc.pending
      /\ HandlePresent(h) \/ state = "ENCRYPTION_START_PENDING" => Owner(h)
      /\ Encs(h) = {} /\ links[h].enc # "starting"
  BY DEF StartInv, Safe
<1>3. state # "FAILED"
  BY <1>1, <1>2 DEF Safe, Doomed
<1>4. Downs(h) = {}
  BY <1>1, <1>2, <1>3 DEF Safe, Doomed
<1> QED BY <1>2, <1>3, <1>4

LEMMA StoryChip ==
  ASSUME IInv, LinkTypes, InFlight, OrphanInv, EncryptionInv, NEW h \in Handles,
         EncryptionStep(h), Safe(h),
         Awaits(h)' <=> Awaits(h), Reported(h)' <=> Reported(h)
  PROVE  /\ Story(Encs(h), Oks(h), Downs(h), links[h].enc)'
         /\ Encs(h)' # {} \/ links'[h].enc = "starting" => Awaits(h)'
         /\ Downs(h)' = {} /\ Reported(h)' => links'[h].enc = "on"
<1> DEFINE E == Encs(h)
           O == Oks(h)
           D == Downs(h)
           on == links[h].enc
           next == links'[h].enc
<1>1. /\ Story(E, O, D, on)
      /\ E # {} \/ on = "starting" => Awaits(h)
      /\ D = {} /\ Reported(h) => on = "on"
  BY DEF EncryptionInv, StoryInv
<1>2. Next1 \in Int /\ \A i \in E \cup D : i \in Int /\ i < Next1
  <2>1. Len(events) \in Nat
    BY LenProperties DEF LinkTypes
  <2> QED BY <2>1, Positive DEF Encs, Downs, Next1
<1>3. ControllerValid
  BY DEF Safe
<1>4. ~links[h].up /\ HandlePresent(h) => D # {}
  <2>1. HandlePresent(h) => Backed(Ups(h), Downs(h), links[h].up)
    BY <1>3 DEF OrphanInv, TableBacked
  <2> QED BY <2>1 DEF Backed
<1>5. \/ Encs(h)' = E /\ Oks(h)' = O /\ Downs(h)' = D /\ next = on
      \/ Encs(h)' = E /\ Oks(h)' = O /\ Downs(h)' = D /\ Starting(h) /\ next = "starting"
      \/ /\ Encs(h)' = E /\ Oks(h)' = O /\ Downs(h)' = D
         /\ on = "off" /\ next \notin {"on", "starting"}
      \/ /\ Encs(h)' = E /\ Oks(h)' = O /\ Downs(h)' = D
         /\ ~links[h].up /\ next = "off"
      \/ Encs(h)' = E /\ Oks(h)' = O /\ Downs(h)' = D \cup {Next1} /\ next = "off"
      \/ /\ Encs(h)' = E \cup {Next1} /\ Downs(h)' = D /\ on = "starting"
         /\ \/ Oks(h)' = O \cup {Next1} /\ next = "on"
            \/ Oks(h)' = O /\ next = "off"
  BY DEF EncryptionStep, Starting
<1>6. Starting(h) => /\ E = {} /\ D = {} /\ Awaits(h) /\ ~Reported(h)
  BY <1>3, SafeStarting, OwnerAwaits DEF EncryptionInv
<1>7. Awaits(h) \/ Reported(h) => HandlePresent(h)
  BY FlagsPresent
<1> HIDE DEF E, O, D, on, next
<1>8. CASE Encs(h)' = E /\ Oks(h)' = O /\ Downs(h)' = D /\ next = on
  BY <1>1, <1>8 DEF next
<1>9. CASE Encs(h)' = E /\ Oks(h)' = O /\ Downs(h)' = D /\ Starting(h) /\ next = "starting"
  <2>1. Story(E, O, D, "starting")
    BY <1>1, <1>6, <1>9 DEF Story
  <2> QED BY <1>6, <1>9, <2>1 DEF next
<1>10. CASE /\ Encs(h)' = E /\ Oks(h)' = O /\ Downs(h)' = D
            /\ on = "off" /\ next \notin {"on", "starting"}
  <2>1. Story(E, O, D, next)
    BY <1>1, <1>10 DEF Story
  <2> QED BY <1>1, <1>10, <2>1 DEF next
<1>11. CASE /\ Encs(h)' = E /\ Oks(h)' = O /\ Downs(h)' = D
            /\ ~links[h].up /\ next = "off"
  <2>1. D # {} \/ O = {}
    BY <1>1, <1>4, <1>7, <1>11 DEF Story
  <2>2. Story(E, O, D, "off")
    BY <1>1, <1>2, <2>1, StoryGrows
  <2> QED BY <1>1, <1>4, <1>7, <1>11, <2>2 DEF next
<1>12. CASE Encs(h)' = E /\ Oks(h)' = O /\ Downs(h)' = D \cup {Next1} /\ next = "off"
  <2>1. Story(E, O, D \cup {Next1}, "off")
    BY <1>1, <1>2, StoryGrows
  <2> QED BY <1>1, <1>12, <2>1 DEF next
<1>13. CASE /\ Encs(h)' = E \cup {Next1} /\ Downs(h)' = D /\ on = "starting"
            /\ \/ Oks(h)' = O \cup {Next1} /\ next = "on"
               \/ Oks(h)' = O /\ next = "off"
  <2>1. /\ Story(E \cup {Next1}, O \cup {Next1}, D, "on")
        /\ Story(E \cup {Next1}, O, D, "off")
    BY <1>1, <1>2, <1>13, StoryGrows
  <2>2. Awaits(h) /\ (D = {} => ~Reported(h))
    BY <1>1, <1>13
  <2> QED BY <1>13, <2>1, <2>2 DEF next
<1> QED BY <1>5, <1>8, <1>9, <1>10, <1>11, <1>12, <1>13

LEMMA EncryptionChip ==
  ASSUME IInv, LinkTypes, LinkTypes', InFlight, OrphanInv, EncryptionInv, Execute \/ Air,
         failedOnce' = (failedOnce \/ state' = "FAILED")
  PROVE  EncryptionInv'
<1>1. UNCHANGED <<state, pendingOpcode, disc, conns>>
  BY DEF Execute, Air, vars, cmdVars, linkVars, discVars, connVars
<1>2. \A h : /\ Owner(h)' <=> Owner(h)
             /\ Awaits(h)' <=> Awaits(h)
             /\ Reported(h)' <=> Reported(h)
             /\ HandlePresent(h)' <=> HandlePresent(h)
  BY <1>1 DEF Owner, Awaits, Reported, HandlePresent, Present
<1>3. ControllerValid' => ControllerValid
  BY StaysInvalid DEF LinkNext
<1>4. \A i \in Replies' : \/ i \in Replies /\ events'[i] = events[i]
                          \/ Execute /\ i > Len(events)
  <2>1. CASE Execute
    <3>1. PICK es \in Seq(EventRecord) : Answering(es)
      BY <2>1, ExecuteAnswers
    <3>2. Queue(es)
      BY <3>1 DEF Answering
    <3> QED BY <2>1, <3>2, OksStep
  <2>2. ASSUME Air, NEW h \in Handles
        PROVE  \A i \in Replies' : i \in Replies /\ events'[i] = events[i]
    BY <2>2, AirEncryption
  <2>3. ASSUME Air, Handles = {}
        PROVE  \A i \in Replies' : i \in Replies /\ events'[i] = events[i]
    <3>1. Queue(<<NotConnected>>) /\ NotConnected \in EventRecord \ AnswerRecord
      BY <2>3, AirEffects, EventsTyped
    <3> QED BY <3>1, QuietReplies
  <2> QED BY <2>1, <2>2, <2>3
<1>5. \A h \in Handles : EncryptionStep(h)
  BY ExecuteEncryption, AirEncryption
<1>6. Len(events) \in Nat /\ \A h \in Handles : \A j \in Downs(h) : j \in Int /\ j <= Len(events)
  BY Positive, LenProperties DEF LinkTypes, Downs
<1>7. \A h \in Handles : Downs(h) \subseteq Downs(h)'
  BY ChipReports DEF Kept, CameUp, WentDown
<1>8. ASSUME NEW h \in Handles, Safe(h)' PROVE Safe(h)
  <2>1. ControllerValid
    BY <1>3, <1>8 DEF Safe
  <2>2. ASSUME Owner(h), NEW j \in Downs(h), \A k \in Replies : j < k
        PROVE  FALSE
    <3>1. \A k \in Replies' : k \in Int
      BY DEF Replies
    <3>2. \A k \in Replies' : j < k
      BY <1>4, <1>6, <2>2, <3>1
    <3>3. j \in Downs(h)'
      BY <1>7
    <3>4. Doomed(h)'
      BY <1>2, <2>2, <3>2, <3>3 DEF Doomed
    <3> QED BY <1>8, <3>4 DEF Safe
  <2>3. ~Doomed(h)
    BY <1>1, <1>2, <1>8, <2>2 DEF Doomed, Safe
  <2> QED BY <2>1, <2>3 DEF Safe
<1>9. StoryInv'
  BY <1>2, <1>5, <1>8, StoryChip DEF StoryInv
<1>10. StartInv'
  <2> SUFFICES ASSUME NEW h \in Handles, Starting(h)'
               PROVE  /\ ControllerValid' =>
                           /\ state' \in {"ENCRYPTION_START_PENDING", "FAILED"} /\ ~disc.pending'
                           /\ HandlePresent(h)' \/ state' = "ENCRYPTION_START_PENDING" => Owner(h)'
                      /\ Safe(h)' => Encs(h)' = {} /\ links'[h].enc # "starting"
    BY DEF StartInv
  <2>1. Air /\ chipCmd' = chipCmd /\ chipCmd' # NoCommand
    BY DEF Starting, Execute, Air
  <2>2. Starting(h)
    BY <2>1 DEF Starting
  <2>3. ControllerValid' =>
          /\ state' \in {"ENCRYPTION_START_PENDING", "FAILED"} /\ ~disc.pending'
          /\ HandlePresent(h)' \/ state' = "ENCRYPTION_START_PENDING" => Owner(h)'
    BY <1>1, <1>2, <1>3, <2>2 DEF EncryptionInv, StartInv
  <2>4. ASSUME Safe(h)' PROVE Encs(h)' = {} /\ links'[h].enc # "starting"
    <3>1. Encs(h) = {} /\ links[h].enc # "starting"
      BY <1>8, <2>2, <2>4 DEF EncryptionInv, StartInv
    <3> QED BY <1>5, <2>1, <3>1 DEF EncryptionStep
  <2> QED BY <2>3, <2>4
<1>11. RefusedInv'
  <2> SUFFICES ASSUME ControllerValid', state' = "ENCRYPTION_START_PENDING",
                      NEW k \in Replies', NEW h \in Handles, ~events'[k].ok, Owner(h)'
               PROVE  \E j \in Downs(h)' : j < k
    BY DEF RefusedInv
  <2>1. ControllerValid /\ state = "ENCRYPTION_START_PENDING" /\ Owner(h)
    BY <1>1, <1>2, <1>3
  <2>2. CASE k \in Replies /\ events'[k] = events[k]
    <3>1. \E j \in Downs(h) : j < k
      BY <2>1, <2>2 DEF EncryptionInv, RefusedInv
    <3> QED BY <1>7, <3>1
  <2>3. CASE Execute /\ k > Len(events)
    <3>1. chipCmd.op # NoOpcode
      BY <2>3 DEF Execute, ExecuteDisconnect, ExecuteCancel, ExecuteStartEncryption,
         ExecuteCreateConnection, ExecuteAdvertising, NoOpcode
    <3>2. chipCmd # NoCommand
      BY <3>1 DEF NoCommand
    <3>3. chipCmd.op = "LE_START_ENCRYPTION"
      BY <2>1, <3>2 DEF ControllerValid, SecurityCommandOwned, InFlight
    <3>4. chipCmd.arg \in Handles
      BY <3>2, <3>3, CommandTypes DEF LinkTypes, LinkCommands
    <3>5. Starting(chipCmd.arg)
      BY <3>2, <3>3 DEF Starting
    <3>6. Owner(chipCmd.arg)
      BY <2>1, <3>4, <3>5 DEF EncryptionInv, StartInv
    <3>7. chipCmd.arg = h
      BY <2>1, <3>6, OwnerUnique DEF OrphanInv
    <3>8. PICK es \in Seq(EventRecord) : Answering(es)
      BY <2>3, ExecuteAnswers
    <3>9. /\ Len(es) = 1 /\ es[1].ok = links[h].up /\ Len(events') = Len(events) + 1
          /\ events'[Len(events) + 1] = es[1]
      <4>1. Queue(es) /\ Len(es) = 1 /\ es[1].ok = links[h].up
        BY <3>3, <3>7, <3>8 DEF Answering
      <4>2. 1 \in 1..Len(es)
        BY <4>1
      <4> QED BY <4>1, <4>2, QueueTypes
    <3>10. k = Len(events) + 1
      BY <1>6, <2>3, <3>9 DEF Replies
    <3>11. ~links[h].up
      BY <3>9, <3>10
    <3>12. Backed(Ups(h), Downs(h), links[h].up)
      BY <2>1, FlagsPresent DEF OrphanInv, TableBacked
    <3>13. Downs(h) # {}
      BY <3>11, <3>12 DEF Backed
    <3>14. PICK j \in Downs(h) : TRUE
      BY <3>13
    <3>15. j < k
      BY <1>6, <3>10
    <3> QED BY <1>7, <3>15
  <2> QED BY <1>4, <2>2, <2>3
<1> QED BY <1>9, <1>10, <1>11 DEF EncryptionInv

LEMMA EncryptionHost ==
  ASSUME IInv, LinkTypes, InFlight, OrphanInv, EncryptionInv, HostCall
  PROVE  EncryptionInv'
<1>1. pendingOpcode = NoOpcode /\ HostEffect
  BY HostEffects DEF OrphanInv
<1>2. /\ chipCmd = NoCommand
      /\ \A i \in 1..Len(events) : events[i] \notin AnswerRecord
  BY <1>1, NothingInFlight
<1>3. ControllerValid /\ UNCHANGED <<events, links>>
  BY DEF HostCall
<1>4. \A h : /\ Encs(h)' = Encs(h) /\ Oks(h)' = Oks(h) /\ Downs(h)' = Downs(h)
  BY <1>3 DEF Encs, Oks, Downs, Positions
<1>5. Replies' = {}
  BY <1>2, <1>3 DEF Replies
<1>6. state \in {"READY", "CONNECTING"} /\ ~disc.pending
  BY <1>1 DEF HostEffect, DisconnectSent, StartSent, IInv, LinkInv
<1>7. \A h : Safe(h)
  BY <1>3, <1>6 DEF OrphanInv, HostInv, Owner, Doomed, Safe
<1>8. ASSUME NEW h
      PROVE  /\ Awaits(h) => Awaits(h)'
             /\ Reported(h)' => Reported(h)
  <2>1. CASE SameTable
    <3>1. \A s \in Slots : /\ conns'[s].present = conns[s].present
                           /\ conns'[s].handle = conns[s].handle
                           /\ conns'[s].encrypted = conns[s].encrypted
                           /\ conns'[s].encryptionPending = conns[s].encryptionPending
      BY <2>1 DEF SameTable, SameEntry
    <3> QED BY <3>1 DEF Awaits, Reported
  <2>2. ASSUME NEW g \in Handles, StartSent(g)
        PROVE  /\ Awaits(h) => Awaits(h)'
               /\ Reported(h)' => Reported(h)
    <3>1. PICK t \in Slots :
            /\ ~conns[t].encryptionPending /\ ~conns'[t].encrypted
            /\ \A s \in Slots : s # t => conns'[s] = conns[s]
      BY <2>2 DEF StartSent
    <3> QED BY <3>1 DEF Awaits, Reported
  <2> QED BY <1>1, <2>1, <2>2 DEF HostEffect, Moves, DisconnectSent
<1>9. StoryInv'
  BY <1>3, <1>4, <1>7, <1>8 DEF EncryptionInv, StoryInv
<1>10. StartInv'
  <2> SUFFICES ASSUME NEW h \in Handles, Starting(h)'
               PROVE  /\ state' = "ENCRYPTION_START_PENDING" /\ ~disc.pending' /\ Owner(h)'
                      /\ Encs(h)' = {} /\ links'[h].enc # "starting"
    BY DEF StartInv
  <2>1. chipCmd' = SentCommand'
    BY <1>2 DEF HostCall, Starting
  <2>2. pendingOpcode' = "LE_START_ENCRYPTION"
    BY <2>1 DEF SentCommand, Starting
  <2>3. PICK g \in Handles :
          StartSent(g) /\ SentCommand' = [op |-> "LE_START_ENCRYPTION", arg |-> g]
    BY <1>1, <2>2 DEF HostEffect, DisconnectSent, NoOpcode
  <2>4. g = h
    BY <2>1, <2>3 DEF Starting
  <2>5. PICK t \in Slots :
          /\ conns[t].present /\ conns[t].handle = h /\ ~conns[t].encryptionPending
          /\ conns'[t].present /\ conns'[t].handle = h /\ conns'[t].encryptionCommand
    BY <2>3, <2>4 DEF StartSent
  <2>6. ~Awaits(h)
    BY <1>3, <2>5 DEF ControllerValid, TableValid, EntriesDistinct, Present, Awaits
  <2>7. Encs(h) = {} /\ links[h].enc # "starting"
    BY <1>7, <2>6 DEF EncryptionInv, StoryInv
  <2>8. Owner(h)'
    BY <2>5 DEF Owner
  <2> QED BY <1>3, <1>4, <1>6, <2>3, <2>7, <2>8 DEF StartSent, SameDisconnect
<1>11. RefusedInv'
  BY <1>5 DEF RefusedInv
<1> QED BY <1>9, <1>10, <1>11 DEF EncryptionInv

\* What an event does to the flags of a link and to the state.
LEMMA FlagEffects ==
  ASSUME NEW e \in EventRecord, HandleEffect(e), NEW h
  PROVE  LET enc == e.kind = "encrypted" /\ e.handle = h
             down == e.kind = "disconnected" /\ e.handle = h
             answer == e.kind \in {"complete", "status"} /\ state = "ENCRYPTION_START_PENDING"
         IN  /\ Owner(h)' => Owner(h)
             /\ Owner(h) => Owner(h)' \/ down \/ answer
             /\ Awaits(h) => Awaits(h)' \/ enc \/ down \/ (answer /\ ~e.ok /\ Owner(h))
             /\ Reported(h)' => Reported(h) \/ (enc /\ e.ok)
<1>1. CASE SameTable
  <2>1. \A s \in Slots : /\ conns'[s].present = conns[s].present
                         /\ conns'[s].handle = conns[s].handle
                         /\ conns'[s].encrypted = conns[s].encrypted
                         /\ conns'[s].encryptionPending = conns[s].encryptionPending
                         /\ conns'[s].encryptionCommand = conns[s].encryptionCommand
    BY <1>1 DEF SameTable, SameEntry
  <2> QED BY <2>1 DEF Owner, Awaits, Reported
<1>2. CASE Entered(e.handle)
  <2>1. PICK t \in Slots :
          /\ ~conns[t].present
          /\ ~conns'[t].encrypted /\ ~conns'[t].encryptionPending
          /\ ~conns'[t].encryptionCommand
          /\ \A s \in Slots : s # t => conns'[s] = conns[s]
    BY <1>2 DEF Entered
  <2> QED BY <2>1 DEF Owner, Awaits, Reported
<1>3. CASE Left(e.handle) /\ e.kind = "disconnected"
  <2>1. /\ ~NoConnection.present
        /\ \A s \in Slots : conns'[s] = IF conns[s].present /\ conns[s].handle = e.handle
                                          THEN NoConnection ELSE conns[s]
    BY <1>3 DEF Left, NoConnection
  <2>2. /\ \A s \in Slots : conns'[s].present => conns'[s] = conns[s]
        /\ \A s \in Slots : conns[s].present /\ conns[s].handle # e.handle => conns'[s] = conns[s]
    BY <2>1
  <2> QED BY <1>3, <2>2 DEF Owner, Awaits, Reported
<1>4. CASE Changed(e.handle, e.ok) /\ e.kind = "encrypted"
  <2>1. PICK t \in Slots :
          /\ ~conns[t].encryptionCommand /\ ~conns'[t].encryptionCommand
          /\ conns[t].handle = e.handle /\ conns'[t].handle = e.handle
          /\ conns'[t].encrypted = e.ok /\ ~conns'[t].encryptionPending
          /\ \A s \in Slots : s # t => conns'[s] = conns[s]
    BY <1>4 DEF Changed
  <2> QED BY <1>4, <2>1 DEF Owner, Awaits, Reported
<1>5. CASE StartAnswered(e.ok) /\ e.kind \in {"complete", "status"}
  <2>1. state = "ENCRYPTION_START_PENDING"
    BY <1>5 DEF StartAnswered
  <2>2. \A s \in Slots :
          /\ conns'[s].present = conns[s].present
          /\ conns'[s].handle = conns[s].handle
          /\ ~conns'[s].encryptionCommand
          /\ conns'[s].encrypted => conns[s].encrypted
          /\ \/ conns'[s].encryptionPending = conns[s].encryptionPending
             \/ ~e.ok /\ conns[s].encryptionCommand
    BY <1>5 DEF StartAnswered
  <2> QED BY <1>5, <2>1, <2>2 DEF Owner, Awaits, Reported
<1> QED BY <1>1, <1>2, <1>3, <1>4, <1>5 DEF HandleEffect, Moves, TornDown,
        DisconnectRefused, DisconnectTaken

LEMMA StateEffects ==
  ASSUME NEW e \in EventRecord, HandleEffect(e), HostInv, NEW h
  PROVE  LET quiet == ~disc.pending /\ pendingOpcode # "DISCONNECT"
         IN  /\ state' = "ENCRYPTION_START_PENDING" => state = "ENCRYPTION_START_PENDING"
             /\ pendingOpcode' = "LE_START_ENCRYPTION" => pendingOpcode = "LE_START_ENCRYPTION"
             /\ quiet /\ state = "FAILED" => quiet' /\ state' = "FAILED"
             /\ /\ quiet /\ state = "ENCRYPTION_START_PENDING"
                /\ e.kind \notin {"complete", "status"}
                => quiet' /\ state' \in {"ENCRYPTION_START_PENDING", "FAILED"}
             /\ quiet /\ e.kind = "disconnected" => state' = state
             /\ HandlePresent(h)' =>
                  HandlePresent(h) \/ state \notin {"FAILED", "ENCRYPTION_START_PENDING"}
<1> USE DEF HostInv, SameDisconnect, NoOpcode
<1>0. NoDisconnect.pending = FALSE
  BY DEF NoDisconnect
<1>1. SameTable => (HandlePresent(h)' <=> HandlePresent(h))
  BY SameTablePresence
<1>2. CASE Moves /\ e.kind \notin {"connected", "disconnected", "encrypted"}
  BY <1>1, <1>2 DEF Moves, OrdinaryStates
<1>3. CASE /\ SameTable /\ SameDisconnect /\ state' = "FAILED" /\ e.kind = "connected"
           /\ pendingOpcode' = pendingOpcode
  BY <1>1, <1>3
<1>4. CASE TornDown(e.handle) /\ e.kind = "connected"
  BY <1>1, <1>4 DEF TornDown
<1>5. CASE Entered(e.handle) /\ e.kind = "connected"
  BY <1>5 DEF Entered, OrdinaryStates
<1>6. CASE Left(e.handle) /\ e.kind = "disconnected"
  <2>1. HandlePresent(h)' => HandlePresent(h)
    <3>1. \A s \in Slots : conns'[s].present => conns'[s] = conns[s]
      BY <1>6 DEF Left, NoConnection
    <3> QED BY <3>1 DEF HandlePresent, Present
  <2> QED BY <1>0, <1>6, <2>1 DEF Left
<1>7. CASE Changed(e.handle, e.ok) /\ e.kind = "encrypted"
  <2>1. HandlePresent(h)' => HandlePresent(h)
    BY <1>7 DEF Changed, HandlePresent, Present
  <2> QED BY <1>7, <2>1 DEF Changed
<1>8. CASE StartAnswered(e.ok) /\ e.kind \in {"complete", "status"}
  <2>1. HandlePresent(h)' => HandlePresent(h)
    BY <1>8 DEF StartAnswered, HandlePresent, Present
  <2> QED BY <1>8, <2>1 DEF StartAnswered
<1>9. CASE DisconnectRefused /\ e.kind \in {"complete", "status"}
  BY <1>0, <1>1, <1>9 DEF DisconnectRefused
<1>10. CASE DisconnectTaken /\ e.kind \in {"complete", "status"}
  BY <1>1, <1>10 DEF DisconnectTaken
<1> QED BY <1>2, <1>3, <1>4, <1>5, <1>6, <1>7, <1>8, <1>9, <1>10 DEF HandleEffect

EventEffect(h, e) ==
  LET enc == e.kind = "encrypted" /\ e.handle = h
      down == e.kind = "disconnected" /\ e.handle = h
      reply == e \in AnswerRecord
      starts == state = "ENCRYPTION_START_PENDING"
      quiet == ~disc.pending /\ pendingOpcode # "DISCONNECT"
  IN  /\ Owner(h)' => Owner(h)
      /\ Owner(h) => Owner(h)' \/ down \/ (reply /\ starts)
      /\ Awaits(h) => Awaits(h)' \/ enc \/ down \/ (reply /\ starts /\ ~e.ok /\ Owner(h))
      /\ Reported(h)' => Reported(h) \/ (enc /\ e.ok)
      /\ starts' => starts
      /\ pendingOpcode' = "LE_START_ENCRYPTION" => pendingOpcode = "LE_START_ENCRYPTION"
      /\ quiet /\ state = "FAILED" => quiet' /\ state' = "FAILED"
      /\ quiet /\ starts /\ ~reply => quiet' /\ (starts' \/ state' = "FAILED")
      /\ quiet /\ e.kind = "disconnected" => state' = state
      /\ HandlePresent(h)' => HandlePresent(h) \/ (state # "FAILED" /\ ~starts)
      /\ down => ~HandlePresent(h)'

LEMMA EventEffects ==
  ASSUME IInv, LinkTypes, OrphanInv, Deliver, ControllerValid, NEW h
  PROVE  EventEffect(h, Head(events))
<1> DEFINE e == Head(events)
<1>1. /\ events # <<>> /\ events' = Tail(events)
      /\ \/ \E r \in {"ok", "error"} : Handle(e, r)
         \/ Ignored(e) /\ UNCHANGED vars
  BY DeliverStep
<1>2. e \in EventRecord
  BY <1>1, Taken
<1> HIDE DEF e
<1>3. e \in AnswerRecord <=> e.kind \in {"complete", "status"}
  BY <1>2, EventTypes
<1>4. ASSUME NEW r \in {"ok", "error"}, Handle(e, r) PROVE EventEffect(h, e)
  <2>1. HandleEffect(e) /\ HostInv /\ Named
    BY <1>2, <1>4, HandleEffects DEF OrphanInv
  <2>2. e.kind = "disconnected" /\ e.handle = h => ~HandlePresent(h)'
    BY <1>2, <2>1, HandlePresence
  <2> QED BY <1>2, <1>3, <2>1, <2>2, FlagEffects, StateEffects DEF EventEffect
<1>5. ASSUME Ignored(e), UNCHANGED vars PROVE EventEffect(h, e)
  <2>1. UNCHANGED <<state, pendingOpcode, disc, conns>>
    BY <1>5 DEF vars, cmdVars, linkVars, discVars, connVars
  <2>2. /\ Owner(h)' <=> Owner(h)
        /\ Awaits(h)' <=> Awaits(h)
        /\ Reported(h)' <=> Reported(h)
        /\ HandlePresent(h)' <=> HandlePresent(h)
    BY <2>1 DEF Owner, Awaits, Reported, HandlePresent, Present
  <2>3. e.kind = "disconnected" => ~HandlePresent(e.handle)
    BY <1>5, IgnoredLinks
  <2> QED BY <2>1, <2>2, <2>3 DEF EventEffect
<1>6. EventEffect(h, e)
  BY <1>1, <1>4, <1>5
<1> QED BY <1>6 DEF e

LEMMA DeliverShifts ==
  ASSUME LinkTypes, LinkTypes', events # <<>>, events' = Tail(events), NEW h
  PROVE  LET e == Head(events)
         IN  /\ Shifted(Encs(h), Encs(h)') /\ Shifted(Oks(h), Oks(h)')
             /\ Shifted(Downs(h), Downs(h)') /\ Shifted(Replies, Replies')
             /\ 1 \in Encs(h) <=> e.kind = "encrypted" /\ e.handle = h
             /\ 1 \in Oks(h) <=> e.kind = "encrypted" /\ e.handle = h /\ e.ok
             /\ 1 \in Downs(h) <=> e.kind = "disconnected" /\ e.handle = h
             /\ 1 \in Replies <=> e \in AnswerRecord
             /\ e = events[1]
             /\ \A k \in Replies' : events'[k] = events[k + 1]
<1>1. /\ Head(events) = events[1]
      /\ Len(events) \in Nat \ {0} /\ Len(events') = Len(events) - 1
      /\ \A i \in 1..Len(events') : i + 1 \in 1..Len(events) /\ events'[i] = events[i + 1]
  BY Taken
<1>2. \A kind : /\ 1 \in Positions(kind, h) <=>
                     Head(events).kind = kind /\ Head(events).handle = h
                /\ \A i \in Int : i \in Positions(kind, h)' <=>
                                    1 <= i /\ i + 1 \in Positions(kind, h)
  BY Taken
<1>3. ASSUME NEW kind PROVE Shifted(Positions(kind, h), Positions(kind, h)')
  <2>1. \A i \in Positions(kind, h) : i \in Int /\ 1 <= i
    BY Positive
  <2>2. \A i \in Positions(kind, h)' : i \in Int /\ 1 <= i
    BY <1>1 DEF Positions
  <2> QED BY <1>2, <2>1, <2>2 DEF Shifted
<1>4. Shifted(Encs(h), Encs(h)') /\ Shifted(Downs(h), Downs(h)')
  BY <1>3 DEF Encs, Downs
<1>5. Shifted(Oks(h), Oks(h)')
  <2>1. \A i \in Encs(h) : i \in Int /\ 1 <= i /\ i <= Len(events)
    BY Positive DEF Encs
  <2>2. \A i \in Encs(h)' : i \in Int /\ 1 <= i /\ i \in 1..Len(events')
    BY <1>1 DEF Encs, Positions
  <2>3. \A i \in Int : i \in Encs(h)' <=> 1 <= i /\ i + 1 \in Encs(h)
    BY <1>2 DEF Encs
  <2>4. \A i \in Encs(h)' : events'[i] = events[i + 1]
    BY <1>1, <2>2
  <2> QED BY <2>1, <2>2, <2>3, <2>4 DEF Oks, Shifted
<1>6. Shifted(Replies, Replies')
  <2>1. \A i \in Replies \cup Replies' : i \in Int /\ 1 <= i
    BY <1>1 DEF Replies
  <2>2. ASSUME NEW i \in Int PROVE i \in Replies' <=> 1 <= i /\ i + 1 \in Replies
    <3>1. i \in 1..Len(events') <=> 1 <= i /\ i + 1 \in 1..Len(events)
      BY <1>1
    <3> QED BY <1>1, <3>1 DEF Replies
  <2> QED BY <2>1, <2>2 DEF Shifted
<1>7. /\ 1 \in Encs(h) <=> Head(events).kind = "encrypted" /\ Head(events).handle = h
      /\ 1 \in Downs(h) <=> Head(events).kind = "disconnected" /\ Head(events).handle = h
  BY <1>2 DEF Encs, Downs
<1>8. 1 \in Oks(h) <=> 1 \in Encs(h) /\ Head(events).ok
  BY <1>1 DEF Oks
<1>9. 1 \in Replies <=> Head(events) \in AnswerRecord
  BY <1>1 DEF Replies
<1>10. \A k \in Replies' : events'[k] = events[k + 1]
  BY <1>1 DEF Replies
<1> QED BY <1>1, <1>4, <1>5, <1>6, <1>7, <1>8, <1>9, <1>10

\* A runtime that awaits the answer to a start still has the link's entry.
LEMMA OwnerRemains ==
  ASSUME ControllerValid', state' = "ENCRYPTION_START_PENDING", HostInv, HostInv',
         \A g : Owner(g)' => Owner(g), NEW h, Owner(h)
  PROVE  Owner(h)'
<1>1. \E s \in Slots : SecurityCommands' = {s}
  BY DEF ControllerValid, SecurityCommandOwned
<1>2. PICK s \in Slots : s \in SecurityCommands'
  BY <1>1
<1>3. conns'[s].present /\ (conns'[s].encryptionCommand \/ conns'[s].ltkReplyCommand)
  BY <1>2 DEF SecurityCommands, Present
<1>4. conns'[s].encryptionCommand
  BY <1>3 DEF HostInv
<1>5. PICK g : g = conns'[s].handle
  OBVIOUS
<1>6. Owner(g)'
  BY <1>3, <1>4, <1>5 DEF Owner
<1>7. g = h
  BY <1>6, OwnerUnique
<1> QED BY <1>6, <1>7

LEMMA DoomedRemains ==
  ASSUME ControllerValid', HostInv, HostInv', NEW h, NEW e, EventEffect(h, e),
         \A g : Owner(g)' => Owner(g),
         Shifted(Downs(h), Downs(h)'), Shifted(Replies, Replies'),
         1 \in Downs(h) <=> e.kind = "disconnected" /\ e.handle = h,
         1 \in Replies <=> e \in AnswerRecord,
         Doomed(h)
  PROVE  Doomed(h)'
<1>1. Owner(h) => /\ state \in {"ENCRYPTION_START_PENDING", "FAILED"}
                  /\ ~disc.pending /\ pendingOpcode # "DISCONNECT"
  BY DEF Owner, HostInv
<1>2. CASE state = "FAILED"
  <2>1. /\ ~disc.pending /\ pendingOpcode # "DISCONNECT"
        /\ Owner(h) \/ ~HandlePresent(h)
    BY <1>1, <1>2 DEF Doomed
  <2>2. /\ state' = "FAILED" /\ ~disc'.pending /\ pendingOpcode' # "DISCONNECT"
        /\ Owner(h)' \/ ~HandlePresent(h)'
    BY <1>2, <2>1 DEF EventEffect
  <2> QED BY <2>2 DEF Doomed
<1>3. CASE state # "FAILED"
  <2>1. /\ Owner(h) /\ state = "ENCRYPTION_START_PENDING"
        /\ ~disc.pending /\ pendingOpcode # "DISCONNECT"
    BY <1>1, <1>3 DEF Doomed
  <2>2. PICK j \in Downs(h) : \A k \in Replies : j < k
    BY <1>3 DEF Doomed
  <2>3. j \in Int /\ 1 <= j
    BY DEF Shifted
  <2>4. e \notin AnswerRecord
    BY <2>2, <2>3
  <2>5. /\ ~disc'.pending /\ pendingOpcode' # "DISCONNECT"
        /\ state' \in {"ENCRYPTION_START_PENDING", "FAILED"}
        /\ Owner(h)' \/ ~HandlePresent(h)'
    BY <2>1, <2>4 DEF EventEffect
  <2>6. CASE state' = "FAILED"
    BY <2>5, <2>6 DEF Doomed
  <2>7. CASE state' = "ENCRYPTION_START_PENDING"
    <3>1. Owner(h)'
      BY <2>1, <2>7, OwnerRemains
    <3>2. HandlePresent(h)'
      BY <3>1 DEF Owner, HandlePresent, Present
    <3>3. j # 1
      BY <3>2 DEF EventEffect
    <3>4. j - 1 \in Int /\ 1 <= j - 1 /\ (j - 1) + 1 = j
      BY <2>3, <3>3
    <3>5. j - 1 \in Downs(h)'
      BY <3>4 DEF Shifted
    <3>6. ASSUME NEW k \in Replies' PROVE j - 1 < k
      <4>1. k \in Int /\ k + 1 \in Replies
        BY DEF Shifted
      <4>2. j < k + 1
        BY <2>2, <4>1
      <4> QED BY <2>3, <4>1, <4>2
    <3> QED BY <3>1, <3>5, <3>6 DEF Doomed
  <2> QED BY <2>5, <2>6, <2>7
<1> QED BY <1>2, <1>3

LEMMA EncryptionDeliver ==
  ASSUME IInv, LinkTypes, LinkTypes', InFlight, InFlight', OrphanInv, OrphanInv',
         EncryptionInv, Deliver, failedOnce' = (failedOnce \/ state' = "FAILED")
  PROVE  EncryptionInv'
<1> DEFINE e == Head(events)
<1>1. events # <<>> /\ events' = Tail(events) /\ UNCHANGED links
  BY DeliverStep
<1>2. ControllerValid' => ControllerValid
  BY StaysInvalid DEF LinkNext
<1>3. HostInv /\ HostInv'
  BY DEF OrphanInv
<1>4. ASSUME NEW h
      PROVE  /\ Shifted(Encs(h), Encs(h)') /\ Shifted(Oks(h), Oks(h)')
             /\ Shifted(Downs(h), Downs(h)') /\ Shifted(Replies, Replies')
             /\ 1 \in Encs(h) <=> e.kind = "encrypted" /\ e.handle = h
             /\ 1 \in Oks(h) <=> e.kind = "encrypted" /\ e.handle = h /\ e.ok
             /\ 1 \in Downs(h) <=> e.kind = "disconnected" /\ e.handle = h
             /\ 1 \in Replies <=> e \in AnswerRecord
             /\ e = events[1]
             /\ \A k \in Replies' : events'[k] = events[k + 1]
  BY <1>1, DeliverShifts
<1>5. ASSUME NEW h, ControllerValid' PROVE EventEffect(h, e)
  BY <1>2, <1>5, EventEffects
<1> HIDE DEF e
<1>6. ControllerValid' => \A g : Owner(g)' => Owner(g)
  BY <1>5 DEF EventEffect
<1>7. ASSUME NEW h, Safe(h)' PROVE Safe(h) /\ ControllerValid' /\ ControllerValid
  <2>1. ControllerValid' /\ ControllerValid
    BY <1>2, <1>7 DEF Safe
  <2>2. Doomed(h) => Doomed(h)'
    BY <1>3, <1>4, <1>5, <1>6, <2>1, DoomedRemains
  <2> QED BY <1>7, <2>1, <2>2 DEF Safe
<1>8. ASSUME NEW h, ControllerValid', e.kind = "disconnected", e.handle = h
      PROVE  ~Owner(h)' /\ ~Reported(h)'
  <2>1. ~HandlePresent(h)'
    BY <1>5, <1>8 DEF EventEffect
  <2> QED BY <2>1 DEF Owner, Reported, HandlePresent, Present
<1>9. StoryInv'
  <2> SUFFICES ASSUME NEW h \in Handles, Safe(h)'
               PROVE  /\ Story(Encs(h), Oks(h), Downs(h), links[h].enc)'
                      /\ Encs(h)' # {} \/ links'[h].enc = "starting" => Awaits(h)'
                      /\ Downs(h)' = {} /\ Reported(h)' => links'[h].enc = "on"
    BY DEF StoryInv
  <2>1. Safe(h) /\ ControllerValid' /\ ControllerValid /\ EventEffect(h, e)
    BY <1>5, <1>7
  <2>2. /\ Story(Encs(h), Oks(h), Downs(h), links[h].enc)
        /\ Encs(h) # {} \/ links[h].enc = "starting" => Awaits(h)
        /\ Downs(h) = {} /\ Reported(h) => links[h].enc = "on"
    BY <2>1 DEF EncryptionInv, StoryInv
  <2>3. /\ Story(Encs(h)', Oks(h)', Downs(h)', links[h].enc)
        /\ 1 \in Encs(h) \/ 1 \in Downs(h) => Encs(h)' = {} /\ links[h].enc # "starting"
        /\ 1 \in Oks(h) /\ Downs(h)' = {} => links[h].enc = "on"
        /\ Downs(h)' = {} /\ 1 \notin Downs(h) => Downs(h) = {}
        /\ Encs(h)' # {} => Encs(h) # {}
    <3> DEFINE E == Encs(h)
               E2 == Encs(h)'
               O == Oks(h)
               O2 == Oks(h)'
               D == Downs(h)
               D2 == Downs(h)'
               enc == links[h].enc
    <3>1. AllShifted(E, O, D, E2, O2, D2) /\ Story(E, O, D, enc)
      BY <1>4, <2>2 DEF AllShifted
    <3> HIDE DEF E, E2, O, O2, D, D2, enc
    <3>2. /\ Story(E2, O2, D2, enc)
          /\ 1 \in E \/ 1 \in D => E2 = {} /\ enc # "starting"
          /\ 1 \in O /\ D2 = {} => enc = "on"
          /\ D2 = {} /\ 1 \notin D => D = {}
          /\ E2 # {} => E # {}
      BY <3>1, StoryShift
    <3> QED BY <3>2 DEF E, E2, O, O2, D, D2, enc
  <2>4. ~(e \in AnswerRecord /\ state = "ENCRYPTION_START_PENDING" /\ ~e.ok /\ Owner(h))
    <3> SUFFICES ASSUME e \in AnswerRecord, state = "ENCRYPTION_START_PENDING",
                        ~e.ok, Owner(h)
                 PROVE  FALSE
      OBVIOUS
    <3>1. 1 \in Replies /\ ~events[1].ok
      BY <1>4
    <3>2. PICK j \in Downs(h) : j < 1
      BY <2>1, <3>1 DEF EncryptionInv, RefusedInv
    <3>3. j \in Int /\ 1 <= j
      BY <1>4 DEF Shifted
    <3> QED BY <3>2, <3>3
  <2>5. Awaits(h) => \/ Awaits(h)' \/ 1 \in Encs(h) \/ 1 \in Downs(h)
    BY <1>4, <2>1, <2>4 DEF EventEffect
  <2>6. Encs(h)' # {} \/ links[h].enc = "starting" => Awaits(h)'
    BY <2>2, <2>3, <2>5
  <2>7. Downs(h)' = {} /\ Reported(h)' => links[h].enc = "on"
    <3>1. Reported(h)' => Reported(h) \/ 1 \in Oks(h)
      BY <1>4, <2>1 DEF EventEffect
    <3>2. Reported(h)' => 1 \notin Downs(h)
      BY <1>4, <1>8, <2>1
    <3> QED BY <2>2, <2>3, <3>1, <3>2
  <2> QED BY <1>1, <2>3, <2>6, <2>7
<1>10. StartInv'
  <2> SUFFICES ASSUME NEW h \in Handles, Starting(h)', ControllerValid'
               PROVE  /\ state' \in {"ENCRYPTION_START_PENDING", "FAILED"} /\ ~disc'.pending
                      /\ HandlePresent(h)' \/ state' = "ENCRYPTION_START_PENDING" => Owner(h)'
                      /\ Safe(h)' => Encs(h)' = {} /\ links'[h].enc # "starting"
    BY DEF StartInv, Safe
  <2>1. ControllerValid /\ EventEffect(h, e)
    BY <1>2, <1>5
  <2>2. pendingOpcode' = "LE_START_ENCRYPTION"
    BY DEF Starting, InFlight
  <2>3. pendingOpcode = "LE_START_ENCRYPTION"
    BY <2>1, <2>2 DEF EventEffect
  <2>4. chipCmd' = chipCmd
    BY <2>2, <2>3 DEF Deliver
  <2>5. Starting(h)
    BY <2>4 DEF Starting
  <2>6. e \notin AnswerRecord
    <3>1. Replies = {}
      BY <2>5 DEF Starting, InFlight, Replies
    <3> QED BY <1>4, <3>1
  <2>7. /\ state \in {"ENCRYPTION_START_PENDING", "FAILED"} /\ ~disc.pending
        /\ HandlePresent(h) \/ state = "ENCRYPTION_START_PENDING" => Owner(h)
    BY <2>1, <2>5 DEF EncryptionInv, StartInv
  <2>8. state' \in {"ENCRYPTION_START_PENDING", "FAILED"} /\ ~disc'.pending
    BY <2>1, <2>3, <2>6, <2>7 DEF EventEffect
  <2>9. HandlePresent(h)' => Owner(h)'
    BY <2>1, <2>6, <2>7 DEF EventEffect
  <2>10. state' = "ENCRYPTION_START_PENDING" => Owner(h)'
    <3>1. state' = "ENCRYPTION_START_PENDING" => Owner(h)
      BY <2>1, <2>7 DEF EventEffect
    <3> QED BY <1>3, <1>6, <3>1, OwnerRemains
  <2>11. ASSUME Safe(h)' PROVE Encs(h)' = {} /\ links'[h].enc # "starting"
    <3>1. Encs(h) = {} /\ links[h].enc # "starting"
      BY <1>7, <2>5, <2>11 DEF EncryptionInv, StartInv
    <3>2. Encs(h)' = {}
      BY <1>4, <3>1 DEF Shifted
    <3> QED BY <1>1, <3>1, <3>2
  <2> QED BY <2>8, <2>9, <2>10, <2>11
<1>11. RefusedInv'
  <2> SUFFICES ASSUME ControllerValid', state' = "ENCRYPTION_START_PENDING",
                      NEW k \in Replies', NEW h \in Handles, ~events'[k].ok, Owner(h)'
               PROVE  \E j \in Downs(h)' : j < k
    BY DEF RefusedInv
  <2>1. ControllerValid /\ state = "ENCRYPTION_START_PENDING" /\ Owner(h)
    BY <1>2, <1>5 DEF EventEffect
  <2>2. k \in Int /\ k + 1 \in Replies /\ ~events[k + 1].ok
    BY <1>4 DEF Shifted
  <2>3. PICK j \in Downs(h) : j < k + 1
    BY <2>1, <2>2 DEF EncryptionInv, RefusedInv
  <2>4. j \in Int /\ 1 <= j
    BY <1>4 DEF Shifted
  <2>5. j # 1
    BY <1>4, <1>8
  <2>6. j - 1 \in Int /\ 1 <= j - 1 /\ (j - 1) + 1 = j /\ j - 1 < k
    BY <2>2, <2>3, <2>4, <2>5
  <2>7. j - 1 \in Downs(h)'
    BY <1>4, <2>6 DEF Shifted
  <2> QED BY <2>6, <2>7
<1> QED BY <1>9, <1>10, <1>11 DEF EncryptionInv

LEMMA EncryptionInit == LinkInit => EncryptionInv
<1> SUFFICES ASSUME LinkInit PROVE EncryptionInv
  OBVIOUS
<1>1. /\ state = "READY" /\ Len(events) = 0 /\ chipCmd = NoCommand
      /\ \A s \in Slots : conns[s] = NoConnection
      /\ \A h \in Handles : links[h].enc = "off"
  BY DEF LinkInit, NoLink
<1>2. ~NoConnection.present
  BY DEF NoConnection
<1>3. \A h : Encs(h) = {} /\ Oks(h) = {} /\ Downs(h) = {} /\ ~Reported(h)
  BY <1>1, <1>2 DEF Encs, Oks, Downs, Positions, Reported
<1>4. StoryInv
  BY <1>1, <1>3 DEF StoryInv, Story
<1>5. StartInv /\ RefusedInv
  BY <1>1 DEF StartInv, Starting, RefusedInv
<1> QED BY <1>4, <1>5 DEF EncryptionInv

LEMMA EncryptionNext ==
  ASSUME IInv, LinkTypes, LinkTypes', InFlight, InFlight', OrphanInv, OrphanInv',
         EncryptionInv, [LinkNext]_allVars
  PROVE  EncryptionInv'
<1>1. CASE LinkNext
  BY <1>1, EncryptionChip, EncryptionHost, EncryptionDeliver DEF LinkNext
<1>2. CASE UNCHANGED allVars
  <2>1. UNCHANGED <<vars, chipCmd, events, links>>
    BY <1>2 DEF allVars, chipVars
  <2>2. ControllerValid' => ControllerValid
    BY <1>2, StaysInvalid
  <2>3. UNCHANGED <<state, pendingOpcode, disc, conns>>
    BY <2>1 DEF vars, cmdVars, linkVars, discVars, connVars
  <2>4. Replies' = Replies
    BY <2>1 DEF Replies
  <2>5. \A h : /\ Encs(h)' = Encs(h) /\ Oks(h)' = Oks(h) /\ Downs(h)' = Downs(h)
               /\ Owner(h)' <=> Owner(h)
               /\ Awaits(h)' <=> Awaits(h)
               /\ Reported(h)' <=> Reported(h)
               /\ HandlePresent(h)' <=> HandlePresent(h)
               /\ Starting(h)' <=> Starting(h)
    BY <2>1, <2>3 DEF Encs, Oks, Downs, Positions, Owner, Awaits, Reported,
       HandlePresent, Present, Starting
  <2>6. \A h : Safe(h)' => Safe(h)
    BY <2>2, <2>3, <2>4, <2>5 DEF Safe, Doomed
  <2>7. StoryInv'
    BY <2>1, <2>5, <2>6 DEF EncryptionInv, StoryInv
  <2>8. StartInv'
    BY <2>1, <2>2, <2>3, <2>5, <2>6 DEF EncryptionInv, StartInv
  <2>9. RefusedInv'
    BY <2>1, <2>2, <2>3, <2>4, <2>5 DEF EncryptionInv, RefusedInv
  <2> QED BY <2>7, <2>8, <2>9 DEF EncryptionInv
<1> QED BY <1>1, <1>2

LEMMA DisconnectedEvent ==
  ASSUME NEW e \in EventRecord, e.kind = "disconnected"
  PROVE  e = Disconnected(e.handle)
<1>1. e \notin AnswerRecord
  BY DEF AnswerRecord
<1>2. e # NotConnected
  <2>1. NotConnected.kind = "not connected"
    BY DEF NotConnected
  <2> QED BY <2>1
<1>3. e \notin [kind : {"connected"}, handle : Handles, role : {0, 1}, peer : Peers]
  OBVIOUS
<1>4. e \notin [kind : {"encrypted"}, handle : Handles, ok : BOOLEAN]
  OBVIOUS
<1>5. e \in [kind : {"disconnected", "ltk"}, handle : Handles]
  BY <1>1, <1>2, <1>3, <1>4 DEF EventRecord
<1> QED BY <1>5 DEF Disconnected

\* The runtime reports a link encrypted only while the controller encrypts it
\* or the end of the link is queued, whatever start, refusal, change and loss
\* raced (hci_runtime_v1.c, encryption_change and the answer to a start).
THEOREM EncryptionReportedTruly == LinkSpec => []EncryptionAgrees
<1>1. ASSUME IInv, LinkTypes, OrphanInv, EncryptionInv,
             NEW s \in Present, ControllerValid, conns[s].encrypted
      PROVE  \/ links[conns[s].handle].enc = "on"
             \/ \E i \in 1..Len(events) : events[i] = Disconnected(conns[s].handle)
  <2> DEFINE h == conns[s].handle
  <2>1. h \in Handles /\ Reported(h) /\ HandlePresent(h)
    BY <1>1 DEF OrphanInv, Named, Present, Reported, HandlePresent
  <2>2. ASSUME NEW i \in Downs(h)
        PROVE  \E k \in 1..Len(events) : events[k] = Disconnected(h)
    <3>1. i \in 1..Len(events) /\ events[i].kind = "disconnected" /\ events[i].handle = h
      BY DEF Downs, Positions
    <3>2. events[i] \in EventRecord
      BY <1>1, <3>1, ElementOfSeq DEF LinkTypes
    <3>3. events[i] = Disconnected(h)
      BY <3>1, <3>2, DisconnectedEvent
    <3> QED BY <3>1, <3>3
  <2> HIDE DEF h
  <2>3. ~Owner(h)
    BY <1>1, <2>1, OwnerAwaits
  <2>4. Safe(h)
    BY <1>1, <2>1, <2>3 DEF Safe, Doomed
  <2>5. Downs(h) = {} => links[h].enc = "on"
    BY <1>1, <2>1, <2>4 DEF EncryptionInv, StoryInv
  <2>6. links[h].enc = "on" \/ \E k \in 1..Len(events) : events[k] = Disconnected(h)
    BY <2>2, <2>5
  <2> QED BY <2>6 DEF h
<1>2. IInv /\ LinkTypes /\ OrphanInv /\ EncryptionInv => EncryptionAgrees
  BY <1>1 DEF EncryptionAgrees
<1>3. IInv /\ LinkTypes /\ InFlight /\ OrphanInv /\ [LinkNext]_allVars => OrphanInv'
  BY LinkNextInv, OrphanNext
<1>4. IInv /\ LinkTypes /\ InFlight /\ OrphanInv /\ EncryptionInv /\ [LinkNext]_allVars
        => EncryptionInv'
  BY <1>3, LinkNextInv, EncryptionNext
<1> QED BY LinkInitInv, LinkNextInv, OrphanInit, EncryptionInit, <1>2, <1>3, <1>4, PTL
      DEF LinkSpec
==============================================================================
