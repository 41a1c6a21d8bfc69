------------------------------- MODULE HciLink -------------------------------
(***************************************************************************)
(* The HCI runtime of HciController driving a Bluetooth controller that    *)
(* keeps to the protocol (external: modelled from the commands the runtime *)
(* sends and the events it parses).  The controller executes one command   *)
(* at a time and reports through a FIFO queue of events; links come and go *)
(* on their own, so an event may overtake the answer to a command that     *)
(* concerns the same link.                                                 *)
(*                                                                         *)
(* The model starts after the start-up chain, with a public address and no *)
(* resolving list.  Scanning does not touch links and is left out.         *)
(***************************************************************************)
EXTENDS HciController

CONSTANT MaxEvents   \* events queued before the air interface goes quiet

VARIABLES
  chipCmd,     \* the command the controller has not executed, or NoCommand
  events,      \* events on their way to process_event
  links,       \* the controller's links, by handle
  initiating,  \* the peer the controller is connecting to, or NoPeer
  chipAdv,     \* the controller is advertising
  failedOnce   \* the runtime has been FAILED at some time

chipVars == <<chipCmd, events, links, initiating, chipAdv>>
allVars == <<vars, chipVars, failedOnce>>

NoCommand == [op |-> NoOpcode]
NoLink == [up |-> FALSE, role |-> 0, closing |-> FALSE, enc |-> "off"]
LinkUp(role) == [NoLink EXCEPT !.up = TRUE, !.role = role]

Queue(es) == events' = events \o es
Quiet == Len(events) < MaxEvents

Complete(op, ok) == [kind |-> "complete", op |-> op, ok |-> ok]
Status(op, ok) == [kind |-> "status", op |-> op, ok |-> ok]
Connected(h, role, peer) ==
  [kind |-> "connected", handle |-> h, role |-> role, peer |-> peer]
NotConnected == [kind |-> "not connected"]
Disconnected(h) == [kind |-> "disconnected", handle |-> h]
Encrypted(h, ok) == [kind |-> "encrypted", handle |-> h, ok |-> ok]
LtkRequested(h) == [kind |-> "ltk", handle |-> h]

-----------------------------------------------------------------------------
(* The runtime *)

\* The command the runtime has just put on the transport, with the parameter
\* its caller encodes.
SentCommand ==
  [op |-> pendingOpcode,
   arg |-> CASE pendingOpcode = "DISCONNECT" -> disc.handle
             [] pendingOpcode = "LE_CREATE_CONNECTION" -> attempt
             [] pendingOpcode = "LE_START_ENCRYPTION" ->
                  conns[CHOOSE s \in SecurityCommands : TRUE].handle
             [] OTHER -> state]

HostCall ==
  /\ ControllerValid
  /\ \E r \in {"ok", "error"} :
       \/ StartAdvertising("public", r) \/ StopAdvertising(r)
       \/ \E peer \in Peers : StartConnection(peer, "public", r)
       \/ CancelConnection(r)
       \/ \E h \in Handles, g \in Generations \ {0} :
            Disconnect(h, g, r) \/ StartEncryption(h, g, r)
  /\ chipCmd' = IF pendingOpcode' = NoOpcode THEN chipCmd ELSE SentCommand'
  /\ UNCHANGED <<events, links, initiating, chipAdv>>

\* process_event, by the kind of the event.
HandleCommandEvent(e, r) ==
  /\ e.op = pendingOpcode
  /\ \/ ~e.ok /\ CommandFailed
     \/ /\ e.ok /\ e.kind = "complete"
        /\ \/ CompleteAdvertisingStep(r) \/ CompleteAdvertisingSwitch
           \/ CompleteCancel \/ CompleteUnexpected
     \/ /\ e.ok /\ e.kind = "status"
        /\ StatusCreateConnection \/ StatusDisconnect \/ StatusStartEncryption

Handle(e, r) ==
  /\ ControllerValid
  /\ \/ e.kind \in {"complete", "status"} /\ HandleCommandEvent(e, r)
     \/ e.kind = "not connected" /\ ConnectionFailed
     \/ /\ e.kind = "connected"
        /\ \/ ConnectionUnsolicited(e.handle, r)
           \/ attempt # NoPeer /\ ConnectionEarly
           \/ ConnectionRefused(e.handle, e.role, e.peer, NoPeer, TRUE, r)
           \/ ConnectionAccepted(e.handle, e.role, e.peer, NoPeer, TRUE)
     \/ e.kind = "disconnected" /\ DisconnectionComplete(e.handle)
     \/ e.kind = "encrypted" /\ EncryptionChange(e.handle, e.ok, TRUE)
     \/ e.kind = "ltk" /\ LongTermKeyRequest(e.handle)

\* An event that is out of place changes nothing: the early returns of
\* process_event and of the handlers it calls.
AcceptedStatus ==
  {<<"LE_CREATE_CONNECTION", "CONNECT_PENDING">>,
   <<"LE_START_ENCRYPTION", "ENCRYPTION_START_PENDING">>}

Ignored(e) ==
  \/ ~ControllerValid
  \/ e.kind \in {"complete", "status"} /\ e.op # pendingOpcode
  \/ /\ e.kind = "status" /\ e.ok /\ e.op # "DISCONNECT"
     /\ <<e.op, state>> \notin AcceptedStatus
  \/ e.kind = "not connected" /\ attempt = NoPeer
  \/ /\ e.kind = "disconnected"
     /\ ~(disc.pending /\ disc.handle = e.handle) /\ ~HandlePresent(e.handle)
  \/ /\ e.kind = "encrypted"
     /\ \A s \in Present : conns[s].handle = e.handle =>
          \/ conns[s].encryptionCommand \/ conns[s].ltkReplyCommand
          \/ e.ok /\ (~conns[s].encryptionPending \/ conns[s].ltkRequest)
  \/ e.kind = "ltk" /\ ~HandlePresent(e.handle)

\* No handler sends the command it has just seen answered, so a new
\* outstanding opcode is a new command.
Deliver ==
  /\ events # <<>>
  /\ events' = Tail(events)
  /\ \/ \E r \in {"ok", "error"} : Handle(Head(events), r)
     \/ Ignored(Head(events)) /\ UNCHANGED vars
  /\ chipCmd' = IF pendingOpcode' \in {NoOpcode, pendingOpcode}
                  THEN chipCmd ELSE SentCommand'
  /\ UNCHANGED <<links, initiating, chipAdv>>

-----------------------------------------------------------------------------
(* The controller: commands, each answered in the order it came *)

ExecuteDisconnect ==
  LET h == chipCmd.arg
  IN  /\ chipCmd.op = "DISCONNECT"
      /\ Queue(<<Status("DISCONNECT", links[h].up)>>)
      /\ links' = [links EXCEPT ![h].closing = links[h].up]
      /\ UNCHANGED <<initiating, chipAdv>>

ExecuteCreateConnection(accept) ==
  /\ chipCmd.op = "LE_CREATE_CONNECTION"
  /\ accept => initiating = NoPeer
  /\ Queue(<<Status("LE_CREATE_CONNECTION", accept)>>)
  /\ initiating' = IF accept THEN chipCmd.arg ELSE initiating
  /\ UNCHANGED <<links, chipAdv>>

\* A cancelled attempt is also reported as a failed connection, after the
\* answer.  Without an attempt the command is disallowed.
ExecuteCancel ==
  LET op == "LE_CREATE_CONNECTION_CANCEL"
  IN  /\ chipCmd.op = op
      /\ IF initiating = NoPeer
           THEN Queue(<<Complete(op, FALSE)>>)
           ELSE Queue(<<Complete(op, TRUE), NotConnected>>)
      /\ initiating' = NoPeer
      /\ UNCHANGED <<links, chipAdv>>

ExecuteStartEncryption ==
  LET h == chipCmd.arg
  IN  /\ chipCmd.op = "LE_START_ENCRYPTION"
      /\ Queue(<<Status("LE_START_ENCRYPTION", links[h].up)>>)
      /\ links' = IF links[h].up THEN [links EXCEPT ![h].enc = "starting"]
                                ELSE links
      /\ UNCHANGED <<initiating, chipAdv>>

ExecuteAdvertising(accept) ==
  /\ chipCmd.op \in {"LE_ADV_PARAMS", "LE_ADV_DATA", "LE_SCAN_RSP_DATA",
                     "LE_ADV_ENABLE"}
  /\ Queue(<<Complete(chipCmd.op, accept)>>)
  /\ chipAdv' = IF accept /\ chipCmd.op = "LE_ADV_ENABLE"
                  THEN chipCmd.arg = "ADV_ENABLE_PENDING" ELSE chipAdv
  /\ UNCHANGED <<links, initiating>>

Execute ==
  /\ \/ ExecuteDisconnect \/ ExecuteCancel \/ ExecuteStartEncryption
     \/ \E accept \in BOOLEAN :
          ExecuteCreateConnection(accept) \/ ExecuteAdvertising(accept)
  /\ chipCmd' = NoCommand
  /\ UNCHANGED vars

-----------------------------------------------------------------------------
(* The controller: the air interface *)

ConnectPeer(h) ==
  /\ initiating # NoPeer /\ ~links[h].up
  /\ Queue(<<Connected(h, 0, initiating)>>)
  /\ links' = [links EXCEPT ![h] = LinkUp(0)]
  /\ initiating' = NoPeer
  /\ UNCHANGED chipAdv

AttemptFails ==
  /\ initiating # NoPeer
  /\ Queue(<<NotConnected>>)
  /\ initiating' = NoPeer
  /\ UNCHANGED <<links, chipAdv>>

\* A peer answers the advertising, which ends it.
PeerConnects(h, peer) ==
  /\ chipAdv /\ ~links[h].up
  /\ Queue(<<Connected(h, 1, peer)>>)
  /\ links' = [links EXCEPT ![h] = LinkUp(1)]
  /\ chipAdv' = FALSE
  /\ UNCHANGED initiating

\* The end of a link, asked for or not.
LinkDown(h) ==
  /\ links[h].up
  /\ Queue(<<Disconnected(h)>>)
  /\ links' = [links EXCEPT ![h] = NoLink]
  /\ UNCHANGED <<initiating, chipAdv>>

EncryptionEnds(h, ok) ==
  /\ links[h].enc = "starting"
  /\ Queue(<<Encrypted(h, ok)>>)
  /\ links' = [links EXCEPT ![h].enc = IF ok THEN "on" ELSE "off"]
  /\ UNCHANGED <<initiating, chipAdv>>

\* The central of a link in the peripheral role asks for encryption.
PeerWantsEncryption(h) ==
  /\ links[h].up /\ links[h].role = 1 /\ links[h].enc = "off"
  /\ Queue(<<LtkRequested(h)>>)
  /\ links' = [links EXCEPT ![h].enc = "waiting for key"]
  /\ UNCHANGED <<initiating, chipAdv>>

Air ==
  /\ Quiet
  /\ \/ AttemptFails
     \/ \E h \in Handles :
          \/ ConnectPeer(h) \/ LinkDown(h) \/ PeerWantsEncryption(h)
          \/ \E peer \in Peers : PeerConnects(h, peer)
          \/ \E ok \in BOOLEAN : EncryptionEnds(h, ok)
  /\ UNCHANGED <<vars, chipCmd>>

\* A link the runtime asked to end does end.
ClosingLinkDown(h) ==
  Quiet /\ links[h].closing /\ LinkDown(h) /\ UNCHANGED <<vars, chipCmd>>

-----------------------------------------------------------------------------
LinkInit ==
  /\ state = "READY" /\ pendingOpcode = NoOpcode
  /\ scanActive = "inactive" /\ scanFamily = "inactive"
  /\ localAddress = "public" /\ staticRandom = FALSE
  /\ privacy = <<>> /\ privacyIndex = 0 /\ resolution = FALSE
  /\ advConfigured = FALSE /\ advActive = FALSE
  /\ attempt = NoPeer /\ cancelPending = FALSE
  /\ disc = NoDisconnect /\ discPrevious = "UNINITIALIZED"
  /\ conns = [s \in Slots |-> NoConnection] /\ connCount = 0 /\ connGen = 1
  /\ chipCmd = NoCommand /\ events = <<>> /\ initiating = NoPeer
  /\ links = [h \in Handles |-> NoLink] /\ chipAdv = FALSE
  /\ failedOnce = FALSE

LinkNext ==
  /\ HostCall \/ Deliver \/ Execute \/ Air
  /\ failedOnce' = (failedOnce \/ state' = "FAILED")

\* The transport delivers what is queued and the controller answers what it
\* is sent; nobody has to call, and no peer has to answer.
Fairness ==
  /\ WF_allVars(Deliver /\ failedOnce' = (failedOnce \/ state' = "FAILED"))
  /\ WF_allVars(Execute /\ UNCHANGED failedOnce)
  /\ \A h \in Handles : WF_allVars(ClosingLinkDown(h) /\ UNCHANGED failedOnce)

LinkSpec == LinkInit /\ [][LinkNext]_allVars
FairLinkSpec == LinkSpec /\ Fairness

-----------------------------------------------------------------------------
(* Properties *)

Settled ==
  /\ state = "READY" /\ pendingOpcode = NoOpcode
  /\ chipCmd = NoCommand /\ events = <<>>

\* Once every command is answered and every event is processed, a runtime
\* that has never failed knows exactly the links the controller has: no link
\* is left running without an owner, whatever raced what, and no entry names
\* a link that is gone.
NoOrphanLink ==
  Settled /\ ~failedOnce =>
    {h \in Handles : links[h].up} = {conns[s].handle : s \in Present}

\* The runtime reports a link as encrypted only while the controller encrypts
\* it, or the news of its end is still queued: never because of an event
\* about an earlier link with the same handle.  get_connection, which reports
\* it, fails unless the record is valid.
EncryptionAgrees ==
  \A s \in Present :
    ControllerValid /\ conns[s].encrypted =>
      \/ links[conns[s].handle].enc = "on"
      \/ \E i \in 1..Len(events) : events[i] = Disconnected(conns[s].handle)

\* The runtime never sends a command while another is unanswered, which the
\* controller's one command credit forbids.
OneCommandInFlight ==
  LET answers == {i \in 1..Len(events) :
                    events[i].kind \in {"complete", "status"}}
  IN  /\ chipCmd # NoCommand => answers = {} /\ pendingOpcode = chipCmd.op
      /\ \A i \in answers : pendingOpcode = events[i].op
      /\ Cardinality(answers) <= 1

\* A disconnect that was sent is over at some time, and the runtime accepts
\* calls again or has failed: both events may come, in either order, and the
\* link may also end on its own.
DisconnectEnds == disc.pending ~> ~disc.pending /\ pendingOpcode = NoOpcode

\* Every state in which a command is awaited is left, an encryption start
\* excepted.
CommandsEnd ==
  state \in PendingStates \ {"ENCRYPTION_START_PENDING"} ~>
    state \notin PendingStates \/ state = "ENCRYPTION_START_PENDING"

\* connection_table_valid: in ENCRYPTION_START_PENDING a table where
\* "pending_security_commands != 1u" is a corrupted record, with which every
\* call and every event returns INVALID_ARGUMENT.
SecurityCommandKept == SecurityCommandOwned

\* "Peripheral-side LTK requests are captured by process_event and exposed in
\* the generation-pinned connection record" (hci_runtime_v1.h).
PeripheralLtkCaptured ==
  [][Deliver /\ Head(events).kind = "ltk" =>
       \E s \in Slots : /\ conns'[s].present /\ conns'[s].ltkRequest
                        /\ conns'[s].handle = Head(events).handle]_allVars
=============================================================================
