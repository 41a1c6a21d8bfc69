---------------------------- MODULE HciController ----------------------------
(***************************************************************************)
(* The host side of the Bluetooth HCI runtime                              *)
(* (src/rin/driver/bluetooth/hci_runtime_v1.c): the start-up command chain, *)
(* scanning, advertising, the connection table and LE encryption.          *)
(*                                                                         *)
(* The transport owner serialises calls, so every API call and every       *)
(* process_event call is one atomic action.  What the runtime cannot       *)
(* control is an input of the action: the result of the transport's        *)
(* send_command callback, and the contents of the event.                   *)
(*                                                                         *)
(* Events whose handling changes nothing (a wrong size, an opcode that is  *)
(* not outstanding, a report outside scanning) are stuttering steps and    *)
(* have no action.  The discovery tables that advertising reports fill are *)
(* not part of this module.                                                *)
(***************************************************************************)
EXTENDS Integers, Sequences, FiniteSets

CONSTANTS
  MaxConnections,   \* RIN_BLUETOOTH_HCI_MAX_CONNECTIONS
  MaxPrivacyPeers,  \* RIN_BLUETOOTH_HCI_MAX_PRIVACY_PEERS
  MaxGeneration,    \* UINT32_MAX, where connection_generation stops
  Handles,          \* connection handles up to 0x0eff
  BadHandle,        \* a handle above 0x0eff
  NoHandle,         \* the zeroed handle field of an empty record
  Addresses,        \* valid device addresses
  NoPeer,           \* a zeroed peer address
  Peers,            \* [type, addr] of peers that are asked for or reported
  PrivacyConfigs    \* resolving lists a caller may configure

ASSUME ConstantsAssumption ==
  /\ MaxConnections \in Nat \ {0}
  /\ MaxPrivacyPeers \in Nat \ {0}
  /\ MaxGeneration \in Nat \ {0}
  /\ BadHandle \notin Handles
  /\ NoHandle \notin Handles
  /\ Peers \subseteq [type : 0..3, addr : Addresses]
  /\ NoPeer \notin Peers
  /\ PrivacyConfigs \subseteq Seq([type : 0..1, addr : Addresses])

VARIABLES
  state,          \* RinBluetoothHciState
  pendingOpcode,  \* the command the controller has not answered yet
  scanActive,     \* scan_active
  scanFamily,     \* scan_command_family
  localAddress,   \* local_address_present with local_address_type
  staticRandom,   \* static_random_address_configured
  privacy,        \* privacy.peers; empty when not privacy_configured
  privacyIndex,   \* privacy_peer_index
  resolution,     \* address_resolution_enabled
  advConfigured,  \* advertising_configured
  advActive,      \* advertising_active
  attempt,        \* pending_connection's peer, NoPeer unless connection_pending
  cancelPending,  \* connection_cancel_pending
  disc,           \* disconnect_pending, disconnect_handle, disconnect_generation
  discPrevious,   \* disconnect_previous_state
  conns,          \* connections[]
  connCount,      \* connection_count
  connGen         \* connection_generation

cmdVars   == <<state, pendingOpcode, scanActive>>
setupVars == <<localAddress, staticRandom, privacy, privacyIndex, resolution>>
radioVars == <<scanFamily, advConfigured, advActive>>
discVars  == <<disc, discPrevious>>
connVars  == <<conns, connCount, connGen>>
linkVars  == <<attempt, cancelPending, discVars, connVars>>
vars      == <<cmdVars, setupVars, radioVars, linkVars>>

-----------------------------------------------------------------------------
(* Types *)

\* RinBluetoothHciState: the states in which the answer to a command is
\* awaited, and the others.
PendingStates ==
  {"RESET_PENDING", "ADDRESS_PENDING", "RANDOM_ADDRESS_PENDING",
   "PRIVACY_CLEAR_PENDING", "PRIVACY_ADD_PENDING", "PRIVACY_MODE_PENDING",
   "PRIVACY_TIMEOUT_PENDING", "PRIVACY_ENABLE_PENDING", "EVENT_MASK_PENDING",
   "SCAN_PARAMS_PENDING", "SCAN_ENABLE_PENDING", "SCAN_DISABLE_PENDING",
   "ADV_PARAMS_PENDING", "ADV_DATA_PENDING", "SCAN_RSP_DATA_PENDING",
   "ADV_ENABLE_PENDING", "ADV_DISABLE_PENDING", "CONNECT_PENDING",
   "CONNECT_CANCEL_PENDING", "DISCONNECT_PENDING",
   "ENCRYPTION_START_PENDING", "LTK_REPLY_PENDING"}
States == PendingStates \cup
  {"UNINITIALIZED", "IDLE", "READY", "SCANNING", "CONNECTING", "FAILED"}

\* RIN_BLUETOOTH_HCI_OPCODE_*
Opcodes ==
  {"RESET", "READ_BD_ADDR", "LE_RANDOM_ADDR", "LE_CLEAR_RESOLVING",
   "LE_ADD_RESOLVING", "LE_PRIVACY_MODE", "LE_RPA_TIMEOUT",
   "LE_RESOLUTION_ENABLE", "LE_EVENT_MASK", "LE_SCAN_PARAMS",
   "LE_EXT_SCAN_PARAMS", "LE_SCAN_ENABLE", "LE_EXT_SCAN_ENABLE",
   "LE_ADV_PARAMS", "LE_ADV_DATA", "LE_SCAN_RSP_DATA", "LE_ADV_ENABLE",
   "LE_CREATE_CONNECTION", "LE_CREATE_CONNECTION_CANCEL", "DISCONNECT",
   "LE_START_ENCRYPTION", "LE_LTK_REPLY", "LE_LTK_NEGATIVE_REPLY"}
NoOpcode == "none"
LtkOpcodes == {"LE_LTK_REPLY", "LE_LTK_NEGATIVE_REPLY"}

ScanModes == {"inactive", "legacy", "extended"}
Slots == 1..MaxConnections
Generations == 0..MaxGeneration

\* RinBluetoothHciConnectionV1, without the negotiated timing values.
ConnectionRecord ==
  [present : BOOLEAN, handle : Handles \cup {NoHandle},
   generation : Generations, role : {0, 1}, peer : Peers \cup {NoPeer},
   disconnectPending : BOOLEAN, encrypted : BOOLEAN,
   encryptionPending : BOOLEAN, encryptionCommand : BOOLEAN,
   ltkRequest : BOOLEAN, ltkReplyCommand : BOOLEAN]

\* A connection slot after bytes_zero.
NoConnection ==
  [present |-> FALSE, handle |-> NoHandle, generation |-> 0, role |-> 0,
   peer |-> NoPeer, disconnectPending |-> FALSE, encrypted |-> FALSE,
   encryptionPending |-> FALSE, encryptionCommand |-> FALSE,
   ltkRequest |-> FALSE, ltkReplyCommand |-> FALSE]

\* A new table entry, as connection_complete fills it.
NewConnection(h, g, role, peer) ==
  [NoConnection EXCEPT !.present = TRUE, !.handle = h, !.generation = g,
                       !.role = role, !.peer = peer]

NoDisconnect == [pending |-> FALSE, handle |-> NoHandle, generation |-> 0]

CmdTypeOK ==
  /\ state \in States
  /\ pendingOpcode \in Opcodes \cup {NoOpcode}
  /\ scanActive \in ScanModes

SetupTypeOK ==
  /\ localAddress \in {"none", "public", "random"}
  /\ staticRandom \in BOOLEAN
  /\ privacy \in {<<>>} \cup PrivacyConfigs
  /\ privacyIndex \in Nat
  /\ resolution \in BOOLEAN

RadioTypeOK ==
  /\ scanFamily \in ScanModes
  /\ advConfigured \in BOOLEAN
  /\ advActive \in BOOLEAN

LinkTypeOK ==
  /\ attempt \in Peers \cup {NoPeer}
  /\ cancelPending \in BOOLEAN
  /\ disc \in [pending : BOOLEAN, handle : Handles \cup {NoHandle},
               generation : Generations]
  /\ discPrevious \in {"UNINITIALIZED", "READY"}

TableTypeOK ==
  /\ conns \in [Slots -> ConnectionRecord]
  /\ connCount \in Int
  /\ connGen \in Generations

TypeOK ==
  CmdTypeOK /\ SetupTypeOK /\ RadioTypeOK /\ LinkTypeOK /\ TableTypeOK

-----------------------------------------------------------------------------
(* The connection table *)

Present == {s \in Slots : conns[s].present}
HandlePresent(h) == \E s \in Present : conns[s].handle = h
FreeSlots == Slots \ Present

\* connection_by_handle restricted to the generation the caller pinned.
Pinned(s, h, g) ==
  /\ conns[s].present
  /\ conns[s].handle = h
  /\ conns[s].generation = g

SecurityCommands ==
  {s \in Present : conns[s].encryptionCommand \/ conns[s].ltkReplyCommand}

\* The flags of one record that connection_table_valid relates.
ConnectionValid(c) ==
  IF ~c.present
    THEN ~(\/ c.disconnectPending \/ c.encrypted \/ c.encryptionPending
           \/ c.encryptionCommand \/ c.ltkRequest \/ c.ltkReplyCommand)
    ELSE /\ c.generation # 0 /\ c.generation < connGen
         /\ ~(c.encrypted /\ c.encryptionPending)
         /\ c.encryptionCommand =>
              c.encryptionPending /\ c.role = 0 /\ ~c.ltkRequest
         /\ c.ltkRequest =>
              c.role = 1 /\ ~c.encryptionPending /\ ~c.encrypted
         /\ c.ltkReplyCommand => c.ltkRequest
         /\ c.disconnectPending =>
              /\ disc.pending /\ disc.generation # 0
              /\ c.handle = disc.handle /\ c.generation = disc.generation

\* No handle and no generation names two entries.
EntriesDistinct ==
  \A s, t \in Present : s # t => /\ conns[s].handle # conns[t].handle
                                 /\ conns[s].generation # conns[t].generation

\* Exactly the entry a managed disconnect names is marked.
DisconnectMarked ==
  LET marked == {s \in Present : conns[s].disconnectPending}
  IN  IF disc.pending /\ disc.generation # 0
        THEN \E s \in Slots : marked = {s}
        ELSE marked = {}

\* The security command in flight belongs to an entry of the table.
SecurityCommandOwned ==
  CASE state \in {"ENCRYPTION_START_PENDING", "LTK_REPLY_PENDING"} ->
         /\ \E s \in Slots : SecurityCommands = {s}
         /\ pendingOpcode \in IF state = "LTK_REPLY_PENDING"
                               THEN LtkOpcodes ELSE {"LE_START_ENCRYPTION"}
    [] state = "FAILED" -> \A s, t \in SecurityCommands : s = t
    [] OTHER -> SecurityCommands = {}

TableValid ==
  /\ \A s \in Slots : ConnectionValid(conns[s])
  /\ EntriesDistinct
  /\ connCount = Cardinality(Present)
  /\ DisconnectMarked

\* controller_valid: the check at the head of every call.
ControllerValid ==
  /\ state # "UNINITIALIZED"   \* a destroyed controller has no version
  /\ resolution => privacy # <<>>
  /\ privacyIndex <= Len(privacy)
  /\ advActive => advConfigured /\ scanActive = "inactive"
  /\ connGen # 0
  /\ cancelPending => state \in {"CONNECT_CANCEL_PENDING", "FAILED"}
  /\ disc.pending => state \in {"DISCONNECT_PENDING", "FAILED"}
  /\ TableValid
  /\ SecurityCommandOwned

-----------------------------------------------------------------------------
(* Submitting commands *)

\* What send_command does: queue the command, refuse it, or break the rule
\* against touching the controller, which transport_send_checked detects.
Transport == {"ok", "error", "mutated"}

\* Mutant: the state is not restored when the transport refuses a command.
SubmitKeepsPending(r, op, pending, onError, onMutation) ==
  /\ pendingOpcode' = IF r = "ok" THEN op ELSE NoOpcode
  /\ state' = IF r = "mutated" THEN onMutation ELSE pending
  /\ scanActive' = IF r = "mutated" THEN "inactive" ELSE scanActive

\* submit_command and the clean-up of its caller.  A refused command leaves
\* the state the caller names; a mutation is failed by transport_send_checked
\* unless the caller overwrites that too.
Submit(r, op, pending, onError, onMutation) ==
  \/ /\ r = "ok"
     /\ pendingOpcode' = op
     /\ state' = pending
     /\ UNCHANGED scanActive
  \/ /\ r = "error"
     /\ pendingOpcode' = NoOpcode
     /\ state' = onError
     /\ UNCHANGED scanActive
  \/ /\ r = "mutated"
     /\ pendingOpcode' = NoOpcode
     /\ state' = onMutation
     /\ scanActive' = "inactive"

\* submit_initialization_command: the start-up chain fails closed.
SubmitInit(r, op, pending) == Submit(r, op, pending, "FAILED", "FAILED")

-----------------------------------------------------------------------------
(* Life cycle and configuration *)

\* rin_bluetooth_hci_init
Init ==
  /\ state = "IDLE" /\ pendingOpcode = NoOpcode
  /\ scanActive = "inactive" /\ scanFamily = "inactive"
  /\ localAddress = "none" /\ staticRandom = FALSE
  /\ privacy = <<>> /\ privacyIndex = 0 /\ resolution = FALSE
  /\ advConfigured = FALSE /\ advActive = FALSE
  /\ attempt = NoPeer /\ cancelPending = FALSE
  /\ disc = NoDisconnect /\ discPrevious = "UNINITIALIZED"
  /\ conns = [s \in Slots |-> NoConnection] /\ connCount = 0 /\ connGen = 1

\* bytes_zero of the controller record.
Zeroed ==
  /\ pendingOpcode' = NoOpcode
  /\ scanActive' = "inactive" /\ scanFamily' = "inactive"
  /\ localAddress' = "none" /\ staticRandom' = FALSE
  /\ privacy' = <<>> /\ privacyIndex' = 0 /\ resolution' = FALSE
  /\ advConfigured' = FALSE /\ advActive' = FALSE
  /\ attempt' = NoPeer /\ cancelPending' = FALSE
  /\ disc' = NoDisconnect /\ discPrevious' = "UNINITIALIZED"
  /\ conns' = [s \in Slots |-> NoConnection] /\ connCount' = 0

\* rin_bluetooth_hci_destroy zeroes the record, its version included.
Destroy ==
  /\ state # "UNINITIALIZED"
  /\ Zeroed /\ state' = "UNINITIALIZED" /\ connGen' = 0

\* rin_bluetooth_hci_init on the destroyed record.
Reinitialize ==
  /\ state = "UNINITIALIZED"
  /\ Zeroed /\ state' = "IDLE" /\ connGen' = 1

\* The guard of the configuration calls and of start.
Idle == state = "IDLE" /\ pendingOpcode = NoOpcode

ConfigureStaticRandomAddress ==
  /\ Idle
  /\ staticRandom' = TRUE
  /\ UNCHANGED <<cmdVars, localAddress, privacy, privacyIndex, resolution,
                 radioVars, linkVars>>

\* privacy_config_valid: one to MaxPrivacyPeers peers, no two the same.
PrivacyConfigValid(config) ==
  /\ Len(config) \in 1..MaxPrivacyPeers
  /\ \A i, j \in 1..Len(config) : i # j => config[i] # config[j]

ConfigurePrivacy(config) ==
  /\ Idle
  /\ PrivacyConfigValid(config)
  /\ privacy' = config
  /\ privacyIndex' = 0
  /\ resolution' = FALSE
  /\ UNCHANGED <<cmdVars, localAddress, staticRandom, radioVars, linkVars>>

Start(r) ==
  /\ Idle
  /\ Submit(r, "RESET", "RESET_PENDING", "IDLE", "FAILED")
  /\ UNCHANGED <<setupVars, radioVars, linkVars>>

-----------------------------------------------------------------------------
(* Scanning and advertising calls *)

\* Mutant: an outstanding command does not keep a call out.
ReadyIgnoresPending == state = "READY"

Ready == state = "READY" /\ pendingOpcode = NoOpcode

\* start_scan, start_extended_scan and start_extended_scan_config: a
\* controller that used one command family refuses the other.
StartScan(family, r) ==
  /\ Ready
  /\ ~advActive
  /\ scanFamily \in {"inactive", family}
  /\ Submit(r, IF family = "legacy" THEN "LE_SCAN_PARAMS"
                                   ELSE "LE_EXT_SCAN_PARAMS",
            "SCAN_PARAMS_PENDING", "READY", "FAILED")
  /\ scanFamily' = IF r = "ok" THEN family ELSE scanFamily
  /\ UNCHANGED <<setupVars, advConfigured, advActive, linkVars>>

StopScan(r) ==
  /\ state = "SCANNING"
  /\ scanActive # "inactive"
  /\ pendingOpcode = NoOpcode
  /\ Submit(r, IF scanActive = "legacy" THEN "LE_SCAN_ENABLE"
                                       ELSE "LE_EXT_SCAN_ENABLE",
            "SCAN_DISABLE_PENDING", "SCANNING", "FAILED")
  /\ UNCHANGED <<setupVars, radioVars, linkVars>>

\* The own-address types a caller may name: the address the controller has,
\* or a resolvable private address when resolution is enabled.
OwnAddressAvailable(own) ==
  \/ own \in {"public", "random"} /\ own = localAddress
  \/ own = "resolvable" /\ resolution

StartAdvertising(own, r) ==
  /\ Ready
  /\ scanActive = "inactive"
  /\ ~advActive
  /\ OwnAddressAvailable(own)
  /\ Submit(r, "LE_ADV_PARAMS", "ADV_PARAMS_PENDING", "READY", "FAILED")
  /\ advConfigured' = (r = "ok")
  /\ UNCHANGED <<setupVars, scanFamily, advActive, linkVars>>

StopAdvertising(r) ==
  /\ Ready
  /\ advActive
  /\ Submit(r, "LE_ADV_ENABLE", "ADV_DISABLE_PENDING", "READY", "FAILED")
  /\ UNCHANGED <<setupVars, radioVars, linkVars>>

-----------------------------------------------------------------------------
(* Connection and encryption calls *)

\* privacy_identity_known: a resolved identity (type 2 or 3) counts only when
\* the resolving list holds it and resolution is enabled.
IdentityOf(peer) == [type |-> peer.type - 2, addr |-> peer.addr]
IdentityKnown(peer) ==
  \/ peer.type < 2
  \/ resolution /\ \E i \in 1..Len(privacy) : privacy[i] = IdentityOf(peer)

StartConnection(peer, own, r) ==
  /\ Ready
  /\ scanActive = "inactive"
  /\ ~advActive
  /\ attempt = NoPeer /\ ~cancelPending /\ ~disc.pending
  /\ connCount < MaxConnections
  /\ connGen # MaxGeneration
  /\ OwnAddressAvailable(own)
  /\ IdentityKnown(peer)
  /\ \A s \in Present : conns[s].peer # peer
  /\ Submit(r, "LE_CREATE_CONNECTION", "CONNECT_PENDING", "READY", "FAILED")
  /\ attempt' = IF r = "ok" THEN peer ELSE NoPeer
  /\ cancelPending' = FALSE
  /\ UNCHANGED <<setupVars, radioVars, discVars, connVars>>

CancelConnection(r) ==
  /\ state = "CONNECTING"
  /\ pendingOpcode = NoOpcode
  /\ attempt # NoPeer
  /\ ~cancelPending
  /\ Submit(r, "LE_CREATE_CONNECTION_CANCEL", "CONNECT_CANCEL_PENDING",
            "CONNECTING", "FAILED")
  /\ cancelPending' = (r = "ok")
  /\ UNCHANGED <<setupVars, radioVars, attempt, discVars, connVars>>

Disconnect(h, g, r) ==
  /\ Ready
  /\ ~disc.pending
  /\ \E s \in Slots :
       /\ Pinned(s, h, g)
       /\ Submit(r, "DISCONNECT", "DISCONNECT_PENDING", "READY", "FAILED")
       /\ disc' = IF r = "ok"
                    THEN [pending |-> TRUE, handle |-> h, generation |-> g]
                    ELSE NoDisconnect
       /\ discPrevious' = "READY"
       /\ conns' = [conns EXCEPT ![s] =
                      [@ EXCEPT !.disconnectPending = (r = "ok")]]
  /\ UNCHANGED <<setupVars, radioVars, attempt, cancelPending, connCount,
                 connGen>>

StartEncryption(h, g, r) ==
  /\ Ready
  /\ \E s \in Slots :
       /\ Pinned(s, h, g)
       /\ conns[s].role = 0
       /\ ~(\/ conns[s].encrypted \/ conns[s].encryptionPending
            \/ conns[s].ltkRequest \/ conns[s].disconnectPending)
       /\ Submit(r, "LE_START_ENCRYPTION", "ENCRYPTION_START_PENDING",
                 "READY", "FAILED")
       /\ conns' = [conns EXCEPT ![s] =
                      [@ EXCEPT !.encryptionPending = (r = "ok"),
                                !.encryptionCommand = (r = "ok"),
                                !.encrypted = FALSE]]
  /\ UNCHANGED <<setupVars, radioVars, attempt, cancelPending, discVars,
                 connCount, connGen>>

\* The entry whose captured LTK request a caller may answer.
LtkAnswerable(s, h, g) ==
  /\ Pinned(s, h, g)
  /\ conns[s].role = 1 /\ conns[s].ltkRequest
  /\ ~(\/ conns[s].ltkReplyCommand \/ conns[s].encrypted
       \/ conns[s].encryptionPending \/ conns[s].disconnectPending)

\* reply_ltk_request and reject_ltk_request.  Without an answerable entry the
\* call is refused and nothing changes.
AnswerLtkRequest(h, g, op, r) ==
  /\ Ready
  /\ IF \E s \in Slots : LtkAnswerable(s, h, g)
       THEN /\ Submit(r, op, "LTK_REPLY_PENDING", "READY", "FAILED")
            /\ conns' = [s \in Slots |->
                          IF LtkAnswerable(s, h, g)
                            THEN [conns[s] EXCEPT !.ltkReplyCommand = (r = "ok")]
                            ELSE conns[s]]
       ELSE UNCHANGED <<cmdVars, conns>>
  /\ UNCHANGED <<setupVars, radioVars, attempt, cancelPending, discVars,
                 connCount, connGen>>

-----------------------------------------------------------------------------
(* Command Complete events *)

\* The event answers the outstanding command in the state that awaits it.
Answers(op, st) == pendingOpcode = op /\ state = st

CompleteReset(r) ==
  /\ Answers("RESET", "RESET_PENDING")
  /\ SubmitInit(r, "READ_BD_ADDR", "ADDRESS_PENDING")
  /\ UNCHANGED <<setupVars, radioVars, linkVars>>

\* submit_privacy_or_event_mask, which follows the address commands.
SubmitPrivacyOrEventMask(r) ==
  IF privacy = <<>>
    THEN /\ SubmitInit(r, "LE_EVENT_MASK", "EVENT_MASK_PENDING")
         /\ UNCHANGED privacyIndex
    ELSE /\ SubmitInit(r, "LE_CLEAR_RESOLVING", "PRIVACY_CLEAR_PENDING")
         /\ privacyIndex' = 0

\* READ_BD_ADDR answered; public says whether the address is not all zero.
CompleteReadAddress(public, r) ==
  /\ Answers("READ_BD_ADDR", "ADDRESS_PENDING")
  /\ localAddress' = IF public THEN "public" ELSE localAddress
  /\ IF staticRandom
       THEN /\ SubmitInit(r, "LE_RANDOM_ADDR", "RANDOM_ADDRESS_PENDING")
            /\ UNCHANGED privacyIndex
       ELSE IF localAddress' = "none"
              THEN /\ state' = "FAILED"
                   /\ pendingOpcode' = NoOpcode
                   /\ UNCHANGED <<scanActive, privacyIndex>>
              ELSE SubmitPrivacyOrEventMask(r)
  /\ UNCHANGED <<staticRandom, privacy, resolution, radioVars, linkVars>>

CompleteRandomAddress(r) ==
  /\ Answers("LE_RANDOM_ADDR", "RANDOM_ADDRESS_PENDING")
  /\ localAddress' = "random"
  /\ SubmitPrivacyOrEventMask(r)
  /\ UNCHANGED <<staticRandom, privacy, resolution, radioVars, linkVars>>

CompleteClearResolving(r) ==
  /\ Answers("LE_CLEAR_RESOLVING", "PRIVACY_CLEAR_PENDING")
  /\ privacyIndex' = 0
  /\ SubmitInit(r, "LE_ADD_RESOLVING", "PRIVACY_ADD_PENDING")
  /\ UNCHANGED <<localAddress, staticRandom, privacy, resolution, radioVars,
                 linkVars>>

\* One peer of the resolving list added: the next one, or the first's mode.
CompleteAddResolving(r) ==
  /\ Answers("LE_ADD_RESOLVING", "PRIVACY_ADD_PENDING")
  /\ \/ /\ privacyIndex + 1 < Len(privacy)
        /\ privacyIndex' = privacyIndex + 1
        /\ SubmitInit(r, "LE_ADD_RESOLVING", "PRIVACY_ADD_PENDING")
     \/ /\ privacyIndex + 1 >= Len(privacy)
        /\ privacyIndex' = 0
        /\ SubmitInit(r, "LE_PRIVACY_MODE", "PRIVACY_MODE_PENDING")
  /\ UNCHANGED <<localAddress, staticRandom, privacy, resolution, radioVars,
                 linkVars>>

\* Mutant: the privacy mode of the last peer is never set.
CompletePrivacyModeShort(r) ==
  /\ Answers("LE_PRIVACY_MODE", "PRIVACY_MODE_PENDING")
  /\ privacyIndex' = privacyIndex + 1
  /\ IF privacyIndex' + 1 < Len(privacy)
       THEN SubmitInit(r, "LE_PRIVACY_MODE", "PRIVACY_MODE_PENDING")
       ELSE SubmitInit(r, "LE_RPA_TIMEOUT", "PRIVACY_TIMEOUT_PENDING")
  /\ UNCHANGED <<localAddress, staticRandom, privacy, resolution, radioVars,
                 linkVars>>

CompletePrivacyMode(r) ==
  /\ Answers("LE_PRIVACY_MODE", "PRIVACY_MODE_PENDING")
  /\ privacyIndex' = privacyIndex + 1
  /\ IF privacyIndex' < Len(privacy)
       THEN SubmitInit(r, "LE_PRIVACY_MODE", "PRIVACY_MODE_PENDING")
       ELSE SubmitInit(r, "LE_RPA_TIMEOUT", "PRIVACY_TIMEOUT_PENDING")
  /\ UNCHANGED <<localAddress, staticRandom, privacy, resolution, radioVars,
                 linkVars>>

CompleteRpaTimeout(r) ==
  /\ Answers("LE_RPA_TIMEOUT", "PRIVACY_TIMEOUT_PENDING")
  /\ SubmitInit(r, "LE_RESOLUTION_ENABLE", "PRIVACY_ENABLE_PENDING")
  /\ UNCHANGED <<setupVars, radioVars, linkVars>>

CompleteResolutionEnable(r) ==
  /\ Answers("LE_RESOLUTION_ENABLE", "PRIVACY_ENABLE_PENDING")
  /\ resolution' = TRUE
  /\ SubmitInit(r, "LE_EVENT_MASK", "EVENT_MASK_PENDING")
  /\ UNCHANGED <<localAddress, staticRandom, privacy, privacyIndex, radioVars,
                 linkVars>>

\* The parameters of a scan accepted: enable it.  This caller puts READY over
\* the FAILED a transport mutation leaves.
CompleteScanParams(r) ==
  /\ \/ Answers("LE_SCAN_PARAMS", "SCAN_PARAMS_PENDING")
     \/ Answers("LE_EXT_SCAN_PARAMS", "SCAN_PARAMS_PENDING")
  /\ \/ /\ r = "ok"
        /\ pendingOpcode' = IF pendingOpcode = "LE_SCAN_PARAMS"
                              THEN "LE_SCAN_ENABLE" ELSE "LE_EXT_SCAN_ENABLE"
        /\ state' = "SCAN_ENABLE_PENDING"
        /\ UNCHANGED scanActive
     \/ /\ r # "ok"
        /\ pendingOpcode' = NoOpcode
        /\ state' = "READY"
        /\ scanActive' = "inactive"
  /\ UNCHANGED <<setupVars, radioVars, linkVars>>

CompleteScanEnable ==
  /\ \/ Answers("LE_SCAN_ENABLE", "SCAN_ENABLE_PENDING")
     \/ Answers("LE_EXT_SCAN_ENABLE", "SCAN_ENABLE_PENDING")
  /\ scanActive' = IF pendingOpcode = "LE_SCAN_ENABLE" THEN "legacy"
                                                      ELSE "extended"
  /\ state' = "SCANNING"
  /\ pendingOpcode' = NoOpcode
  /\ UNCHANGED <<setupVars, radioVars, linkVars>>

\* A disable is accepted only for the family that is scanning.
CompleteScanDisable ==
  /\ \/ Answers("LE_SCAN_ENABLE", "SCAN_DISABLE_PENDING")
     \/ Answers("LE_EXT_SCAN_ENABLE", "SCAN_DISABLE_PENDING")
  /\ pendingOpcode' = NoOpcode
  /\ IF scanActive = (IF pendingOpcode = "LE_SCAN_ENABLE" THEN "legacy"
                                                         ELSE "extended")
       THEN state' = "READY" /\ scanActive' = "inactive"
       ELSE state' = "FAILED" /\ UNCHANGED scanActive
  /\ UNCHANGED <<setupVars, radioVars, linkVars>>

\* submit_advertising_payload, submit_advertising_enable: parameters, data,
\* scan response, enable.
CompleteAdvertisingStep(r) ==
  /\ \/ /\ Answers("LE_ADV_PARAMS", "ADV_PARAMS_PENDING")
        /\ Submit(r, "LE_ADV_DATA", "ADV_DATA_PENDING", "READY", "FAILED")
     \/ /\ Answers("LE_ADV_DATA", "ADV_DATA_PENDING")
        /\ Submit(r, "LE_SCAN_RSP_DATA", "SCAN_RSP_DATA_PENDING",
                  "READY", "FAILED")
     \/ /\ Answers("LE_SCAN_RSP_DATA", "SCAN_RSP_DATA_PENDING")
        /\ Submit(r, "LE_ADV_ENABLE", "ADV_ENABLE_PENDING",
                  "READY", "FAILED")
  /\ advActive' = IF r = "ok" THEN advActive ELSE FALSE
  /\ UNCHANGED <<setupVars, scanFamily, advConfigured, linkVars>>

CompleteAdvertisingSwitch ==
  /\ \/ /\ Answers("LE_ADV_ENABLE", "ADV_ENABLE_PENDING")
        /\ advActive' = TRUE
        /\ state' = "READY"
     \/ /\ Answers("LE_ADV_ENABLE", "ADV_DISABLE_PENDING")
        /\ advActive' = FALSE
        /\ state' = IF advActive THEN "READY" ELSE "FAILED"
  /\ pendingOpcode' = NoOpcode
  /\ UNCHANGED <<scanActive, setupVars, scanFamily, advConfigured, linkVars>>

\* The last command of the start-up chain, or the answer to an LTK request.
\* An LTK reply turns the captured request into pending encryption.
CompleteToReady ==
  /\ <<pendingOpcode, state>> \in {<<"LE_EVENT_MASK", "EVENT_MASK_PENDING">>}
                                 \cup LtkOpcodes \X {"LTK_REPLY_PENDING"}
  /\ state' = "READY"
  /\ pendingOpcode' = NoOpcode
  /\ conns' = [s \in Slots |->
                IF state = "LTK_REPLY_PENDING" /\ conns[s].ltkReplyCommand
                  THEN [conns[s] EXCEPT
                          !.ltkReplyCommand = FALSE, !.ltkRequest = FALSE,
                          !.encryptionPending = (pendingOpcode = "LE_LTK_REPLY"),
                          !.encrypted = FALSE]
                  ELSE conns[s]]
  /\ UNCHANGED <<scanActive, setupVars, radioVars, attempt, cancelPending,
                 discVars, connCount, connGen>>

CompleteCancel ==
  /\ Answers("LE_CREATE_CONNECTION_CANCEL", "CONNECT_CANCEL_PENDING")
  /\ state' = "READY"
  /\ pendingOpcode' = NoOpcode
  /\ attempt' = NoPeer
  /\ cancelPending' = FALSE
  /\ UNCHANGED <<scanActive, setupVars, radioVars, discVars, connVars>>

\* The commands whose Command Complete is expected, each with its state.
Expected ==
  {<<"RESET", "RESET_PENDING">>, <<"READ_BD_ADDR", "ADDRESS_PENDING">>,
   <<"LE_RANDOM_ADDR", "RANDOM_ADDRESS_PENDING">>,
   <<"LE_CLEAR_RESOLVING", "PRIVACY_CLEAR_PENDING">>,
   <<"LE_ADD_RESOLVING", "PRIVACY_ADD_PENDING">>,
   <<"LE_PRIVACY_MODE", "PRIVACY_MODE_PENDING">>,
   <<"LE_RPA_TIMEOUT", "PRIVACY_TIMEOUT_PENDING">>,
   <<"LE_RESOLUTION_ENABLE", "PRIVACY_ENABLE_PENDING">>,
   <<"LE_EVENT_MASK", "EVENT_MASK_PENDING">>,
   <<"LE_CREATE_CONNECTION_CANCEL", "CONNECT_CANCEL_PENDING">>,
   <<"LE_ADV_PARAMS", "ADV_PARAMS_PENDING">>,
   <<"LE_ADV_DATA", "ADV_DATA_PENDING">>,
   <<"LE_SCAN_RSP_DATA", "SCAN_RSP_DATA_PENDING">>,
   <<"LE_ADV_ENABLE", "ADV_ENABLE_PENDING">>,
   <<"LE_ADV_ENABLE", "ADV_DISABLE_PENDING">>,
   <<"LE_LTK_REPLY", "LTK_REPLY_PENDING">>,
   <<"LE_LTK_NEGATIVE_REPLY", "LTK_REPLY_PENDING">>}
  \cup {"LE_SCAN_PARAMS", "LE_EXT_SCAN_PARAMS"} \X {"SCAN_PARAMS_PENDING"}
  \cup {"LE_SCAN_ENABLE", "LE_EXT_SCAN_ENABLE"}
         \X {"SCAN_ENABLE_PENDING", "SCAN_DISABLE_PENDING"}

\* Command Complete for anything else: command_complete falls through.
CompleteUnexpected ==
  /\ pendingOpcode # NoOpcode
  /\ <<pendingOpcode, state>> \notin Expected
  /\ pendingOpcode' = NoOpcode
  /\ state' = IF pendingOpcode \in LtkOpcodes THEN state ELSE "FAILED"
  /\ localAddress' \in IF pendingOpcode = "READ_BD_ADDR"
                         THEN {localAddress, "public"} ELSE {localAddress}
  /\ UNCHANGED <<scanActive, staticRandom, privacy, privacyIndex, resolution,
                 radioVars, linkVars>>

-----------------------------------------------------------------------------
(* Command Status events, and failed commands *)

\* Where controller_command_failed sends each state; the others fail.
FailedTo ==
  CASE state \in {"SCAN_PARAMS_PENDING", "SCAN_ENABLE_PENDING",
                  "ADV_PARAMS_PENDING", "ADV_DATA_PENDING",
                  "SCAN_RSP_DATA_PENDING", "ADV_ENABLE_PENDING",
                  "CONNECT_PENDING", "ENCRYPTION_START_PENDING",
                  "LTK_REPLY_PENDING"} -> "READY"
    [] state = "SCAN_DISABLE_PENDING" ->
         IF scanActive = "inactive" THEN "FAILED" ELSE "SCANNING"
    [] state = "ADV_DISABLE_PENDING" -> IF advActive THEN "READY" ELSE "FAILED"
    [] state = "CONNECT_CANCEL_PENDING" ->
         IF attempt = NoPeer THEN "READY" ELSE "CONNECTING"
    [] state = "DISCONNECT_PENDING" ->
         IF disc.generation = 0 THEN "FAILED" ELSE discPrevious
    [] OTHER -> "FAILED"

\* Mutant: a refused disconnect leaves its mark on the entry.
FailedEntryKeepsMark(c) ==
  CASE state = "ENCRYPTION_START_PENDING" /\ c.encryptionCommand ->
         [c EXCEPT !.encryptionCommand = FALSE, !.encryptionPending = FALSE,
                   !.encrypted = FALSE]
    [] state = "LTK_REPLY_PENDING" -> [c EXCEPT !.ltkReplyCommand = FALSE]
    [] OTHER -> c

\* What the failed command leaves of a table entry.
FailedEntry(c) ==
  CASE /\ state = "DISCONNECT_PENDING" /\ c.present
       /\ c.handle = disc.handle /\ c.generation = disc.generation ->
         [c EXCEPT !.disconnectPending = FALSE]
    [] state = "ENCRYPTION_START_PENDING" /\ c.encryptionCommand ->
         [c EXCEPT !.encryptionCommand = FALSE, !.encryptionPending = FALSE,
                   !.encrypted = FALSE]
    [] state = "LTK_REPLY_PENDING" -> [c EXCEPT !.ltkReplyCommand = FALSE]
    [] OTHER -> c

\* Command Complete or Command Status with a failure status.
CommandFailed ==
  /\ pendingOpcode # NoOpcode
  /\ pendingOpcode' = NoOpcode
  /\ state' = FailedTo
  /\ scanActive' = IF \/ state \in {"SCAN_PARAMS_PENDING", "SCAN_ENABLE_PENDING"}
                      \/ FailedTo = "FAILED" /\ state \notin
                           {"ADV_DISABLE_PENDING", "DISCONNECT_PENDING"}
                     THEN "inactive" ELSE scanActive
  /\ advActive' = IF state \in {"ADV_PARAMS_PENDING", "ADV_DATA_PENDING",
                                "SCAN_RSP_DATA_PENDING", "ADV_ENABLE_PENDING"}
                    THEN FALSE ELSE advActive
  /\ attempt' = IF state = "CONNECT_PENDING" THEN NoPeer ELSE attempt
  /\ cancelPending' = IF state \in {"CONNECT_PENDING", "CONNECT_CANCEL_PENDING"}
                        THEN FALSE ELSE cancelPending
  /\ IF state = "DISCONNECT_PENDING"
       THEN disc' = NoDisconnect /\ discPrevious' = "READY"
       ELSE UNCHANGED discVars
  /\ conns' = [s \in Slots |-> FailedEntry(conns[s])]
  /\ UNCHANGED <<setupVars, scanFamily, advConfigured, connCount, connGen>>

\* Mutant: the status is taken only while the attempt is alive.
StatusCreateConnectionNeedsAttempt ==
  /\ Answers("LE_CREATE_CONNECTION", "CONNECT_PENDING")
  /\ attempt # NoPeer
  /\ pendingOpcode' = NoOpcode
  /\ state' = "CONNECTING"
  /\ UNCHANGED <<scanActive, setupVars, radioVars, linkVars>>

StatusCreateConnection ==
  /\ Answers("LE_CREATE_CONNECTION", "CONNECT_PENDING")
  /\ pendingOpcode' = NoOpcode
  /\ state' = "CONNECTING"
  /\ UNCHANGED <<scanActive, setupVars, radioVars, linkVars>>

\* The Disconnection Complete event may have come first.
StatusDisconnect ==
  /\ pendingOpcode = "DISCONNECT"
  /\ pendingOpcode' = NoOpcode
  /\ IF disc.pending
       THEN UNCHANGED <<state, discPrevious>>
       ELSE state' = discPrevious /\ discPrevious' = "READY"
  /\ UNCHANGED <<scanActive, setupVars, radioVars, attempt, cancelPending,
                 disc, connVars>>

\* Mutant: the accepted command is taken for encryption.
StatusStartEncryptionEarly ==
  /\ Answers("LE_START_ENCRYPTION", "ENCRYPTION_START_PENDING")
  /\ pendingOpcode' = NoOpcode
  /\ state' = "READY"
  /\ conns' = [s \in Slots |->
                IF conns[s].encryptionCommand
                  THEN [conns[s] EXCEPT !.encryptionCommand = FALSE,
                          !.encryptionPending = FALSE, !.encrypted = TRUE]
                  ELSE conns[s]]
  /\ UNCHANGED <<scanActive, setupVars, radioVars, attempt, cancelPending,
                 discVars, connCount, connGen>>

\* controller_valid has made sure that one entry owns the command.
StatusStartEncryption ==
  /\ Answers("LE_START_ENCRYPTION", "ENCRYPTION_START_PENDING")
  /\ pendingOpcode' = NoOpcode
  /\ state' = "READY"
  /\ conns' = [s \in Slots |-> [conns[s] EXCEPT !.encryptionCommand = FALSE]]
  /\ UNCHANGED <<scanActive, setupVars, radioVars, attempt, cancelPending,
                 discVars, connCount, connGen>>

-----------------------------------------------------------------------------
(* Connection events *)

\* submit_disconnect_handle for a link the table does not hold: generation 0.
\* Its callers fail the controller when the command cannot be sent.
CanTearDown(h) ==
  /\ h \in Handles
  /\ ~HandlePresent(h)
  /\ pendingOpcode = NoOpcode
  /\ ~disc.pending

TearDown(h, r) ==
  /\ Submit(r, "DISCONNECT", "DISCONNECT_PENDING", "FAILED", "FAILED")
  /\ disc' = IF r = "ok"
               THEN [pending |-> TRUE, handle |-> h, generation |-> 0]
               ELSE NoDisconnect
  /\ discPrevious' = "READY"

FailController ==
  /\ state' = "FAILED"
  /\ UNCHANGED <<pendingOpcode, scanActive>>

\* connection_peer_matches; rpa is the peer's resolvable address of the
\* enhanced event, NoPeer for the plain one.
PeerMatches(peer, rpa) ==
  \/ peer = attempt
  \/ /\ peer.type >= 2
     /\ IdentityKnown(peer)
     /\ \/ attempt = IdentityOf(peer)
        \/ attempt.type = 1 /\ attempt.addr = rpa

\* Mutant: a link nobody asked for is ignored.
ConnectionUnsolicitedIgnored(h, r) ==
  /\ attempt = NoPeer
  /\ r = "ok"
  /\ UNCHANGED vars

\* A link reported up that nobody asked for.
ConnectionUnsolicited(h, r) ==
  /\ attempt = NoPeer
  /\ IF CanTearDown(h) /\ state \in {"READY", "CONNECTING"}
       THEN TearDown(h, r)
       ELSE FailController /\ UNCHANGED discVars
  /\ UNCHANGED <<setupVars, radioVars, attempt, cancelPending, connVars>>

\* The attempt failed in the air.  clear_connection_attempt.
ConnectionFailed ==
  /\ attempt # NoPeer
  /\ attempt' = NoPeer
  /\ state' = IF ~cancelPending /\ state = "CONNECTING" THEN "READY" ELSE state
  /\ UNCHANGED <<pendingOpcode, scanActive, setupVars, radioVars,
                 cancelPending, discVars, connVars>>

\* An event of the wrong size ends the attempt and the controller.
ConnectionMalformed ==
  /\ attempt # NoPeer
  /\ attempt' = NoPeer
  /\ FailController
  /\ UNCHANGED <<setupVars, radioVars, cancelPending, discVars, connVars>>

\* A link up before the command was even accepted.
ConnectionEarly ==
  /\ attempt # NoPeer
  /\ state \notin {"CONNECTING", "CONNECT_CANCEL_PENDING"}
  /\ FailController
  /\ UNCHANGED <<setupVars, radioVars, linkVars>>

\* The reported link is the one that was asked for.  fieldsOk stands for the
\* address, timing and clock-accuracy checks.
Acceptable(h, role, peer, rpa, fieldsOk) ==
  /\ h \in Handles
  /\ role = 0
  /\ fieldsOk
  /\ IdentityKnown(peer)
  /\ PeerMatches(peer, rpa)
  /\ ~HandlePresent(h)

ConnectionRefused(h, role, peer, rpa, fieldsOk, r) ==
  /\ attempt # NoPeer
  /\ state \in {"CONNECTING", "CONNECT_CANCEL_PENDING"}
  /\ \/ ~Acceptable(h, role, peer, rpa, fieldsOk)
     \/ FreeSlots = {}
     \/ connGen = MaxGeneration
  /\ attempt' = NoPeer
  /\ IF CanTearDown(h) /\ ~cancelPending
       THEN TearDown(h, r)
       ELSE FailController /\ UNCHANGED discVars
  /\ UNCHANGED <<setupVars, radioVars, cancelPending, connVars>>

\* The link enters the first free slot under a generation of its own.  The
\* event may have raced a cancel command, which then stays outstanding.
ConnectionAccepted(h, role, peer, rpa, fieldsOk) ==
  /\ attempt # NoPeer
  /\ state \in {"CONNECTING", "CONNECT_CANCEL_PENDING"}
  /\ Acceptable(h, role, peer, rpa, fieldsOk)
  /\ connGen # MaxGeneration
  /\ \E slot \in FreeSlots :
       /\ \A s \in FreeSlots : slot <= s
       /\ conns' = [conns EXCEPT ![slot] = NewConnection(h, connGen, role, peer)]
  /\ connGen' = connGen + 1
  /\ connCount' = connCount + 1
  /\ attempt' = NoPeer
  /\ state' = IF cancelPending THEN "CONNECT_CANCEL_PENDING" ELSE "READY"
  /\ UNCHANGED <<pendingOpcode, scanActive, setupVars, radioVars,
                 cancelPending, discVars>>

\* Disconnection Complete with a failure status: only a disconnect of this
\* runtime that names the handle is affected.
DisconnectionFailed(h) ==
  /\ disc.pending /\ disc.handle = h
  /\ conns' = [s \in Slots |->
                IF Pinned(s, h, disc.generation)
                  THEN [conns[s] EXCEPT !.disconnectPending = FALSE]
                  ELSE conns[s]]
  /\ state' = IF disc.generation = 0 THEN "FAILED" ELSE discPrevious
  /\ disc' = NoDisconnect
  /\ discPrevious' = "READY"
  /\ UNCHANGED <<pendingOpcode, scanActive, setupVars, radioVars, attempt,
                 cancelPending, connCount, connGen>>

\* Mutant: only a disconnect of a table entry is recognised.
DisconnectionCompleteManaged(h) ==
  LET matched == disc.pending /\ disc.handle = h /\ disc.generation # 0
  IN  /\ matched \/ HandlePresent(h)
      /\ conns' = [s \in Slots |->
                    IF conns[s].present /\ conns[s].handle = h
                      THEN NoConnection ELSE conns[s]]
      /\ connCount' = IF HandlePresent(h) THEN connCount - 1 ELSE connCount
      /\ IF matched
           THEN /\ state' = discPrevious
                /\ disc' = NoDisconnect
                /\ discPrevious' = "READY"
           ELSE UNCHANGED <<state, discVars>>
      /\ UNCHANGED <<pendingOpcode, scanActive, setupVars, radioVars, attempt,
                     cancelPending, connGen>>

\* Mutant: an empty table starts its generations again.
DisconnectionCompleteRestarts(h) ==
  LET matched == disc.pending /\ disc.handle = h
  IN  /\ matched \/ HandlePresent(h)
      /\ conns' = [s \in Slots |->
                    IF conns[s].present /\ conns[s].handle = h
                      THEN NoConnection ELSE conns[s]]
      /\ connCount' = IF HandlePresent(h) THEN connCount - 1 ELSE connCount
      /\ IF matched
           THEN /\ state' = discPrevious
                /\ disc' = NoDisconnect
                /\ discPrevious' = "READY"
           ELSE UNCHANGED <<state, discVars>>
      /\ connGen' = IF connCount' = 0 THEN 1 ELSE connGen
      /\ UNCHANGED <<pendingOpcode, scanActive, setupVars, radioVars, attempt,
                     cancelPending>>

\* A link is down: its entry is zeroed, whatever command it was waiting for.
DisconnectionComplete(h) ==
  LET matched == disc.pending /\ disc.handle = h
  IN  /\ matched \/ HandlePresent(h)
      /\ conns' = [s \in Slots |->
                    IF conns[s].present /\ conns[s].handle = h
                      THEN NoConnection ELSE conns[s]]
      /\ connCount' = IF HandlePresent(h) THEN connCount - 1 ELSE connCount
      /\ IF matched
           THEN /\ state' = discPrevious
                /\ disc' = NoDisconnect
                /\ discPrevious' = "READY"
           ELSE UNCHANGED <<state, discVars>>
      /\ UNCHANGED <<pendingOpcode, scanActive, setupVars, radioVars, attempt,
                     cancelPending, connGen>>

-----------------------------------------------------------------------------
(* Encryption events *)

\* long_term_key_request: captured for a peripheral link that is idle.
LongTermKeyRequest(h) ==
  /\ HandlePresent(h)
  /\ conns' = [s \in Slots |->
                LET c == conns[s]
                IN  IF /\ c.present /\ c.handle = h /\ c.role = 1
                       /\ ~(\/ c.encrypted \/ c.encryptionPending
                            \/ c.ltkRequest \/ c.disconnectPending)
                      THEN [c EXCEPT !.ltkRequest = TRUE] ELSE c]
  /\ UNCHANGED <<cmdVars, setupVars, radioVars, attempt, cancelPending,
                 discVars, connCount, connGen>>

\* encryption_change.  It is refused while a security command of the entry is
\* unanswered; "on" needs pending encryption.
EncryptionChange(h, ok, enabled) ==
  /\ \E s \in Present :
       LET c == conns[s]
       IN  /\ c.handle = h
           /\ ~c.encryptionCommand /\ ~c.ltkReplyCommand
           /\ ok /\ enabled => c.encryptionPending /\ ~c.ltkRequest
           /\ conns' = [conns EXCEPT ![s] =
                          [@ EXCEPT !.encrypted = (ok /\ enabled),
                                    !.encryptionPending = FALSE,
                                    !.ltkRequest = (ok /\ c.ltkRequest)]]
  /\ UNCHANGED <<cmdVars, setupVars, radioVars, attempt, cancelPending,
                 discVars, connCount, connGen>>

\* An advertising report whose time stamp callback touched the controller:
\* monotonic_ms_checked.
ReportClockMutated ==
  /\ state = "SCANNING"
  /\ scanActive # "inactive"
  /\ pendingOpcode' = NoOpcode
  /\ scanActive' = "inactive"
  /\ state' = "FAILED"
  /\ UNCHANGED <<setupVars, radioVars, linkVars>>

-----------------------------------------------------------------------------
OwnAddresses == {"public", "random", "resolvable"}

\* Configuration and the start-up chain.
SetupStep ==
  \/ ConfigureStaticRandomAddress
  \/ \E config \in PrivacyConfigs : ConfigurePrivacy(config)
  \/ \E r \in Transport :
       \/ Start(r) \/ CompleteReset(r) \/ CompleteRandomAddress(r)
       \/ CompleteClearResolving(r) \/ CompleteAddResolving(r)
       \/ CompletePrivacyMode(r) \/ CompleteRpaTimeout(r)
       \/ CompleteResolutionEnable(r)
       \/ \E public \in BOOLEAN : CompleteReadAddress(public, r)

\* Scanning and advertising.
RadioStep ==
  \/ CompleteScanEnable \/ CompleteScanDisable \/ CompleteAdvertisingSwitch
  \/ ReportClockMutated
  \/ \E r \in Transport :
       \/ StopScan(r) \/ StopAdvertising(r)
       \/ CompleteScanParams(r) \/ CompleteAdvertisingStep(r)
       \/ \E family \in {"legacy", "extended"} : StartScan(family, r)
       \/ \E own \in OwnAddresses : StartAdvertising(own, r)

\* Connection attempts, and links that are refused.
AttemptStep ==
  \/ CompleteCancel \/ StatusCreateConnection \/ StatusDisconnect
  \/ ConnectionFailed \/ ConnectionMalformed \/ ConnectionEarly
  \/ \E r \in Transport :
       \/ CancelConnection(r)
       \/ \E peer \in Peers, own \in OwnAddresses :
            StartConnection(peer, own, r)
       \/ \E h \in Handles \cup {BadHandle} :
            \/ ConnectionUnsolicited(h, r)
            \/ \E role \in {0, 1}, peer \in Peers,
                  rpa \in Addresses \cup {NoPeer}, fieldsOk \in BOOLEAN :
                 ConnectionRefused(h, role, peer, rpa, fieldsOk, r)

\* Links that enter and leave the table.
TableStep ==
  \E h \in Handles :
    \/ \E g \in Generations \ {0}, r \in Transport : Disconnect(h, g, r)
    \/ \E role \in {0, 1}, peer \in Peers, rpa \in Addresses \cup {NoPeer} :
         ConnectionAccepted(h, role, peer, rpa, TRUE)
    \/ DisconnectionFailed(h) \/ DisconnectionComplete(h)

\* Encryption of a link.
SecurityStep ==
  \/ CompleteToReady \/ StatusStartEncryption
  \/ \E h \in Handles :
       \/ LongTermKeyRequest(h)
       \/ \E ok, enabled \in BOOLEAN : EncryptionChange(h, ok, enabled)
       \/ \E g \in Generations \ {0}, r \in Transport :
            \/ StartEncryption(h, g, r)
            \/ \E op \in LtkOpcodes : AnswerLtkRequest(h, g, op, r)

\* Commands that fail or are answered out of place.
FailureStep == CommandFailed \/ CompleteUnexpected

\* Every call but init and destroy returns INVALID_ARGUMENT, and changes
\* nothing, unless controller_valid holds.
Next ==
  \/ Destroy \/ Reinitialize
  \/ /\ ControllerValid
     /\ \/ SetupStep \/ RadioStep \/ AttemptStep \/ TableStep
        \/ SecurityStep \/ FailureStep

Spec == Init /\ [][Next]_vars
-----------------------------------------------------------------------------
(* Properties *)

\* Every sequence of calls and events, those of a misbehaving controller and
\* transport included, leaves a record that passes controller_valid, which
\* guards every entry point: a record that fails it answers INVALID_ARGUMENT
\* for ever.  The ownership of a security command, the one part of the check
\* that a legal event can break, is the subject of HciLink.
SelfConsistent ==
  state # "UNINITIALIZED" =>
    /\ resolution => privacy # <<>>
    /\ privacyIndex <= Len(privacy)
    /\ advActive => advConfigured /\ scanActive = "inactive"
    /\ cancelPending => state \in {"CONNECT_CANCEL_PENDING", "FAILED"}
    /\ disc.pending => state \in {"DISCONNECT_PENDING", "FAILED"}
    /\ connGen # 0
    /\ TableValid

\* A state that waits for a command names the command that is outstanding, so
\* the answer is accepted and the state is left again.  A disconnect is the
\* exception: it waits for two events, Command Status and Disconnection
\* Complete, which come in either order.
PendingMatchesState ==
  state \in PendingStates \ {"DISCONNECT_PENDING"} =>
    <<pendingOpcode, state>> \in Expected \cup
      {<<"LE_CREATE_CONNECTION", "CONNECT_PENDING">>,
       <<"LE_START_ENCRYPTION", "ENCRYPTION_START_PENDING">>}

\* The states in which the radio may be used are reached only through the
\* whole start-up chain: the controller has an address, and when privacy is
\* configured every peer is in the resolving list and resolution is on.
SetupStates ==
  {"UNINITIALIZED", "IDLE", "RESET_PENDING", "ADDRESS_PENDING",
   "RANDOM_ADDRESS_PENDING", "PRIVACY_CLEAR_PENDING", "PRIVACY_ADD_PENDING",
   "PRIVACY_MODE_PENDING", "PRIVACY_TIMEOUT_PENDING", "PRIVACY_ENABLE_PENDING",
   "EVENT_MASK_PENDING", "FAILED"}
OperationalAfterSetup ==
  state \notin SetupStates =>
    /\ localAddress # "none"
    /\ staticRandom => localAddress = "random"
    /\ privacy # <<>> => resolution /\ privacyIndex = Len(privacy)

\* A (handle, generation) pair a caller holds never comes to name another
\* link: a generation that enters the table was never given out before.
\* disconnect, start_encryption and the LTK calls rest on this.
GenerationNeverReused ==
  [][state # "UNINITIALIZED" /\ state' # "UNINITIALIZED" =>
       /\ connGen <= connGen'
       /\ \A s \in Slots :
            conns'[s].present
              /\ ~Pinned(s, conns'[s].handle, conns'[s].generation) =>
                 connGen <= conns'[s].generation /\ ~HandlePresent(conns'[s].handle)]_vars
=============================================================================
