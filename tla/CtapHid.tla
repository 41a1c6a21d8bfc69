------------------------------- MODULE CtapHid -------------------------------
(***************************************************************************)
(* CTAPHID framing and the client of one authenticator                     *)
(* (src/src/rin/driver/usb/fido/ctaphid.c), as operators on records: each  *)
(* function of the C file is an operator that returns the new record with  *)
(* its result code.  The modules CtapHidFraming, CtapHidTransaction and    *)
(* FidoBroker give them state.                                             *)
(*                                                                         *)
(* A byte is an opaque unit; the report sizes are parameters, so that the  *)
(* 7609-byte limit can be reached with a few units.  What the client       *)
(* compares inside a message (the INIT reply, the keepalive status, the    *)
(* error code) is one unit, a record with a kind.  A deadline is modelled  *)
(* by the time left to it: the code only ever compares it with the current *)
(* time.                                                                   *)
(***************************************************************************)
EXTENDS Naturals, Sequences, CtapHidStates

CONSTANTS
    InitDataSize,       \* RIN_CTAPHID_INIT_DATA_SIZE, 57
    ContDataSize,       \* RIN_CTAPHID_CONT_DATA_SIZE, 59
    LastSequence,       \* 0x7f, the largest continuation number
    DefaultMaxMessage,  \* RIN_CTAPHID_DEFAULT_MAX_MESSAGE_SIZE, 1024
    TimeoutMax,         \* RIN_CTAPHID_TRANSACTION_TIMEOUT_MAX_MS
    Zero                \* the unit a cleared buffer holds

ASSUME FramingAssumption ==
    /\ InitDataSize \in Nat \ {0}
    /\ ContDataSize \in Nat \ {0}
    /\ LastSequence \in Nat

ASSUME ClientAssumption ==
    /\ DefaultMaxMessage \in Nat \ {0}
    /\ TimeoutMax \in Nat \ {0}

MessageMax == InitDataSize + (LastSequence + 1) * ContDataSize

NoChannel == 0
BroadcastCid == 99999
NoNonce == 0

Smaller(a, b) == IF a < b THEN a ELSE b

------------------------------------------------------------------------------
(* Reports and the assembler                                               *)

(* What copy_chunk reads out of a report whose unused tail was cleared.    *)
Chunk(data, n) ==
    [i \in 1 .. n |-> IF i <= Len(data) THEN data[i] ELSE Zero]

InitReport(channel, command, size, data) ==
    [channel |-> channel, init |-> TRUE, command |-> command, size |-> size,
     sequence |-> 0, data |-> data]

ContReport(channel, sequence, data) ==
    [channel |-> channel, init |-> FALSE, command |-> "NONE", size |-> 0,
     sequence |-> sequence, data |-> data]

(* hid_zero of an assembler; received_size is the length of data.          *)
EmptyAssembler ==
    [active |-> FALSE, channel |-> NoChannel, command |-> "NONE",
     expected_size |-> 0, next_sequence |-> 0, data |-> << >>]

NoMessage == [channel |-> NoChannel, command |-> "NONE", data |-> << >>]

(* Result of rin_ctaphid_feed: the assembler after it, the result code,    *)
(* whether *feed_state is COMPLETE, and *message.                          *)
Fed(assembler, result, complete, message) ==
    [assembler |-> assembler, result |-> result, complete |-> complete,
     message |-> message]

FinishIfComplete(a) ==
    IF Len(a.data) # a.expected_size
      THEN Fed(a, "OK", FALSE, NoMessage)
      ELSE Fed(EmptyAssembler, "OK", TRUE,
               [channel |-> a.channel, command |-> a.command, data |-> a.data])

(* The first report of a message.                                          *)
FeedInit(a, r) ==
    IF a.active THEN Fed(a, "BUSY", FALSE, NoMessage)
    ELSE IF r.channel = NoChannel \/ r.command = "NONE" \/ r.size > MessageMax
      THEN Fed(a, "CORRUPT_DATA", FALSE, NoMessage)
    ELSE FinishIfComplete(
           [active |-> TRUE, channel |-> r.channel, command |-> r.command,
            expected_size |-> r.size, next_sequence |-> 0,
            data |-> Chunk(r.data, Smaller(r.size, InitDataSize))])

(* Mutant of FeedCont: the last report is read to its end.                 *)
FeedContWhole(a, r) ==
    IF ~a.active \/ r.channel # a.channel \/ r.sequence # a.next_sequence
      THEN Fed(EmptyAssembler, "CORRUPT_DATA", FALSE, NoMessage)
      ELSE FinishIfComplete(
             [a EXCEPT !.data = @ \o Chunk(r.data, ContDataSize),
                       !.next_sequence = @ + 1])

(* A continuation report.                                                  *)
FeedCont(a, r) ==
    IF ~a.active \/ r.channel # a.channel \/ r.sequence # a.next_sequence
      THEN Fed(EmptyAssembler, "CORRUPT_DATA", FALSE, NoMessage)
      ELSE FinishIfComplete(
             [a EXCEPT !.data = @ \o Chunk(r.data,
                           Smaller(a.expected_size - Len(a.data),
                                   ContDataSize)),
                       !.next_sequence = @ + 1])

Feed(a, r) == IF r.init THEN FeedInit(a, r) ELSE FeedCont(a, r)

------------------------------------------------------------------------------
(* Fragmentation: the reports rin_ctaphid_fragment emits, in order.  The   *)
(* loop itself is the state machine of module CtapHidFraming.              *)

FragmentCount(size) ==
    IF size <= InitDataSize THEN 1
    ELSE 1 + (size - InitDataSize + ContDataSize - 1) \div ContDataSize

(* Offset of the payload at which continuation number n begins.            *)
ContOffset(n) == InitDataSize + n * ContDataSize

Fragment(channel, command, payload) ==
    [i \in 1 .. FragmentCount(Len(payload)) |->
        IF i = 1
          THEN InitReport(channel, command, Len(payload),
                   SubSeq(payload, 1, Smaller(Len(payload), InitDataSize)))
          ELSE ContReport(channel, i - 2,
                   SubSeq(payload, ContOffset(i - 2) + 1,
                       Smaller(Len(payload), ContOffset(i - 1))))]

------------------------------------------------------------------------------
(* The client                                                              *)

(* rin_ctaphid_client_init, and so rin_ctaphid_client_disconnect.          *)
DisconnectedClient ==
    [state |-> "DISCONNECTED", channel |-> NoChannel, nonce |-> NoNonce,
     expected_command |-> "NONE", cbor |-> FALSE, keepalive |-> "NONE",
     max_message_size |-> DefaultMaxMessage, left |-> 0,
     assembler |-> EmptyAssembler]

(* What a client function returns: the client after it, the result code,   *)
(* the event and the message given to the caller, and the reports it asks  *)
(* the transport to submit.                                                *)
Did(client, result) ==
    [client |-> client, result |-> result, event |-> "NONE",
     message |-> NoMessage]

Raised(client, event, message) ==
    [client |-> client, result |-> "OK", event |-> event, message |-> message]

ValidTimeout(timeout) == timeout # 0 /\ timeout <= TimeoutMax

(* A begin function whose reports were all submitted leaves this client.   *)
BegunInit(c, nonce, timeout) ==
    [c EXCEPT !.left = timeout, !.assembler = EmptyAssembler,
              !.nonce = nonce, !.expected_command = "INIT",
              !.keepalive = "NONE", !.state = "ALLOCATING"]

BegunCbor(c, timeout) ==
    [c EXCEPT !.left = timeout, !.assembler = EmptyAssembler,
              !.expected_command = "CBOR", !.keepalive = "NONE",
              !.state = "WAITING"]

(* Mutant of CanBeginInit: an attempt may be restarted.                    *)
CanBeginInitAgain(c, timeout) == ValidTimeout(timeout)

(* rin_ctaphid_client_begin_init accepts every state but ALLOCATING, and   *)
(* keeps to its own channel when it has one.                               *)
CanBeginInit(c, timeout) == c.state # "ALLOCATING" /\ ValidTimeout(timeout)

InitChannel(c) == IF c.channel # NoChannel THEN c.channel ELSE BroadcastCid

InitReports(c, nonce) == 
    Fragment(InitChannel(c), "INIT", << [kind |-> "nonce", nonce |-> nonce] >>)

CanBeginCbor(c, payload, timeout) ==
    /\ payload # << >>
    /\ c.state = "IDLE"
    /\ c.channel # NoChannel /\ c.cbor
    /\ Len(payload) <= c.max_message_size
    /\ ValidTimeout(timeout)

CborReports(c, payload) == Fragment(c.channel, "CBOR", payload)

CanSetMessageLimit(c, limit) ==
    /\ limit \in 1 .. MessageMax
    /\ c.state = "IDLE"
    /\ ~c.assembler.active

CanCancel(c) == c.state = "WAITING" /\ c.expected_command = "CBOR"

CancelReports(c) == Fragment(c.channel, "CANCEL", << >>)

(* rin_ctaphid_client_poll at a deadline that has passed.                  *)
TimedOut(c) == c.state \in BusyStates /\ c.left = 0

ClientPoll(c) == IF TimedOut(c) THEN Did(DisconnectedClient, "TIMED_OUT")
           ELSE Did(c, "OK")

IdleClient(c) == [c EXCEPT !.left = 0, !.expected_command = "NONE",
                           !.state = "IDLE"]

(* accept_init_response: the checks in the code's order.  The reply is one *)
(* unit; one shorter than 17 bytes has no such unit.                       *)
IsInitReply(m) ==
    m.command = "INIT" /\ Len(m.data) >= 1 /\ m.data[1].kind = "reply"

AcceptInitResponse(c, m) ==
    IF ~IsInitReply(m) THEN Did(c, "CORRUPT_DATA")
    ELSE LET reply == m.data[1] IN
         IF reply.nonce # c.nonce THEN Did(c, "ACCESS_DENIED")
         ELSE IF \/ reply.channel \in {NoChannel, BroadcastCid}
                 \/ c.channel # NoChannel /\ reply.channel # c.channel
           THEN Did(c, "CORRUPT_DATA")
         ELSE IF reply.version = 0 THEN Did(c, "VERSION_MISMATCH")
         ELSE IF ~reply.cbor THEN Did(c, "NOT_SUPPORTED")
         ELSE Raised([IdleClient(c) EXCEPT !.channel = reply.channel,
                          !.cbor = TRUE,
                          !.max_message_size = DefaultMaxMessage],
                     "READY", m)

(* A result other than OK ends the client.                                 *)
OrDisconnect(did) ==
    IF did.result = "OK" THEN did ELSE Did(DisconnectedClient, did.result)

KeepaliveStatuses == {"PROCESSING", "UP_NEEDED"}

(* Mutant of ClientKeepalive: a keepalive revives a cancelled request.     *)
ClientKeepaliveRevives(c, m) ==
    IF Len(m.data) = 1 /\ m.data[1].status \in KeepaliveStatuses
      THEN Raised([c EXCEPT !.keepalive = m.data[1].status,
                            !.state = "WAITING"], "KEEPALIVE", m)
      ELSE Did(DisconnectedClient, "CORRUPT_DATA")

ClientKeepalive(c, m) ==
    IF Len(m.data) = 1 /\ m.data[1].status \in KeepaliveStatuses
      THEN Raised([c EXCEPT !.keepalive = m.data[1].status], "KEEPALIVE", m)
      ELSE Did(DisconnectedClient, "CORRUPT_DATA")

(* transport_error_result maps 0x0b to DEVICE_LOST; every other code is    *)
(* one result here, the one of an error the client survives.               *)
ClientError(c, m) ==
    IF Len(m.data) # 1 THEN Did(DisconnectedClient, "CORRUPT_DATA")
    ELSE IF m.data[1].code = "INVALID_CHANNEL"
      THEN Did(DisconnectedClient, "DEVICE_LOST")
      ELSE Did(IdleClient(c), "IO")

ClientAnswer(c, m) ==
    LET idle == [IdleClient(c) EXCEPT !.keepalive = "NONE"] IN
    IF c.state = "CANCELING" THEN Raised(idle, "CANCELED", NoMessage)
    ELSE Raised(idle, "RESPONSE", m)

(* A complete message.                                                     *)
ClientMessage(c, m) ==
    IF m.command = "CBOR" /\ Len(m.data) > c.max_message_size
      THEN Did(DisconnectedClient, "LIMIT_EXCEEDED")
    ELSE IF c.state = "ALLOCATING"
      THEN OrDisconnect(AcceptInitResponse(c, m))
    ELSE IF m.command = "KEEPALIVE" THEN ClientKeepalive(c, m)
    ELSE IF m.command = "ERROR" THEN ClientError(c, m)
    ELSE IF m.command # c.expected_command
      THEN Did(DisconnectedClient, "CORRUPT_DATA")
    ELSE ClientAnswer(c, m)

ExpectedChannel(c) ==
    IF c.state = "ALLOCATING" /\ c.channel = NoChannel THEN BroadcastCid
    ELSE c.channel

(* Mutant of ClientFeed: the report's channel is not compared.             *)
ClientFeedAnyChannel(c, r) ==
    IF c.state \in {"DISCONNECTED", "IDLE"} THEN Did(c, "DEVICE_LOST")
    ELSE IF TimedOut(c) THEN ClientPoll(c)
    ELSE LET fed == Feed(c.assembler, r)
             kept == [c EXCEPT !.assembler = fed.assembler] IN
         IF fed.result # "OK" THEN Did(DisconnectedClient, fed.result)
         ELSE IF ~fed.complete THEN Did(kept, "OK")
         ELSE ClientMessage(kept, fed.message)

(* rin_ctaphid_client_feed.                                                *)
ClientFeed(c, r) ==
    IF c.state \in {"DISCONNECTED", "IDLE"} THEN Did(c, "DEVICE_LOST")
    ELSE IF TimedOut(c) THEN ClientPoll(c)
    ELSE IF r.channel # ExpectedChannel(c) THEN Did(c, "WOULD_BLOCK")
    ELSE LET fed == Feed(c.assembler, r)
             kept == [c EXCEPT !.assembler = fed.assembler] IN
         IF fed.result # "OK" THEN Did(DisconnectedClient, fed.result)
         ELSE IF ~fed.complete THEN Did(kept, "OK")
         ELSE ClientMessage(kept, fed.message)

==============================================================================
