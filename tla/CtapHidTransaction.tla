-------------------------- MODULE CtapHidTransaction --------------------------
(***************************************************************************)
(* One CTAPHID client (ctaphid.c, 152-413), the transport under it and the *)
(* authenticator at the other end.  The client is the code; the transport  *)
(* and the authenticator are not in the repository and behave as the       *)
(* client's code and comments expect: reports arrive in order, an input    *)
(* report may be lost, a submission may be refused, an authenticator       *)
(* answers a request at most once, at any time or never.                   *)
(*                                                                         *)
(* Requests, nonces and channels are drawn from small sets and come back   *)
(* when nothing refers to them any more: 64-bit nonces and 32-bit channels *)
(* do not repeat while an older report is under way.                       *)
(***************************************************************************)
EXTENDS CtapHid, SequencesExt

CONSTANTS
    Requests,       \* requests the caller may make
    Nonces,         \* nonces the caller may draw
    Channels,       \* channels the authenticator may allocate
    InitFaults,     \* ways an INIT reply may be wrong, and "NONE"
    AnswerSizes,    \* sizes of the authenticator's answers
    Limits,         \* arguments of set_message_limit
    PathMax,        \* bound: reports on the way in one direction
    Lossy           \* whether input reports can be lost

NoRequest == "NO_REQUEST"

(* A channel that an authenticator allocates is neither 0 nor the          *)
(* broadcast channel (accept_init_response refuses both), and its answer   *)
(* has at least a status byte, as CTAP2 says: whose an empty one is nobody *)
(* could tell.                                                             *)
ASSUME TransactionAssumption ==
    /\ Channels \subseteq Nat \ {NoChannel, BroadcastCid}
    /\ AnswerSizes \subseteq Nat \ {0}
    /\ NoRequest \notin Requests

VARIABLES
    client,
    toDevice,       \* reports submitted, not yet read by the authenticator
    fromDevice,     \* reports sent, not yet fed to the client
    auth,           \* the authenticator: its assembler and its work
    current,        \* the request begin_cbor was last called with
    outcome         \* result, event and message of the last client call

vars == << client, toDevice, fromDevice, auth, current, outcome >>

NoWork == [channel |-> NoChannel, request |-> NoRequest]

Quiet == [result |-> "OK", event |-> "NONE", message |-> NoMessage]

Init ==
    /\ client = DisconnectedClient
    /\ toDevice = << >> /\ fromDevice = << >>
    /\ auth = [assembler |-> EmptyAssembler, work |-> NoWork]
    /\ current = NoRequest
    /\ outcome = Quiet

(* The caller sees what a client function returned.                        *)
Outcome(did) ==
    [result |-> did.result, event |-> did.event, message |-> did.message]

Apply(did) ==
    /\ client' = did.client
    /\ outcome' = Outcome(did)

------------------------------------------------------------------------------
(* What is still under way, so that an identifier is not drawn twice.      *)

Reports == ToSet(toDevice) \cup ToSet(fromDevice)

ChannelsUnderWay ==
    {client.channel, auth.work.channel, auth.assembler.channel}
    \cup {r.channel : r \in Reports}

UnitsUnderWay ==
    UNION ({ToSet(r.data) : r \in Reports}
           \cup {ToSet(auth.assembler.data), ToSet(client.assembler.data)})

NonceUnderWay(n) ==
    \E u \in UnitsUnderWay : u.kind \in {"nonce", "reply"} /\ u.nonce = n

RequestUnderWay(q) ==
    \/ q \in {current, auth.work.request}
    \/ \E u \in UnitsUnderWay : u.kind \in {"request", "answer"} /\ u.request = q

(* The units of a request and of its answer name the request.              *)
RequestData(q, n) == [i \in 1 .. n |-> [kind |-> "request", request |-> q,
                                        index |-> i]]

Answer(q, n) == [i \in 1 .. n |-> [kind |-> "answer", request |-> q,
                                   index |-> i, of |-> n]]

------------------------------------------------------------------------------
(* The client's functions, called one at a time                            *)

(* emit for each report in turn: the transport accepts the first k, and    *)
(* a refusal disconnects the client.                                       *)
Emit(reports, done, k) ==
    /\ Len(toDevice) + Len(reports) <= PathMax
    /\ toDevice' = toDevice \o SubSeq(reports, 1, k)
    /\ Apply(IF k = Len(reports) THEN Did(done, "OK")
             ELSE Did(DisconnectedClient, "REFUSED"))

BeginInit(nonce) ==
    /\ CanBeginInit(client, TimeoutMax)
    /\ ~NonceUnderWay(nonce) /\ client.nonce # nonce
    /\ LET reports == InitReports(client, nonce) IN
       \E k \in 0 .. Len(reports) :
           Emit(reports, BegunInit(client, nonce, TimeoutMax), k)
    /\ current' = NoRequest
    /\ UNCHANGED << fromDevice, auth >>

BeginCbor(q, n) ==
    /\ CanBeginCbor(client, RequestData(q, n), TimeoutMax)
    /\ ~RequestUnderWay(q)
    /\ LET reports == CborReports(client, RequestData(q, n)) IN
       \E k \in 0 .. Len(reports) :
           Emit(reports, BegunCbor(client, TimeoutMax), k)
    /\ current' = q
    /\ UNCHANGED << fromDevice, auth >>

SetMessageLimit(limit) ==
    /\ CanSetMessageLimit(client, limit)
    /\ Apply(Did([client EXCEPT !.max_message_size = limit], "OK"))
    /\ UNCHANGED << toDevice, fromDevice, auth, current >>

(* Mutant of Cancel: the client is idle as soon as CANCEL is submitted.    *)
CancelAtOnce ==
    /\ CanCancel(client)
    /\ LET reports == CancelReports(client) IN
       \E k \in 0 .. Len(reports) : Emit(reports, IdleClient(client), k)
    /\ current' = NoRequest
    /\ UNCHANGED << fromDevice, auth >>

(* A caller that cancelled does not want the answer any more.              *)
Cancel ==
    /\ CanCancel(client)
    /\ LET reports == CancelReports(client) IN
       \E k \in 0 .. Len(reports) :
           Emit(reports, [client EXCEPT !.state = "CANCELING"], k)
    /\ current' = NoRequest
    /\ UNCHANGED << fromDevice, auth >>

PollTimeout ==
    /\ TimedOut(client)
    /\ Apply(ClientPoll(client))
    /\ UNCHANGED << toDevice, fromDevice, auth, current >>

Deliver ==
    /\ fromDevice # << >>
    /\ Apply(ClientFeed(client, Head(fromDevice)))
    /\ fromDevice' = Tail(fromDevice)
    /\ UNCHANGED << toDevice, auth, current >>

Tick ==
    /\ client.state \in BusyStates /\ client.left > 0
    /\ client' = [client EXCEPT !.left = @ - 1]
    /\ outcome' = Quiet
    /\ UNCHANGED << toDevice, fromDevice, auth, current >>

------------------------------------------------------------------------------
(* The transport and the authenticator (external)                          *)

Lose ==
    /\ Lossy
    /\ fromDevice # << >>
    /\ fromDevice' = Tail(fromDevice)
    /\ outcome' = Quiet
    /\ UNCHANGED << client, toDevice, auth, current >>

Send(channel, command, data) ==
    LET reports == Fragment(channel, command, data) IN
    /\ Len(fromDevice) + Len(reports) <= PathMax
    /\ fromDevice' = fromDevice \o reports

InitReply(nonce, channel, fault) ==
    IF fault = "SHORT" THEN << >>
    ELSE << [kind |-> "reply", nonce |-> nonce,
             channel |-> IF fault = "CHANNEL" THEN NoChannel ELSE channel,
             version |-> IF fault = "VERSION" THEN 0 ELSE 2,
             cbor |-> fault # "NO_CBOR"] >>

(* INIT on the broadcast channel allocates a channel; on a channel of its  *)
(* own it abandons the work of that channel.                               *)
ReadInit(m) ==
    /\ \E fault \in InitFaults :
         IF m.channel = BroadcastCid
           THEN \E c \in Channels \ ChannelsUnderWay :
                    Send(BroadcastCid, "INIT",
                         InitReply(m.data[1].nonce, c, fault))
           ELSE Send(m.channel, "INIT",
                     InitReply(m.data[1].nonce, m.channel, fault))
    /\ auth' = [assembler |-> EmptyAssembler,
                work |-> IF auth.work.channel = m.channel THEN NoWork
                         ELSE auth.work]

ReadCbor(m) ==
    IF auth.work = NoWork
      THEN /\ auth' = [assembler |-> EmptyAssembler,
                       work |-> [channel |-> m.channel,
                                 request |-> m.data[1].request]]
           /\ UNCHANGED fromDevice
      ELSE /\ Send(m.channel, "ERROR", << [kind |-> "error", code |-> "BUSY"] >>)
           /\ auth' = [auth EXCEPT !.assembler = EmptyAssembler]

ReadCancel(m) ==
    IF auth.work.channel = m.channel
      THEN /\ Send(m.channel, "CBOR", Answer(auth.work.request, 1))
           /\ auth' = [assembler |-> EmptyAssembler, work |-> NoWork]
      ELSE /\ auth' = [auth EXCEPT !.assembler = EmptyAssembler]
           /\ UNCHANGED fromDevice

(* A first report restarts the authenticator's assembly.                   *)
Read ==
    /\ toDevice # << >>
    /\ toDevice' = Tail(toDevice)
    /\ LET r == Head(toDevice)
           fed == Feed(IF r.init THEN EmptyAssembler ELSE auth.assembler, r) IN
       IF ~fed.complete
         THEN /\ auth' = [auth EXCEPT !.assembler = fed.assembler]
              /\ UNCHANGED fromDevice
         ELSE \/ fed.message.command = "INIT" /\ ReadInit(fed.message)
              \/ fed.message.command = "CBOR" /\ ReadCbor(fed.message)
              \/ fed.message.command = "CANCEL" /\ ReadCancel(fed.message)
    /\ outcome' = Quiet
    /\ UNCHANGED << client, current >>

Working(command, data) ==
    /\ auth.work # NoWork
    /\ Send(auth.work.channel, command, data)
    /\ outcome' = Quiet
    /\ UNCHANGED << client, toDevice, current >>

SendKeepalive ==
    /\ \E status \in {"PROCESSING", "OTHER"} :
         Working("KEEPALIVE", << [kind |-> "status", status |-> status] >>)
    /\ UNCHANGED auth

Finish(command, data) ==
    /\ Working(command, data)
    /\ auth' = [auth EXCEPT !.work = NoWork]

SendAnswer == \E n \in AnswerSizes : Finish("CBOR", Answer(auth.work.request, n))

SendError == \E code \in {"TIMEOUT", "INVALID_CHANNEL"} :
                 Finish("ERROR", << [kind |-> "error", code |-> code] >>)

------------------------------------------------------------------------------

Next ==
    \/ \E nonce \in Nonces : BeginInit(nonce)
    \/ \E q \in Requests, n \in 1 .. MessageMax : BeginCbor(q, n)
    \/ \E limit \in Limits : SetMessageLimit(limit)
    \/ Cancel \/ PollTimeout \/ Deliver \/ Tick
    \/ Lose \/ Read \/ SendKeepalive \/ SendAnswer \/ SendError

Spec == Init /\ [][Next]_vars

(* Time passes, and the driver's timer calls poll.  Nothing is assumed of  *)
(* the authenticator, the transport or the caller.                         *)
FairSpec == Spec /\ WF_vars(Tick) /\ WF_vars(PollTimeout)

------------------------------------------------------------------------------
(* Properties                                                              *)

TypeOK ==
    /\ client.state \in ClientStates
    /\ client.left \in 0 .. TimeoutMax
    /\ client.max_message_size \in 1 .. MessageMax
    /\ client.channel \in Channels \cup {NoChannel}
    /\ client.assembler.active => client.state \in BusyStates
    /\ Len(client.assembler.data) <= MessageMax

(* A response the client hands over is complete, is the authenticator's    *)
(* answer to the request the caller is waiting for, and no longer than the *)
(* limit; an answer to a request that was cancelled, that timed out or     *)
(* that a resynchronisation abandoned never comes up as the answer to a    *)
(* later one, whatever was on the way when that happened.                  *)
AnswersMatch ==
    outcome.event = "RESPONSE" =>
        /\ current # NoRequest
        /\ outcome.message.command = "CBOR"
        /\ \E n \in 1 .. client.max_message_size :
               outcome.message.data = Answer(current, n)

(* When the client is idle nothing of an earlier transaction is left on    *)
(* its channel: no report is on its way to it, and the authenticator does  *)
(* not work on a request that the client no longer waits for, so that the  *)
(* next request is not refused as busy nor answered by a stale report.     *)
IdleMeansQuiet ==
    client.state = "IDLE" =>
        /\ \A r \in ToSet(fromDevice) : r.channel # client.channel
        /\ auth.work.channel # client.channel

(* The client moves as CtapHidStates, and so the model of the broker,      *)
(* says: a refused report and a wrong or late one disconnect it, a         *)
(* cancelled request does not come back, and no function moves a client    *)
(* in a state it refuses.                                                  *)
ClientStateGraph ==
    [][/\ Deliver => client.state' \in FeedTo(client.state)
       /\ PollTimeout => client.state' \in PollTo(client.state)
       /\ \A n \in Nonces : BeginInit(n) =>
             client.state' \in BeginInitTo(client.state) \cup {"DISCONNECTED"}
       /\ \A q \in Requests, n \in 1 .. MessageMax : BeginCbor(q, n) =>
             client.state' \in BeginCborTo(client.state) \cup {"DISCONNECTED"}
       /\ Cancel =>
             client.state' \in CancelTo(client.state) \cup {"DISCONNECTED"}
      ]_vars

(* Every transaction ends by the deadline it was begun with, in IDLE or in *)
(* DISCONNECTED: keepalives do not extend it, and a caller that keeps      *)
(* calling begin_init cannot restart it.                                   *)
TransactionEnds ==
    client.state \in BusyStates ~> client.state \in {"IDLE", "DISCONNECTED"}

==============================================================================
