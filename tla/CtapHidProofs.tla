---------------------------- MODULE CtapHidProofs ----------------------------
(***************************************************************************)
(* Proofs about the CTAP-HID framing and client (ctaphid.c): every message *)
(* size, report size and sequence limit, and every order of calls, reports *)
(* and losses.                                                             *)
(***************************************************************************)
EXTENDS CtapHidTransaction, CtapHidFraming, Integers, SequenceTheorems, TLAPS

------------------------------------------------------------------------------
(* The client's moves                                                      *)

ClientFields ==
    {"state", "channel", "nonce", "expected_command", "cbor", "keepalive",
     "max_message_size", "left", "assembler"}

(* A record with the client's fields, in one of its states.                *)
IsClient(c) == DOMAIN c = ClientFields /\ c.state \in ClientStates

LEMMA NewClient == IsClient(DisconnectedClient)
BY DEF IsClient, DisconnectedClient, ClientFields, ClientStates

LEMMA IdleIsClient ==
    ASSUME NEW c, IsClient(c)
    PROVE  IsClient(IdleClient(c)) /\ IdleClient(c).state = "IDLE"
BY DEF IsClient, IdleClient, ClientFields, ClientStates

LEMMA BegunIsClient ==
    ASSUME NEW c, IsClient(c), NEW nonce, NEW timeout
    PROVE  /\ IsClient(BegunInit(c, nonce, timeout))
           /\ BegunInit(c, nonce, timeout).state = "ALLOCATING"
           /\ IsClient(BegunCbor(c, timeout))
           /\ BegunCbor(c, timeout).state = "WAITING"
           /\ IsClient([c EXCEPT !.state = "CANCELING"])
           /\ [c EXCEPT !.state = "CANCELING"].state = "CANCELING"
BY DEF IsClient, BegunInit, BegunCbor, ClientFields, ClientStates, BusyStates

(* A complete message leaves a waiting client waiting, idle or disconnected. *)
LEMMA MessageMoves ==
    ASSUME NEW c, IsClient(c), c.state \in BusyStates, NEW m
    PROVE  /\ IsClient(ClientMessage(c, m).client)
           /\ ClientMessage(c, m).client.state \in {c.state, "IDLE", "DISCONNECTED"}
<1> DEFINE Moved(did) == /\ IsClient(did.client)
                         /\ did.client.state \in {c.state, "IDLE", "DISCONNECTED"}
<1>1. \A result : Moved(Did(DisconnectedClient, result)) /\ Moved(Did(c, result))
    BY NewClient DEF Did, DisconnectedClient
<1>2. \A result : Moved(Did(IdleClient(c), result))
    BY IdleIsClient DEF Did
<1>3. Moved(OrDisconnect(AcceptInitResponse(c, m)))
    <2>1. ASSUME NEW channel, NEW size
          PROVE  Moved(Raised([IdleClient(c) EXCEPT !.channel = channel, !.cbor = TRUE,
                                                    !.max_message_size = size],
                              "READY", m))
        BY IdleIsClient DEF IsClient, Raised, ClientFields
    <2>2. AcceptInitResponse(c, m).result = "OK" => Moved(AcceptInitResponse(c, m))
        BY <2>1 DEF AcceptInitResponse, Did
    <2> QED BY <1>1, <2>2 DEF OrDisconnect
<1>4. Moved(ClientKeepalive(c, m))
    <2>1. ASSUME NEW status
          PROVE  Moved(Raised([c EXCEPT !.keepalive = status], "KEEPALIVE", m))
        BY DEF IsClient, Raised, ClientFields
    <2> QED BY <1>1, <2>1 DEF ClientKeepalive
<1>5. Moved(ClientError(c, m))
    BY <1>1, <1>2 DEF ClientError
<1>6. Moved(ClientAnswer(c, m))
    <2>1. \A event, message :
              Moved(Raised([IdleClient(c) EXCEPT !.keepalive = "NONE"], event, message))
        BY IdleIsClient DEF IsClient, Raised, ClientFields
    <2> QED BY <2>1 DEF ClientAnswer
<1>7. Moved(ClientMessage(c, m))
    <2> HIDE DEF Moved
    <2> QED BY <1>1, <1>3, <1>4, <1>5, <1>6 DEF ClientMessage
<1> QED BY <1>7

(* rin_ctaphid_client_feed and rin_ctaphid_client_poll.                    *)
LEMMA FeedMoves ==
    ASSUME NEW c, IsClient(c), NEW r
    PROVE  /\ IsClient(ClientFeed(c, r).client)
           /\ ClientFeed(c, r).client.state \in FeedTo(c.state)
           /\ IsClient(ClientPoll(c).client)
           /\ ClientPoll(c).client.state \in PollTo(c.state)
<1>1. /\ IsClient(ClientPoll(c).client)
      /\ ClientPoll(c).client.state \in PollTo(c.state)
    BY NewClient DEF ClientPoll, Did, TimedOut, PollTo, DisconnectedClient
<1>2. \A result : Did(c, result).client = c /\
                  Did(DisconnectedClient, result).client = DisconnectedClient
    BY DEF Did
<1>3. DisconnectedClient.state = "DISCONNECTED"
    BY DEF DisconnectedClient
<1>4. CASE c.state \in {"DISCONNECTED", "IDLE"}
    BY <1>1, <1>2, <1>4 DEF ClientFeed, FeedTo, BusyStates
<1>5. CASE c.state \in BusyStates
    <2>1. c.state \notin {"DISCONNECTED", "IDLE"}
        BY <1>5 DEF BusyStates
    <2>2. CASE TimedOut(c)
        <3>1. ClientFeed(c, r) = ClientPoll(c)
            BY <2>1, <2>2 DEF ClientFeed
        <3>2. PollTo(c.state) \subseteq FeedTo(c.state)
            BY DEF PollTo, FeedTo
        <3> QED BY <1>1, <3>1, <3>2
    <2>3. CASE ~TimedOut(c) /\ r.channel # ExpectedChannel(c)
        <3>1. ClientFeed(c, r).client = c
            BY <1>2, <2>1, <2>3 DEF ClientFeed
        <3> QED BY <1>1, <1>5, <3>1 DEF FeedTo
    <2>4. CASE ~TimedOut(c) /\ r.channel = ExpectedChannel(c)
        <3> DEFINE fed == Feed(c.assembler, r)
                   kept == [c EXCEPT !.assembler = fed.assembler]
        <3>1. IsClient(kept) /\ kept.state = c.state
            BY DEF IsClient, ClientFields
        <3>2. ClientFeed(c, r) =
                  IF fed.result # "OK" THEN Did(DisconnectedClient, fed.result)
                  ELSE IF ~fed.complete THEN Did(kept, "OK")
                  ELSE ClientMessage(kept, fed.message)
            BY <2>1, <2>4 DEF ClientFeed
        <3>3. Did(kept, "OK").client = kept
            BY DEF Did
        <3> HIDE DEF fed, kept
        <3>4. /\ IsClient(ClientMessage(kept, fed.message).client)
              /\ ClientMessage(kept, fed.message).client.state
                     \in {c.state, "IDLE", "DISCONNECTED"}
            BY <1>5, <3>1, MessageMoves
        <3> QED BY <1>1, <1>2, <1>3, <1>5, <3>1, <3>2, <3>3, <3>4, NewClient DEF FeedTo
    <2> QED BY <2>2, <2>3, <2>4
<1> QED BY <1>1, <1>4, <1>5 DEF IsClient, ClientStates

(* The action that ClientStateGraph allows at every step.                  *)
KeepsToGraph ==
    /\ Deliver => client.state' \in FeedTo(client.state)
    /\ PollTimeout => client.state' \in PollTo(client.state)
    /\ \A n \in Nonces : BeginInit(n) =>
          client.state' \in BeginInitTo(client.state) \cup {"DISCONNECTED"}
    /\ \A q \in Requests, n \in 1 .. MessageMax : BeginCbor(q, n) =>
          client.state' \in BeginCborTo(client.state) \cup {"DISCONNECTED"}
    /\ Cancel =>
          client.state' \in CancelTo(client.state) \cup {"DISCONNECTED"}

LEMMA EmitMoves ==
    ASSUME NEW reports, NEW done, NEW k, Emit(reports, done, k)
    PROVE  client' = done \/ client' = DisconnectedClient
BY DEF Emit, Apply, Did

LEMMA DeliverMoves ==
    ASSUME IsClient(client), Deliver
    PROVE  IsClient(client)' /\ client.state' \in FeedTo(client.state)
BY FeedMoves DEF Deliver, Apply, IsClient

LEMMA PollMoves ==
    ASSUME IsClient(client), PollTimeout
    PROVE  IsClient(client)' /\ client.state' \in PollTo(client.state)
BY FeedMoves DEF PollTimeout, Apply, IsClient

LEMMA BeginInitMoves ==
    ASSUME IsClient(client), NEW nonce \in Nonces, BeginInit(nonce)
    PROVE  /\ IsClient(client)'
           /\ client.state' \in BeginInitTo(client.state) \cup {"DISCONNECTED"}
<1>1. client' = BegunInit(client, nonce, TimeoutMax) \/ client' = DisconnectedClient
    BY EmitMoves DEF BeginInit
<1>2. client.state # "ALLOCATING"
    BY DEF BeginInit, CanBeginInit
<1>3. CASE client' = BegunInit(client, nonce, TimeoutMax)
    BY <1>2, <1>3, BegunIsClient DEF BeginInitTo, IsClient
<1>4. CASE client' = DisconnectedClient
    BY <1>4, NewClient DEF DisconnectedClient, IsClient
<1> QED BY <1>1, <1>3, <1>4

LEMMA BeginCborMoves ==
    ASSUME IsClient(client), NEW q \in Requests, NEW n \in 1 .. MessageMax, BeginCbor(q, n)
    PROVE  /\ IsClient(client)'
           /\ client.state' \in BeginCborTo(client.state) \cup {"DISCONNECTED"}
<1>1. client' = BegunCbor(client, TimeoutMax) \/ client' = DisconnectedClient
    BY EmitMoves DEF BeginCbor
<1>2. client.state = "IDLE"
    BY DEF BeginCbor, CanBeginCbor
<1>3. CASE client' = BegunCbor(client, TimeoutMax)
    BY <1>2, <1>3, BegunIsClient DEF BeginCborTo, IsClient
<1>4. CASE client' = DisconnectedClient
    BY <1>4, NewClient DEF DisconnectedClient, IsClient
<1> QED BY <1>1, <1>3, <1>4

LEMMA CancelMoves ==
    ASSUME IsClient(client), Cancel
    PROVE  /\ IsClient(client)'
           /\ client.state' \in CancelTo(client.state) \cup {"DISCONNECTED"}
<1>1. \/ client' = [client EXCEPT !.state = "CANCELING"]
      \/ client' = DisconnectedClient
    BY EmitMoves DEF Cancel
<1>2. client.state = "WAITING"
    BY DEF Cancel, CanCancel
<1>3. CASE client' = [client EXCEPT !.state = "CANCELING"]
    BY <1>2, <1>3, BegunIsClient DEF CancelTo, IsClient
<1>4. CASE client' = DisconnectedClient
    BY <1>4, NewClient DEF DisconnectedClient, IsClient
<1> QED BY <1>1, <1>3, <1>4

LEMMA OthersMove ==
    ASSUME IsClient(client),
           \/ \E limit \in Limits : SetMessageLimit(limit)
           \/ Tick \/ Lose \/ Read \/ SendKeepalive \/ SendAnswer \/ SendError
    PROVE  IsClient(client)'
<1>1. ASSUME NEW limit \in Limits, SetMessageLimit(limit) PROVE IsClient(client)'
    BY <1>1 DEF SetMessageLimit, Apply, Did, IsClient, ClientFields
<1>2. CASE Tick
    BY <1>2 DEF Tick, IsClient, ClientFields
<1>3. CASE Lose \/ Read \/ SendKeepalive \/ SendAnswer \/ SendError
    BY <1>3 DEF Lose, Read, SendKeepalive, SendAnswer, SendError, Finish, Working, IsClient
<1> QED BY <1>1, <1>2, <1>3

LEMMA ClientStaysClient == IsClient(client) /\ [Next]_vars => IsClient(client)'
<1> SUFFICES ASSUME IsClient(client), [Next]_vars PROVE IsClient(client)'
    OBVIOUS
<1>1. CASE UNCHANGED vars
    BY <1>1 DEF vars, IsClient
<1> QED BY <1>1, DeliverMoves, PollMoves, BeginInitMoves, BeginCborMoves, CancelMoves,
           OthersMove DEF Next

(* The broker's view of the client (CtapHidStates, ctaphid.c:152-413) is   *)
(* what the detailed client does, whatever a report holds.                 *)
THEOREM ClientKeepsToGraph == Spec => ClientStateGraph
<1>1. Init => IsClient(client)
    BY NewClient DEF Init
<1>2. IsClient(client) => KeepsToGraph
    BY DeliverMoves, PollMoves, BeginInitMoves, BeginCborMoves, CancelMoves
       DEF KeepsToGraph
<1>3. Spec => [][IsClient(client) /\ KeepsToGraph]_vars
    BY <1>1, <1>2, ClientStaysClient, PTL DEF Spec
<1>4. (IsClient(client) /\ KeepsToGraph) => KeepsToGraph
    OBVIOUS
<1>5. Spec => [][KeepsToGraph]_vars
    BY <1>3, <1>4, PTL
<1> QED BY <1>5 DEF ClientStateGraph, KeepsToGraph

------------------------------------------------------------------------------
(* Framing: the arithmetic of the offsets                                  *)

LEMMA SmallerIs ==
    ASSUME NEW m \in Int, NEW n \in Int
    PROVE  /\ Smaller(m, n) \in {m, n} /\ Smaller(m, n) <= m /\ Smaller(m, n) <= n
           /\ m <= n => Smaller(m, n) = m
           /\ n <= m => Smaller(m, n) = n
BY DEF Smaller

LEMMA Products ==
    ASSUME NEW m \in Nat, NEW n \in Nat, NEW c \in Nat
    PROVE  /\ n * c \in Nat
           /\ (n + 1) * c = n * c + c
           /\ m <= n => m * c <= n * c
<1>1. n * c \in Nat /\ m * c \in Nat
    OBVIOUS
<1>2. (n + 1) * c = n * c + c
    OBVIOUS
<1>3. ASSUME m <= n PROVE m * c <= n * c
    <2>1. n - m \in Nat /\ n = m + (n - m)
        BY <1>3
    <2>2. n * c = m * c + (n - m) * c
        BY <2>1
    <2>3. (n - m) * c \in Nat
        BY <2>1
    <2> QED BY <1>1, <2>2, <2>3
<1> QED BY <1>1, <1>2, <1>3

LEMMA Offsets ==
    ASSUME NEW n \in Nat
    PROVE  /\ ContOffset(n) \in Nat
           /\ ContOffset(n + 1) = ContOffset(n) + ContDataSize
           /\ ContOffset(0) = InitDataSize
           /\ \A m \in Nat : m <= n => ContOffset(m) <= ContOffset(n)
<1>1. InitDataSize \in Nat /\ ContDataSize \in Nat
    BY FramingAssumption
<1>2. \A k \in Nat : ContOffset(k) = InitDataSize + k * ContDataSize
    BY DEF ContOffset
<1>3. n * ContDataSize \in Nat /\ (n + 1) * ContDataSize = n * ContDataSize + ContDataSize
    BY <1>1, Products
<1>4. \A m \in Nat : m <= n => m * ContDataSize <= n * ContDataSize
    BY <1>1, Products
<1>5. \A m \in Nat : m * ContDataSize \in Nat
    BY <1>1, Products
<1>6. ContOffset(0) = InitDataSize
    BY <1>1, <1>2
<1> QED BY <1>1, <1>2, <1>3, <1>4, <1>5, <1>6

LEMMA MessageLimit ==
    /\ MessageMax \in Nat
    /\ MessageMax = ContOffset(LastSequence + 1)
BY FramingAssumption, Offsets DEF MessageMax, ContOffset

(* A quotient is as large as a multiple below the dividend allows.         *)
LEMMA Quotient ==
    ASSUME NEW x \in Nat, NEW c \in Nat \ {0}, NEW k \in Nat, k * c <= x
    PROVE  k <= x \div c
<1>1. x \div c \in Nat /\ x < (x \div c + 1) * c
    <2>1. x \div c \in Nat /\ x % c \in 0 .. c - 1 /\ x = (c * (x \div c)) + (x % c)
        OBVIOUS
    <2> QED BY <2>1, Products
<1>2. SUFFICES ASSUME x \div c + 1 <= k PROVE FALSE
    BY <1>1
<1>3. (x \div c + 1) * c <= k * c
    BY <1>1, <1>2, Products
<1>4. (x \div c + 1) * c \in Nat /\ k * c \in Nat
    BY <1>1, Products
<1> QED BY <1>1, <1>3, <1>4

(* As many reports are counted as are needed for the bytes before them to  *)
(* be fewer than the message has.                                          *)
LEMMA CountEnough ==
    ASSUME NEW size \in Nat, NEW k \in Nat, ContOffset(k) < size
    PROVE  k + 2 <= FragmentCount(size)
<1>1. /\ InitDataSize \in Nat /\ ContDataSize \in Nat \ {0}
      /\ k * ContDataSize \in Nat /\ (k + 1) * ContDataSize = k * ContDataSize + ContDataSize
    BY FramingAssumption, Products
<1>2. InitDataSize + k * ContDataSize < size
    BY DEF ContOffset
<1> DEFINE x == size - InitDataSize + ContDataSize - 1
<1>3. x \in Nat /\ (k + 1) * ContDataSize <= x
    BY <1>1, <1>2
<1>4. k + 1 <= x \div ContDataSize
    BY <1>1, <1>3, Quotient
<1>5. x \div ContDataSize \in Nat
    BY <1>1, <1>3
<1>6. FragmentCount(size) = 1 + x \div ContDataSize
    BY <1>1, <1>2 DEF FragmentCount
<1> QED BY <1>4, <1>5, <1>6

LEMMA CountSome ==
    ASSUME NEW size \in Nat
    PROVE  FragmentCount(size) \in Nat /\ 1 <= FragmentCount(size)
<1>1. InitDataSize \in Nat \ {0} /\ ContDataSize \in Nat \ {0}
    BY FramingAssumption
<1>2. CASE size <= InitDataSize
    BY <1>2 DEF FragmentCount
<1>3. CASE InitDataSize < size
    <2>1. size - InitDataSize + ContDataSize - 1 \in Nat
        BY <1>1, <1>3
    <2>2. (size - InitDataSize + ContDataSize - 1) \div ContDataSize \in Nat
        BY <1>1, <2>1
    <2> QED BY <1>1, <1>3, <2>2 DEF FragmentCount
<1> QED BY <1>1, <1>2, <1>3

LEMMA ChunkWhole ==
    ASSUME NEW S, NEW s \in Seq(S)
    PROVE  Chunk(s, Len(s)) = s
<1>1. Len(s) \in Nat /\ s = [i \in 1 .. Len(s) |-> s[i]]
    BY LenProperties
<1>2. \A i \in 1 .. Len(s) : i <= Len(s)
    BY <1>1
<1>3. Chunk(s, Len(s)) = [i \in 1 .. Len(s) |-> s[i]]
    BY <1>2 DEF Chunk
<1> QED BY <1>1, <1>3

LEMMA Joined ==
    ASSUME NEW S, NEW a \in Seq(S), NEW b \in Seq(S), NEW w \in Seq(S),
           Len(w) = Len(a) + Len(b),
           \A i \in 1 .. Len(a) : a[i] = w[i],
           \A i \in 1 .. Len(b) : b[i] = w[Len(a) + i]
    PROVE  a \o b = w
<1>1. Len(a) \in Nat /\ Len(b) \in Nat
    BY LenProperties
<1>2. /\ a \o b \in Seq(S) /\ Len(a \o b) = Len(a) + Len(b)
      /\ \A i \in 1 .. Len(a) + Len(b) :
            (a \o b)[i] = IF i <= Len(a) THEN a[i] ELSE b[i - Len(a)]
    BY ConcatProperties
<1> DEFINE ab == a \o b
<1> HIDE DEF ab
<1>3. /\ ab \in Seq(S) /\ Len(ab) = Len(a) + Len(b)
      /\ \A i \in 1 .. Len(a) + Len(b) :
            ab[i] = IF i <= Len(a) THEN a[i] ELSE b[i - Len(a)]
    BY <1>2 DEF ab
<1>4. ASSUME NEW i \in 1 .. Len(ab) PROVE ab[i] = w[i]
    <2>1. i \in Int /\ i \in 1 .. Len(a) + Len(b)
        BY <1>1, <1>3
    <2>2. CASE i <= Len(a)
        <3>1. i \in 1 .. Len(a)
            BY <1>1, <2>1, <2>2
        <3> QED BY <1>3, <2>1, <2>2, <3>1
    <2>3. CASE ~(i <= Len(a))
        <3>1. i - Len(a) \in 1 .. Len(b) /\ Len(a) + (i - Len(a)) = i
            BY <1>1, <2>1, <2>3
        <3>2. b[i - Len(a)] = w[i]
            BY <3>1
        <3> QED BY <1>3, <2>1, <2>3, <3>2
    <2> QED BY <2>2, <2>3
<1> QED BY <1>3, <1>4, SeqEqual DEF ab

(* Two pieces of a sequence, one after the other.                          *)
LEMMA Pieces ==
    ASSUME NEW S, NEW s \in Seq(S), NEW d \in Nat, NEW e \in Nat, d <= e, e <= Len(s)
    PROVE  /\ SubSeq(s, 1, d) \in Seq(S) /\ Len(SubSeq(s, 1, d)) = d
           /\ SubSeq(s, d + 1, e) \in Seq(S) /\ Len(SubSeq(s, d + 1, e)) = e - d
           /\ SubSeq(s, 1, d) \o SubSeq(s, d + 1, e) = SubSeq(s, 1, e)
<1>1. Len(s) \in Nat /\ \A i \in 1 .. Len(s) : s[i] \in S
    BY LenProperties, ElementOfSeq
<1> DEFINE a == SubSeq(s, 1, d)
           b == SubSeq(s, d + 1, e)
           w == SubSeq(s, 1, e)
<1>2. /\ a \in Seq(S) /\ Len(a) = d /\ \A i \in 1 .. d : a[i] = s[i]
    <2>1. \A i \in 1 .. d : s[i] \in S
        BY <1>1
    <2>2. /\ SubSeq(s, 1, d) \in Seq(S)
          /\ Len(SubSeq(s, 1, d)) = IF 1 <= d THEN d - 1 + 1 ELSE 0
          /\ \A i \in 1 .. d - 1 + 1 : SubSeq(s, 1, d)[i] = s[1 + i - 1]
        BY <2>1, SubSeqProperties
    <2>3. \A i \in 1 .. d : 1 + i - 1 = i
        OBVIOUS
    <2>4. d - 1 + 1 = d /\ (~(1 <= d) => d = 0)
        OBVIOUS
    <2> QED BY <2>2, <2>3, <2>4
<1>3. /\ w \in Seq(S) /\ Len(w) = e /\ \A i \in 1 .. e : w[i] = s[i]
    <2>1. \A i \in 1 .. e : s[i] \in S
        BY <1>1
    <2>2. /\ SubSeq(s, 1, e) \in Seq(S)
          /\ Len(SubSeq(s, 1, e)) = IF 1 <= e THEN e - 1 + 1 ELSE 0
          /\ \A i \in 1 .. e - 1 + 1 : SubSeq(s, 1, e)[i] = s[1 + i - 1]
        BY <2>1, SubSeqProperties
    <2>3. \A i \in 1 .. e : 1 + i - 1 = i
        OBVIOUS
    <2>4. e - 1 + 1 = e /\ (~(1 <= e) => e = 0)
        OBVIOUS
    <2> QED BY <2>2, <2>3, <2>4
<1>4. /\ b \in Seq(S) /\ Len(b) = e - d /\ \A i \in 1 .. e - d : b[i] = s[d + i]
    <2>1. \A i \in d + 1 .. e : s[i] \in S
        BY <1>1
    <2>2. /\ SubSeq(s, d + 1, e) \in Seq(S)
          /\ Len(SubSeq(s, d + 1, e)) = IF d + 1 <= e THEN e - (d + 1) + 1 ELSE 0
          /\ \A i \in 1 .. e - (d + 1) + 1 : SubSeq(s, d + 1, e)[i] = s[d + 1 + i - 1]
        BY <2>1, SubSeqProperties
    <2>3. \A i \in 1 .. e - d : d + 1 + i - 1 = d + i
        OBVIOUS
    <2>4. e - (d + 1) + 1 = e - d /\ (~(d + 1 <= e) => e - d = 0)
        OBVIOUS
    <2> QED BY <2>2, <2>3, <2>4
<1> HIDE DEF a, b, w
<1>5. a \o b = w
    <2>1. \A i \in 1 .. d : a[i] = w[i]
        BY <1>2, <1>3
    <2>2. \A i \in 1 .. e - d : d + i \in 1 .. e /\ b[i] = w[d + i]
        BY <1>3, <1>4
    <2>3. a \in Seq(S) /\ b \in Seq(S) /\ w \in Seq(S) /\ Len(w) = Len(a) + Len(b)
        BY <1>2, <1>3, <1>4
    <2>4. /\ \A i \in 1 .. Len(a) : a[i] = w[i]
          /\ \A i \in 1 .. Len(b) : b[i] = w[Len(a) + i]
        BY <1>2, <1>4, <2>1, <2>2
    <2> QED BY <2>3, <2>4, Joined
<1> QED BY <1>2, <1>4, <1>5 DEF a, b, w

------------------------------------------------------------------------------
(* Framing: the reports of any message                                     *)

Piece(ch, cmd, w, i) ==
    IF i = 1
      THEN InitReport(ch, cmd, Len(w), SubSeq(w, 1, Smaller(Len(w), InitDataSize)))
      ELSE ContReport(ch, i - 2, SubSeq(w, ContOffset(i - 2) + 1,
                                        Smaller(Len(w), ContOffset(i - 1))))

(* The bytes that its first k reports carry.                               *)
Got(w, k) == IF k = 0 THEN 0 ELSE Smaller(Len(w), ContOffset(k - 1))

Commands == {"NONE", "INIT", "CBOR", "CANCEL", "KEEPALIVE", "ERROR"}

ReportsOf(S) ==
    [channel : Nat, init : BOOLEAN, command : Commands, size : Nat,
     sequence : Nat, data : Seq(S)]

AssemblerFields ==
    {"active", "channel", "command", "expected_size", "next_sequence", "data"}

(* The assembler after k reports that do not complete the message w.       *)
Holding(a, ch, cmd, w, k) ==
    /\ DOMAIN a = AssemblerFields
    /\ a.active /\ a.channel = ch /\ a.command = cmd
    /\ a.expected_size = Len(w)
    /\ a.next_sequence = k - 1
    /\ a.data = SubSeq(w, 1, Got(w, k))

LEMMA GotIs ==
    ASSUME NEW S, NEW w \in Seq(S), NEW k \in Nat
    PROVE  /\ Got(w, k) \in 0 .. Len(w)
           /\ Got(w, k + 1) = Smaller(Len(w), ContOffset(k))
           /\ Got(w, k) < Len(w) /\ k > 0 => Got(w, k) = ContOffset(k - 1)
<1>1. Len(w) \in Nat
    BY LenProperties
<1>2. k + 1 - 1 = k /\ k + 1 # 0
    OBVIOUS
<1>3. Got(w, k + 1) = Smaller(Len(w), ContOffset(k))
    BY <1>2 DEF Got
<1>4. k > 0 => k - 1 \in Nat /\ ContOffset(k - 1) \in Nat
    <2>1. k > 0 => k - 1 \in Nat
        OBVIOUS
    <2> QED BY <2>1, Offsets
<1>5. k > 0 => /\ Smaller(Len(w), ContOffset(k - 1)) \in 0 .. Len(w)
               /\ Smaller(Len(w), ContOffset(k - 1)) < Len(w) =>
                      Smaller(Len(w), ContOffset(k - 1)) = ContOffset(k - 1)
    BY <1>1, <1>4 DEF Smaller
<1> QED BY <1>1, <1>3, <1>5 DEF Got

LEMMA LaterPiece ==
    ASSUME NEW ch, NEW cmd, NEW w, NEW i, i # 1
    PROVE  Piece(ch, cmd, w, i) =
             ContReport(ch, i - 2, SubSeq(w, ContOffset(i - 2) + 1,
                                          Smaller(Len(w), ContOffset(i - 1))))
BY DEF Piece

LEMMA PieceTypes ==
    ASSUME NEW S, NEW w \in Seq(S), NEW ch \in Nat, NEW cmd \in Commands, NEW k \in Nat
    PROVE  Piece(ch, cmd, w, k + 1) \in ReportsOf(S)
<1>1. Len(w) \in Nat
    BY LenProperties
<1>2. \A m, n \in Nat : n <= Len(w) /\ m <= n => SubSeq(w, m + 1, n) \in Seq(S)
    BY <1>1, Pieces
<1>3. CASE k = 0
    <2>1. Smaller(Len(w), InitDataSize) \in 0 .. Len(w)
        BY <1>1, FramingAssumption DEF Smaller
    <2>2. SubSeq(w, 1, Smaller(Len(w), InitDataSize)) \in Seq(S)
        BY <1>1, <2>1, Pieces
    <2>3. k + 1 = 1
        BY <1>3
    <2> QED BY <1>1, <2>2, <2>3 DEF Piece, InitReport, ReportsOf
<1>4. CASE k # 0
    <2>1. /\ k + 1 - 2 \in Nat /\ k + 1 # 1 /\ k + 1 - 1 = (k + 1 - 2) + 1
        BY <1>4
    <2>2. /\ ContOffset(k + 1 - 2) \in Nat /\ ContOffset(k + 1 - 1) \in Nat
        <3>1. \A n \in Nat : ContOffset(n) \in Nat
            BY Offsets
        <3> QED BY <2>1, <3>1
    <2>3. SubSeq(w, ContOffset(k + 1 - 2) + 1, Smaller(Len(w), ContOffset(k + 1 - 1)))
            \in Seq(S)
        <3> DEFINE m == ContOffset(k + 1 - 2)
                   n == Smaller(Len(w), ContOffset(k + 1 - 1))
        <3>1. m \in Nat /\ n \in Nat /\ n <= Len(w)
            BY <1>1, <2>2 DEF Smaller
        <3> HIDE DEF m, n
        <3>2. CASE m <= n
            BY <1>2, <3>1, <3>2 DEF m, n
        <3>3. CASE n < m
            <4>1. SubSeq(w, m + 1, n) = << >>
                BY <3>1, <3>3, SubSeqEmpty
            <4> QED BY <4>1, EmptySeq DEF m, n
        <3> QED BY <3>1, <3>2, <3>3
    <2> QED BY <2>1, <2>3 DEF Piece, ContReport, ReportsOf, Commands
<1> QED BY <1>3, <1>4

(* Fragment lists the pieces, as many as it takes.                         *)
LEMMA FragmentPieces ==
    ASSUME NEW S, NEW w \in Seq(S), NEW ch, NEW cmd
    PROVE  /\ FragmentCount(Len(w)) \in Nat /\ 1 <= FragmentCount(Len(w))
           /\ Fragment(ch, cmd, w) =
                [i \in 1 .. FragmentCount(Len(w)) |-> Piece(ch, cmd, w, i)]
           /\ Len(Fragment(ch, cmd, w)) = FragmentCount(Len(w))
<1>1. Fragment(ch, cmd, w) = [i \in 1 .. FragmentCount(Len(w)) |-> Piece(ch, cmd, w, i)]
    BY DEF Fragment, Piece
<1>2. FragmentCount(Len(w)) \in Nat /\ 1 <= FragmentCount(Len(w))
    BY CountSome, LenProperties
<1> QED BY <1>1, <1>2

(* Feeding the pieces of a message to an assembler.                        *)

Goes(fed) == fed.result = "OK" /\ ~fed.complete

Whole(fed, ch, cmd, w) ==
    /\ fed.result = "OK" /\ fed.complete
    /\ fed.assembler = EmptyAssembler
    /\ fed.message = [channel |-> ch, command |-> cmd, data |-> w]

LEMMA FinishIs ==
    ASSUME NEW S, NEW w \in Seq(S), NEW ch, NEW cmd, NEW k \in Nat, NEW a,
           Holding(a, ch, cmd, w, k)
    PROVE  LET fed == FinishIfComplete(a)
           IN  IF Got(w, k) < Len(w)
                 THEN Goes(fed) /\ fed.assembler = a ELSE Whole(fed, ch, cmd, w)
<1>1. Len(w) \in Nat /\ Got(w, k) \in 0 .. Len(w)
    BY GotIs, LenProperties
<1>2. Len(a.data) = Got(w, k)
    BY <1>1, Pieces DEF Holding
<1>3. CASE Got(w, k) < Len(w)
    <2>1. Len(a.data) # a.expected_size
        BY <1>1, <1>2, <1>3 DEF Holding
    <2>2. FinishIfComplete(a) = Fed(a, "OK", FALSE, NoMessage)
        BY <2>1 DEF FinishIfComplete
    <2> QED BY <1>3, <2>2 DEF Fed, Goes
<1>4. CASE Got(w, k) = Len(w)
    <2>1. Len(a.data) = a.expected_size /\ ~(Got(w, k) < Len(w))
        BY <1>1, <1>2, <1>4 DEF Holding
    <2>2. a.data = w
        BY <1>1, <1>4, SubSeqFull DEF Holding
    <2>3. FinishIfComplete(a) =
             Fed(EmptyAssembler, "OK", TRUE,
                 [channel |-> a.channel, command |-> a.command, data |-> a.data])
        BY <2>1 DEF FinishIfComplete
    <2>4. FinishIfComplete(a) =
             Fed(EmptyAssembler, "OK", TRUE, [channel |-> ch, command |-> cmd, data |-> w])
        BY <2>2, <2>3 DEF Holding
    <2> QED BY <2>1, <2>4 DEF Fed, Whole
<1> QED BY <1>1, <1>3, <1>4

(* The first report starts the assembly.                                   *)
LEMMA FirstFed ==
    ASSUME NEW S, NEW w \in Seq(S), Len(w) <= MessageMax,
           NEW ch, ch # NoChannel, NEW cmd, cmd # "NONE", NEW a, ~a.active
    PROVE  \E b : Holding(b, ch, cmd, w, 1) /\ Feed(a, Piece(ch, cmd, w, 1)) = FinishIfComplete(b)
<1>1. Len(w) \in Nat /\ MessageMax \in Nat
    BY LenProperties, MessageLimit
<1> DEFINE n == Smaller(Len(w), InitDataSize)
           bytes == SubSeq(w, 1, n)
           r == InitReport(ch, cmd, Len(w), bytes)
           b == [active |-> TRUE, channel |-> ch, command |-> cmd,
                 expected_size |-> Len(w), next_sequence |-> 0, data |-> bytes]
<1>2. n \in 0 .. Len(w)
    BY <1>1, FramingAssumption DEF Smaller
<1>3. Got(w, 1) = n
    BY Offsets DEF Got
<1>4. Chunk(bytes, n) = bytes
    <2>1. bytes \in Seq(S) /\ Len(bytes) = n
        BY <1>1, <1>2, Pieces
    <2> QED BY <2>1, ChunkWhole
<1>5. Piece(ch, cmd, w, 1) = r
    BY DEF Piece
<1> HIDE DEF n, bytes
<1>6. /\ r.init /\ r.channel = ch /\ r.command = cmd /\ r.size = Len(w)
      /\ r.data = bytes
    BY DEF InitReport
<1> HIDE DEF r
<1>7. Feed(a, r) = FeedInit(a, r)
    BY <1>6 DEF Feed
<1>8. ~(r.channel = NoChannel \/ r.command = "NONE" \/ r.size > MessageMax)
    BY <1>1, <1>6
<1>9. FeedInit(a, r) = FinishIfComplete(
           [active |-> TRUE, channel |-> r.channel, command |-> r.command,
            expected_size |-> r.size, next_sequence |-> 0,
            data |-> Chunk(r.data, Smaller(r.size, InitDataSize))])
    BY <1>8 DEF FeedInit
<1>10. Chunk(r.data, Smaller(r.size, InitDataSize)) = bytes
    BY <1>4, <1>6 DEF n
<1>11. FeedInit(a, r) = FinishIfComplete(b)
    BY <1>6, <1>9, <1>10
<1>12. Holding(b, ch, cmd, w, 1)
    <2>1. /\ DOMAIN b = AssemblerFields
          /\ b.active /\ b.channel = ch /\ b.command = cmd
          /\ b.expected_size = Len(w) /\ b.next_sequence = 0 /\ b.data = bytes
        BY DEF AssemblerFields
    <2> HIDE DEF b
    <2>2. b.next_sequence = 1 - 1
        BY <2>1
    <2>3. bytes = SubSeq(w, 1, Got(w, 1))
        BY <1>3 DEF bytes
    <2> QED BY <2>1, <2>2, <2>3 DEF Holding
<1> QED BY <1>5, <1>7, <1>11, <1>12

(* The assembler after report k of the message, if that was not the last.  *)
GoesOn(a, ch, cmd, w, k) ==
    \E b : Holding(b, ch, cmd, w, k) /\ Feed(a, Piece(ch, cmd, w, k)) = FinishIfComplete(b)

(* Each continuation adds the bytes from where the last one stopped.       *)
LEMMA ContinuationFed ==
    ASSUME NEW S, NEW w \in Seq(S), NEW ch, NEW cmd,
           NEW k \in Nat, k > 0, Got(w, k) < Len(w), NEW a, Holding(a, ch, cmd, w, k)
    PROVE  GoesOn(a, ch, cmd, w, k + 1)
<1>1. Len(w) \in Nat
    BY LenProperties
<1> DEFINE d == ContOffset(k - 1)
           e == Smaller(Len(w), ContOffset(k))
           bytes == SubSeq(w, d + 1, e)
           r == ContReport(ch, k - 1, bytes)
<1>2. Got(w, k) = d /\ Got(w, k + 1) = e
    BY GotIs
<1>3. d \in Nat /\ ContOffset(k) = d + ContDataSize
    <2>1. k - 1 \in Nat /\ k - 1 + 1 = k
        OBVIOUS
    <2> QED BY <2>1, Offsets
<1>4. d < Len(w)
    BY <1>2
<1>5. Piece(ch, cmd, w, k + 1) = r
    <2>1. k + 1 # 1 /\ k + 1 - 2 = k - 1 /\ k + 1 - 1 = k
        OBVIOUS
    <2> QED BY <2>1 DEF Piece
<1> HIDE DEF d
<1>6. /\ e \in Nat /\ d <= e /\ e <= Len(w)
      /\ Smaller(Len(w) - d, ContDataSize) = e - d
    BY <1>1, <1>3, <1>4, FramingAssumption DEF Smaller
<1> HIDE DEF e
<1>7. /\ bytes \in Seq(S) /\ Len(bytes) = e - d
      /\ Len(SubSeq(w, 1, d)) = d
      /\ SubSeq(w, 1, d) \o bytes = SubSeq(w, 1, e)
    BY <1>1, <1>3, <1>6, Pieces
<1> HIDE DEF bytes
<1>8. Chunk(bytes, e - d) = bytes
    BY <1>7, ChunkWhole
<1>9. /\ DOMAIN a = AssemblerFields
      /\ a.active /\ a.channel = ch /\ a.command = cmd /\ a.next_sequence = k - 1
      /\ a.expected_size = Len(w) /\ a.data = SubSeq(w, 1, d)
    BY <1>2 DEF Holding
<1>10. r.init = FALSE /\ r.channel = ch /\ r.sequence = k - 1 /\ r.data = bytes
    BY DEF ContReport
<1> HIDE DEF r
<1> DEFINE more == Chunk(r.data, Smaller(a.expected_size - Len(a.data), ContDataSize))
           b == [a EXCEPT !.data = @ \o more, !.next_sequence = @ + 1]
<1>11. Feed(a, r) = FinishIfComplete(b)
    BY <1>9, <1>10 DEF Feed, FeedCont
<1>12. more = bytes
    BY <1>6, <1>7, <1>8, <1>9, <1>10
<1> HIDE DEF more
<1>13. /\ b.data = a.data \o more /\ b.next_sequence = a.next_sequence + 1
       /\ DOMAIN b = AssemblerFields /\ b.active /\ b.channel = a.channel
       /\ b.command = a.command /\ b.expected_size = a.expected_size
    BY <1>9 DEF AssemblerFields
<1> HIDE DEF b
<1>14. b.data = SubSeq(w, 1, e)
    BY <1>7, <1>9, <1>12, <1>13
<1>15. b.next_sequence = k + 1 - 1
    BY <1>9, <1>13
<1>16. Holding(b, ch, cmd, w, k + 1)
    <2>1. b.data = SubSeq(w, 1, Got(w, k + 1))
        BY <1>2, <1>14
    <2>2. /\ DOMAIN b = AssemblerFields /\ b.active /\ b.channel = ch
          /\ b.command = cmd /\ b.expected_size = Len(w)
        BY <1>9, <1>13
    <2> QED BY <1>15, <2>1, <2>2 DEF Holding
<1> QED BY <1>5, <1>11, <1>16 DEF GoesOn

------------------------------------------------------------------------------
(* Framing: the inductive invariant                                        *)

(* Report number i of the call's message, and the bytes the first k carry. *)
Report(i) == Piece(Channel, "CBOR", payload, i)
Carried(k) == Got(payload, k)

(* Reports of the message that were fed to the receiver.                   *)
Arrived == Emitted - Len(wire)

(* The assembler after k reports that do not complete the message.         *)
Assembling(a, k) == Holding(a, Channel, "CBOR", payload, k)

(* A feed that completes the message.                                      *)
Completes(fed) == Whole(fed, Channel, "CBOR", payload)

FramingTypes ==
    /\ payload \in Seq(Units) /\ Len(payload) <= MessageMax
    /\ sequence \in Nat
    /\ phase \in {"idle", "first", "loop", "done"}
    /\ returned \in {"OK", "REFUSED"}
    /\ wire \in Seq(ReportsOf(Units))

(* The loop's offset is the sum of the chunks it has emitted, and it goes  *)
(* on only while bytes are left.                                           *)
Sender ==
    /\ phase \in {"idle", "first"} => offset = 0 /\ sequence = 0
    /\ phase \in {"first", "loop"} => returned = "OK"
    /\ phase \in {"loop", "done"} =>
          /\ offset = Carried(sequence + 1)
          /\ sequence > 0 => ContOffset(sequence - 1) < Len(payload)
    /\ phase = "done" /\ returned = "OK" => offset = Len(payload)

Wire ==
    /\ Len(wire) <= Emitted
    /\ \A j \in 1 .. Len(wire) : wire[j] = Report(Arrived + j)

Receiver ==
    /\ Arrived = 0 => ~assembler.active /\ Goes(received)
    /\ Arrived > 0 =>
          IF Carried(Arrived) < Len(payload)
            THEN Assembling(assembler, Arrived) /\ Goes(received)
            ELSE ~assembler.active /\ Completes(received)

FramingInv == FramingTypes /\ Sender /\ Wire /\ Receiver

LEMMA FragmentIs ==
    ASSUME FramingTypes
    PROVE  /\ Fragment(Channel, "CBOR", payload) =
                [i \in 1 .. FragmentCount(Len(payload)) |-> Report(i)]
           /\ Len(Fragment(Channel, "CBOR", payload)) = FragmentCount(Len(payload))
BY FragmentPieces DEF FramingTypes, Report

(* The invariant is what the property needs.                               *)
LEMMA InvRoundTrip == FramingInv => RoundTrip
<1> SUFFICES ASSUME FramingInv PROVE RoundTrip
    OBVIOUS
<1>1. /\ payload \in Seq(Units) /\ Len(payload) \in Nat /\ Len(wire) \in Nat
      /\ sequence \in Nat
    BY LenProperties DEF FramingInv, FramingTypes
<1>2. Emitted \in Nat /\ Arrived \in Nat /\ Arrived <= Emitted
    BY <1>1 DEF FramingInv, Wire, Arrived, Emitted
<1>3. received.result = "OK"
    BY <1>2 DEF FramingInv, Receiver, Goes, Completes, Whole
<1>4. received.complete =>
        received.message = [channel |-> Channel, command |-> "CBOR", data |-> payload]
    BY <1>2 DEF FramingInv, Receiver, Goes, Completes, Whole
<1>5. phase = "done" /\ returned = "OK" /\ wire = << >> =>
        received.complete /\ ~assembler.active
    <2> SUFFICES ASSUME phase = "done", returned = "OK", wire = << >>
                 PROVE  received.complete /\ ~assembler.active
        OBVIOUS
    <2>1. Len(wire) = 0 /\ Emitted = sequence + 1 /\ Arrived = sequence + 1
        BY <1>1 DEF Emitted, Arrived
    <2>2. Carried(Arrived) = Len(payload)
        BY <2>1 DEF FramingInv, Sender
    <2>3. Completes(received) /\ ~assembler.active
        <3>1. Arrived > 0 /\ ~(Carried(Arrived) < Len(payload))
            BY <1>1, <2>1, <2>2
        <3> QED BY <3>1 DEF FramingInv, Receiver
    <2> QED BY <2>3 DEF Completes, Whole
<1>6. Emitted <= FragmentCount(Len(payload))
    <2>1. 1 <= FragmentCount(Len(payload)) /\ FragmentCount(Len(payload)) \in Nat
        BY <1>1, CountSome
    <2>2. CASE phase \in {"loop", "done"} /\ sequence > 0
        <3>1. ContOffset(sequence - 1) < Len(payload) /\ sequence - 1 \in Nat
            BY <1>1, <2>2 DEF FramingInv, Sender
        <3>2. sequence - 1 + 2 <= FragmentCount(Len(payload))
            BY <1>1, <3>1, CountEnough
        <3> QED BY <1>1, <2>1, <2>2, <3>2 DEF Emitted
    <2> QED BY <1>1, <2>1, <2>2 DEF Emitted
<1>7. \A j \in 1 .. Len(wire) :
        wire[j] = Fragment(Channel, "CBOR", payload)[Emitted - Len(wire) + j]
    <2> SUFFICES ASSUME NEW j \in 1 .. Len(wire)
                 PROVE  wire[j] = Fragment(Channel, "CBOR", payload)[Emitted - Len(wire) + j]
        OBVIOUS
    <2>1. wire[j] = Report(Arrived + j)
        BY DEF FramingInv, Wire
    <2>2. Arrived + j \in 1 .. FragmentCount(Len(payload))
        <3>1. FragmentCount(Len(payload)) \in Nat
            BY <1>1, CountSome
        <3>2. Arrived + Len(wire) = Emitted
            BY <1>1, <1>2 DEF Arrived
        <3> QED BY <1>1, <1>2, <1>6, <3>1, <3>2
    <2>3. Fragment(Channel, "CBOR", payload)[Arrived + j] = Report(Arrived + j)
        BY <2>2, FragmentIs DEF FramingInv
    <2> QED BY <2>1, <2>3 DEF Arrived
<1>8. returned # "LIMIT_EXCEEDED" /\ Len(wire) <= Emitted
    BY DEF FramingInv, FramingTypes, Wire
<1> QED BY <1>3, <1>4, <1>5, <1>6, <1>7, <1>8, FragmentIs DEF RoundTrip, FramingInv

LEMMA FramingInitInv == FramingInit => FramingInv
<1> SUFFICES ASSUME FramingInit PROVE FramingInv
    OBVIOUS
<1>1. Len(payload) = 0 /\ payload \in Seq(Units) /\ wire \in Seq(ReportsOf(Units))
      /\ Len(wire) = 0
    BY EmptySeq DEF FramingInit
<1>2. Emitted = 0 /\ Arrived = 0
    BY <1>1 DEF FramingInit, Emitted, Arrived
<1>3. MessageMax \in Nat
    BY MessageLimit
<1>4. FramingTypes /\ Sender
    BY <1>1, <1>3 DEF FramingInit, FramingTypes, Sender
<1>5. Wire /\ Receiver
    BY <1>1, <1>2 DEF FramingInit, Wire, Receiver, Goes, Nothing, Fed, EmptyAssembler
<1> QED BY <1>4, <1>5 DEF FramingInv

(* What Carried and Report are at each place of the loop.                  *)
LEMMA CarriedIs ==
    ASSUME FramingTypes, NEW k \in Nat
    PROVE  /\ Carried(k) \in 0 .. Len(payload)
           /\ Carried(k + 1) = Smaller(Len(payload), ContOffset(k))
           /\ Carried(k) < Len(payload) /\ k > 0 => Carried(k) = ContOffset(k - 1)
BY GotIs DEF FramingTypes, Carried

LEMMA CallKeeps ==
    ASSUME FramingInv, NEW p \in Payloads, Call(p)
    PROVE  FramingInv'
<1>1. /\ phase \in {"idle", "done"} /\ returned = "OK" /\ wire = << >>
      /\ Len(p) <= MessageMax /\ payload' = p /\ offset' = 0 /\ sequence' = 0
      /\ phase' = "first" /\ received' = Nothing
      /\ UNCHANGED << returned, wire, assembler >>
    BY DEF Call
<1>2. p \in Seq(Units)
    BY PayloadAssumption
<1>3. Len(wire) = 0 /\ Emitted' = 0 /\ Arrived' = 0
    BY <1>1 DEF Emitted, Arrived
<1>4. FramingTypes' /\ Sender'
    BY <1>1, <1>2 DEF FramingInv, FramingTypes, Sender
<1>5. ~assembler.active
    <2>1. CASE phase = "idle"
        <3>1. Arrived = 0
            BY <1>3, <2>1 DEF Arrived, Emitted
        <3> QED BY <3>1 DEF FramingInv, Receiver
    <2>2. CASE phase = "done"
        <3>1. sequence \in Nat /\ Len(payload) \in Nat
            BY LenProperties DEF FramingInv, FramingTypes
        <3>2. Arrived = sequence + 1 /\ Arrived > 0
            BY <1>3, <2>2, <3>1 DEF Arrived, Emitted
        <3>3. ~(Carried(Arrived) < Len(payload))
            BY <1>1, <2>2, <3>1, <3>2 DEF FramingInv, Sender
        <3> QED BY <3>2, <3>3 DEF FramingInv, Receiver, Completes, Whole
    <2> QED BY <1>1, <2>1, <2>2
<1>6. Wire' /\ Receiver'
    BY <1>1, <1>3, <1>5 DEF Wire, Receiver, Goes, Nothing, Fed
<1> QED BY <1>4, <1>6 DEF FramingInv

(* Steps that only end the call.                                           *)
LEMMA EndKeeps ==
    ASSUME FramingInv,
           \/ phase = "first" /\ Refused("idle")
           \/ phase = "loop" /\ Refused("done")
           \/ Return
    PROVE  FramingInv'
<1>1. /\ UNCHANGED << payload, offset, sequence, wire, assembler, received >>
      /\ \/ phase = "first" /\ phase' = "idle" /\ returned' = "REFUSED"
         \/ phase = "loop" /\ phase' = "done" /\ returned' = "REFUSED"
         \/ /\ phase = "loop" /\ phase' = "done" /\ returned' = "OK"
            /\ offset >= Len(payload)
    BY DEF Refused, Return
<1>2. Emitted' = Emitted /\ Arrived' = Arrived
    BY <1>1 DEF Emitted, Arrived
<1>3. FramingTypes'
    BY <1>1 DEF FramingInv, FramingTypes
<1>4. \A k : Carried(k)' = Carried(k) /\ Report(k)' = Report(k)
    BY <1>1 DEF Carried, Report, Got, Piece
<1>5. Wire' /\ Receiver'
    BY <1>1, <1>2, <1>4 DEF FramingInv, Wire, Receiver, Assembling, Holding, Goes, Completes, Whole
<1>6. phase = "loop" => offset <= Len(payload) /\ offset \in Nat /\ Len(payload) \in Nat
    <2>1. sequence + 1 \in Nat
        BY DEF FramingInv, FramingTypes
    <2> QED BY <2>1, CarriedIs, LenProperties DEF FramingInv, FramingTypes, Sender
<1>7. Sender'
    BY <1>1, <1>4, <1>6 DEF FramingInv, Sender
<1> QED BY <1>3, <1>5, <1>7 DEF FramingInv

(* A report that is appended to the wire is the next one of the message.   *)
LEMMA EmitKeeps ==
    ASSUME FramingInv, NEW x \in ReportsOf(Units), x = Report(Emitted + 1),
           wire' = Append(wire, x), Emitted' = Emitted + 1,
           UNCHANGED << payload, assembler, received >>
    PROVE  wire' \in Seq(ReportsOf(Units)) /\ Wire' /\ Receiver'
<1>1. /\ wire \in Seq(ReportsOf(Units)) /\ Len(wire) \in Nat /\ Emitted \in Nat
      /\ Len(wire) <= Emitted
    BY LenProperties DEF FramingInv, FramingTypes, Wire, Emitted
<1>2. /\ wire' \in Seq(ReportsOf(Units)) /\ Len(wire') = Len(wire) + 1
      /\ \A j \in 1 .. Len(wire) : wire'[j] = wire[j]
      /\ wire'[Len(wire) + 1] = x
    BY <1>1, AppendProperties
<1>3. Arrived' = Arrived /\ Arrived + Len(wire) = Emitted /\ Arrived \in Nat
    BY <1>1, <1>2 DEF Arrived
<1>4. \A k : Carried(k)' = Carried(k) /\ Report(k)' = Report(k)
    BY DEF Carried, Report, Got, Piece
<1>5. Receiver'
    BY <1>3, <1>4 DEF FramingInv, Receiver, Assembling, Holding, Goes, Completes, Whole
<1>6. ASSUME NEW j \in 1 .. Len(wire') PROVE wire'[j] = Report(Arrived + j)
    <2>1. CASE j \in 1 .. Len(wire)
        BY <1>2, <2>1 DEF FramingInv, Wire
    <2>2. CASE j = Len(wire) + 1
        <3>1. Arrived + j = Emitted + 1
            BY <1>1, <1>3, <2>2
        <3> QED BY <1>2, <2>2, <3>1
    <2> QED BY <1>1, <1>2, <2>1, <2>2
<1>7. ASSUME NEW j \in 1 .. Len(wire') PROVE wire'[j] = Report(Arrived + j)'
    BY <1>3, <1>4, <1>6
<1>8. Len(wire') <= Emitted'
    BY <1>1, <1>2
<1>9. Wire'
    BY <1>7, <1>8 DEF Wire
<1> QED BY <1>2, <1>5, <1>9

LEMMA LaterReport ==
    ASSUME NEW i, i # 1
    PROVE  Report(i) = ContReport(Channel, i - 2,
                          SubSeq(payload, ContOffset(i - 2) + 1,
                                 Smaller(Len(payload), ContOffset(i - 1))))
BY LaterPiece DEF Report

LEMMA ReportTypes ==
    ASSUME FramingTypes, NEW k \in Nat
    PROVE  Report(k + 1) \in ReportsOf(Units)
BY PieceTypes, PayloadAssumption DEF FramingTypes, Report, Commands

LEMMA FirstKeeps ==
    ASSUME FramingInv, phase = "first", EmitFirst
    PROVE  FramingInv'
<1> DEFINE x == InitReport(Channel, "CBOR", Len(payload),
                    SubSeq(payload, 1, Smaller(Len(payload), InitDataSize)))
<1>1. /\ wire' = Append(wire, x)
      /\ offset' = Smaller(Len(payload), InitDataSize)
      /\ phase' = "loop"
      /\ UNCHANGED << payload, sequence, returned, assembler, received >>
    BY DEF EmitFirst
<1>2. sequence = 0 /\ Emitted = 0 /\ Emitted' = 1
    BY <1>1 DEF FramingInv, Sender, Emitted
<1>3. x = Report(Emitted + 1)
    BY <1>2 DEF Report, Piece
<1>4. x \in ReportsOf(Units)
    BY <1>2, <1>3, ReportTypes DEF FramingInv
<1> HIDE DEF x
<1>5. wire' \in Seq(ReportsOf(Units)) /\ Wire' /\ Receiver'
    BY <1>1, <1>2, <1>3, <1>4, EmitKeeps
<1>6. FramingTypes'
    BY <1>1, <1>5 DEF FramingInv, FramingTypes
<1>7. offset' = Carried(sequence + 1)'
    <2>1. Carried(1) = Smaller(Len(payload), ContOffset(0))
        BY CarriedIs DEF FramingInv
    <2>2. ContOffset(0) = InitDataSize
        BY Offsets
    <2>3. Carried(sequence + 1)' = Carried(sequence + 1)
        BY <1>1 DEF Carried, Got
    <2> QED BY <1>1, <1>2, <2>1, <2>2, <2>3
<1>8. Sender'
    BY <1>1, <1>2, <1>7 DEF FramingInv, Sender
<1> QED BY <1>5, <1>6, <1>8 DEF FramingInv

LEMMA NextKeeps ==
    ASSUME FramingInv, Loop, EmitNext
    PROVE  FramingInv'
<1> DEFINE chunk == Smaller(Len(payload) - offset, ContDataSize)
           x == ContReport(Channel, sequence, SubSeq(payload, offset + 1, offset + chunk))
<1>1. /\ phase = "loop" /\ offset < Len(payload)
      /\ wire' = Append(wire, x)
      /\ sequence' = sequence + 1 /\ offset' = offset + chunk
      /\ UNCHANGED << payload, phase, returned, assembler, received >>
    BY DEF Loop, EmitNext
<1>2. Len(payload) \in Nat /\ sequence \in Nat /\ payload \in Seq(Units)
    BY LenProperties DEF FramingInv, FramingTypes
<1>3. Emitted = sequence + 1 /\ Emitted' = sequence + 2
    BY <1>1, <1>2 DEF Emitted
<1>4. /\ offset = ContOffset(sequence) /\ ContOffset(sequence) \in Nat
      /\ ContOffset(sequence + 1) = ContOffset(sequence) + ContDataSize
    <2>1. offset = Carried(sequence + 1)
        BY <1>1 DEF FramingInv, Sender
    <2>2. sequence + 1 \in Nat /\ sequence + 1 > 0 /\ sequence + 1 - 1 = sequence
        BY <1>2
    <2> QED BY <1>1, <1>2, <2>1, <2>2, CarriedIs, Offsets DEF FramingInv
<1>5. offset + chunk = Smaller(Len(payload), ContOffset(sequence + 1))
    BY <1>1, <1>2, <1>4, FramingAssumption DEF Smaller
<1>6. x = Report(Emitted + 1)
    <2> DEFINE i == Emitted + 1
    <2>1. i # 1 /\ i - 2 = sequence /\ i - 1 = sequence + 1
        BY <1>2, <1>3
    <2>2. x = ContReport(Channel, sequence, SubSeq(payload, ContOffset(sequence) + 1,
                                Smaller(Len(payload), ContOffset(sequence + 1))))
        BY <1>4, <1>5
    <2> HIDE DEF i, x
    <2>3. x = Report(i)
        BY <2>1, <2>2, LaterReport
    <2> QED BY <2>3 DEF i
<1>7. x \in ReportsOf(Units)
    <2>1. sequence + 1 \in Nat
        BY <1>2
    <2> QED BY <1>3, <1>6, <2>1, ReportTypes DEF FramingInv
<1> HIDE DEF x, chunk
<1>8. wire' \in Seq(ReportsOf(Units)) /\ Wire' /\ Receiver'
    <2>1. Emitted' = Emitted + 1
        BY <1>2, <1>3
    <2> QED BY <1>1, <1>6, <1>7, <2>1, EmitKeeps
<1>9. FramingTypes'
    BY <1>1, <1>2, <1>8 DEF FramingInv, FramingTypes
<1>10. offset' = Carried(sequence + 1)'
    <2>1. Carried(sequence + 2) = Smaller(Len(payload), ContOffset(sequence + 1))
        <3>1. sequence + 1 \in Nat /\ sequence + 1 + 1 = sequence + 2
            BY <1>2
        <3> QED BY <3>1, CarriedIs DEF FramingInv
    <2>2. Carried(sequence + 1)' = Carried(sequence + 2)
        <3>1. sequence' + 1 = sequence + 2
            BY <1>1, <1>2
        <3> QED BY <1>1, <3>1 DEF Carried, Got
    <2> QED BY <1>1, <1>5, <2>1, <2>2
<1>11. sequence' - 1 = sequence
    BY <1>1, <1>2
<1>12. Sender'
    BY <1>1, <1>4, <1>10, <1>11 DEF FramingInv, Sender
<1> QED BY <1>8, <1>9, <1>12 DEF FramingInv

(* The limit that begin checks keeps the loop from ever running out of     *)
(* sequence numbers.                                                       *)
LEMMA NeverTooMany ==
    ASSUME FramingInv, Loop
    PROVE  sequence <= LastSequence
<1>1. /\ phase = "loop" /\ offset < Len(payload)
    BY DEF Loop
<1>2. /\ Len(payload) \in Nat /\ sequence \in Nat /\ Len(payload) <= MessageMax
      /\ LastSequence \in Nat
    BY FramingAssumption, LenProperties DEF FramingInv, FramingTypes
<1>3. SUFFICES ASSUME LastSequence + 1 <= sequence PROVE FALSE
    BY <1>2
<1>4. MessageMax <= ContOffset(sequence) /\ ContOffset(sequence) \in Nat /\ MessageMax \in Nat
    <2>1. LastSequence + 1 \in Nat
        BY <1>2
    <2>2. ContOffset(LastSequence + 1) <= ContOffset(sequence)
        BY <1>2, <1>3, <2>1, Offsets
    <2>3. ContOffset(sequence) \in Nat
        BY <1>2, Offsets
    <2> QED BY <2>2, <2>3, MessageLimit
<1>5. offset = Smaller(Len(payload), ContOffset(sequence))
    BY <1>1, <1>2, CarriedIs DEF FramingInv, Sender
<1> QED BY <1>1, <1>2, <1>4, <1>5 DEF Smaller

------------------------------------------------------------------------------
(* Framing: the receiver                                                   *)

(* A report that is still on its way finds the message incomplete.         *)
LEMMA BytesLeft ==
    ASSUME FramingInv, wire # << >>, Arrived > 0
    PROVE  Carried(Arrived) < Len(payload)
<1>1. /\ Len(wire) \in Nat /\ Len(wire) > 0 /\ sequence \in Nat /\ Len(payload) \in Nat
    BY EmptySeq, LenProperties DEF FramingInv, FramingTypes
<1>2. phase \in {"loop", "done"} /\ Arrived \in Nat /\ Arrived <= sequence /\ sequence > 0
    BY <1>1 DEF Arrived, Emitted
<1>3. ContOffset(sequence - 1) < Len(payload)
    BY <1>2 DEF FramingInv, Sender
<1>4. Arrived - 1 \in Nat /\ sequence - 1 \in Nat /\ Arrived - 1 <= sequence - 1
    BY <1>1, <1>2
<1>5. /\ ContOffset(Arrived - 1) \in Nat /\ ContOffset(sequence - 1) \in Nat
      /\ ContOffset(Arrived - 1) <= ContOffset(sequence - 1)
    BY <1>4, Offsets
<1>6. Carried(Arrived) = Smaller(Len(payload), ContOffset(Arrived - 1))
    BY <1>2 DEF Carried, Got
<1> QED BY <1>1, <1>3, <1>5, <1>6 DEF Smaller

LEMMA ArriveKeeps ==
    ASSUME FramingInv, Arrive
    PROVE  FramingInv'
<1>1. /\ wire # << >>
      /\ received' = Feed(assembler, Head(wire))
      /\ assembler' = received'.assembler
      /\ wire' = Tail(wire)
      /\ UNCHANGED << payload, offset, sequence, phase, returned >>
    BY DEF Arrive
<1>2. /\ wire \in Seq(ReportsOf(Units)) /\ Len(wire) \in Nat /\ Len(wire) > 0
      /\ Len(wire) <= Emitted /\ Emitted \in Nat
    BY <1>1, EmptySeq, LenProperties DEF FramingInv, FramingTypes, Wire, Emitted
<1>3. /\ wire' \in Seq(ReportsOf(Units)) /\ Len(wire') = Len(wire) - 1
      /\ \A j \in 1 .. Len(wire') : wire'[j] = wire[j + 1]
      /\ Head(wire) = wire[1]
    BY <1>1, <1>2, HeadTailProperties
<1>4. Emitted' = Emitted
    BY <1>1 DEF Emitted
<1>5. Arrived \in Nat /\ Arrived' = Arrived + 1 /\ Arrived + 1 \in Nat
    BY <1>2, <1>3, <1>4 DEF Arrived
<1>6. \A k : Carried(k)' = Carried(k) /\ Report(k)' = Report(k)
    BY <1>1 DEF Carried, Report, Got, Piece
<1>7. FramingTypes' /\ Sender'
    BY <1>1, <1>3, <1>6 DEF FramingInv, FramingTypes, Sender
<1>8. Wire'
    <2>1. ASSUME NEW j \in 1 .. Len(wire') PROVE wire'[j] = Report(Arrived + 1 + j)
        <3> DEFINE i == Arrived + 1 + j
        <3>1. j + 1 \in 1 .. Len(wire) /\ Arrived + (j + 1) = i
            BY <1>2, <1>3, <1>5
        <3>2. wire[j + 1] = Report(Arrived + (j + 1))
            BY <3>1 DEF FramingInv, Wire
        <3> HIDE DEF i
        <3>3. wire'[j] = Report(i)
            BY <1>3, <3>1, <3>2
        <3> QED BY <3>3 DEF i
    <2>2. Len(wire') <= Emitted'
        BY <1>2, <1>3, <1>4
    <2> QED BY <1>5, <1>6, <2>1, <2>2 DEF Wire
<1>9. Head(wire) = Report(Arrived + 1)
    BY <1>2, <1>3 DEF FramingInv, Wire
<1>10. \E b : Assembling(b, Arrived + 1) /\ received' = FinishIfComplete(b)
    <2>1. CASE Arrived = 0
        <3>1. ~assembler.active
            BY <2>1 DEF FramingInv, Receiver
        <3>2. Head(wire) = Report(1)
            BY <1>9, <2>1
        <3>3. \E b : Assembling(b, 1) /\ Feed(assembler, Report(1)) = FinishIfComplete(b)
            BY <3>1, FirstFed, PayloadAssumption
               DEF FramingInv, FramingTypes, Assembling, Report
        <3> QED BY <1>1, <2>1, <3>2, <3>3
    <2>2. CASE Arrived > 0
        <3>1. Carried(Arrived) < Len(payload)
            BY <1>1, <2>2, BytesLeft
        <3>2. Assembling(assembler, Arrived)
            BY <2>2, <3>1 DEF FramingInv, Receiver
        <3>3. /\ payload \in Seq(Units) /\ Got(payload, Arrived) < Len(payload)
              /\ Holding(assembler, Channel, "CBOR", payload, Arrived)
            BY <3>1, <3>2 DEF FramingInv, FramingTypes, Assembling, Carried
        <3>4. \E b : /\ Holding(b, Channel, "CBOR", payload, Arrived + 1)
                     /\ Feed(assembler, Piece(Channel, "CBOR", payload, Arrived + 1))
                            = FinishIfComplete(b)
            <4> DEFINE k == Arrived
            <4>1. k \in Nat /\ k > 0
                BY <1>5, <2>2
            <4>2. Got(payload, k) < Len(payload)
                BY <3>3
            <4>3. Holding(assembler, Channel, "CBOR", payload, k)
                BY <3>3
            <4>4. payload \in Seq(Units)
                BY <3>3
            <4> HIDE DEF k
            <4>5. GoesOn(assembler, Channel, "CBOR", payload, k + 1)
                BY <4>1, <4>2, <4>3, <4>4, ContinuationFed
            <4> QED BY <4>5 DEF k, GoesOn
        <3>5. \E b : /\ Assembling(b, Arrived + 1)
                     /\ Feed(assembler, Report(Arrived + 1)) = FinishIfComplete(b)
            BY <3>4 DEF Assembling, Report
        <3> QED BY <1>1, <1>9, <3>5
    <2> QED BY <1>5, <2>1, <2>2
<1>11. PICK b : Assembling(b, Arrived + 1) /\ received' = FinishIfComplete(b)
    BY <1>10
<1>12. IF Carried(Arrived + 1) < Len(payload)
         THEN Goes(received') /\ received'.assembler = b
         ELSE Completes(received')
    BY <1>5, <1>11, FinishIs
       DEF FramingInv, FramingTypes, Assembling, Carried, Completes
<1>13. /\ Arrived' > 0 /\ Carried(Arrived)' = Carried(Arrived + 1)
       /\ Len(payload)' = Len(payload)
    BY <1>1, <1>5, <1>6
<1>14. Receiver'
    <2>1. CASE Carried(Arrived + 1) < Len(payload)
        <3>1. Goes(received') /\ assembler' = b
            BY <1>1, <1>12, <2>1
        <3>2. Assembling(assembler, Arrived)'
            BY <1>1, <1>5, <1>6, <1>11, <3>1 DEF Assembling, Holding
        <3> QED BY <1>5, <1>6, <1>13, <2>1, <3>1, <3>2 DEF Receiver, Goes
    <2>2. CASE ~(Carried(Arrived + 1) < Len(payload))
        <3>1. Completes(received') /\ ~assembler'.active
            BY <1>1, <1>12, <2>2 DEF Completes, Whole, EmptyAssembler
        <3>2. Completes(received)'
            BY <1>1, <3>1 DEF Completes, Whole
        <3> QED BY <1>5, <1>6, <1>13, <2>2, <3>1, <3>2 DEF Receiver
    <2> QED BY <2>1, <2>2
<1> QED BY <1>7, <1>8, <1>14 DEF FramingInv

LEMMA FramingNextInv == FramingInv /\ [FramingNext]_framingVars => FramingInv'
<1> SUFFICES ASSUME FramingInv, [FramingNext]_framingVars PROVE FramingInv'
    OBVIOUS
<1>1. CASE \E p \in Payloads : Call(p)
    BY <1>1, CallKeeps
<1>2. CASE First
    BY <1>2, FirstKeeps, EndKeeps DEF First
<1>3. CASE Loop
    <2>1. sequence <= LastSequence
        BY <1>3, NeverTooMany
    <2>2. sequence \in Nat /\ LastSequence \in Nat
        BY FramingAssumption DEF FramingInv, FramingTypes
    <2>3. phase = "loop" /\ (EmitNext \/ Refused("done"))
        BY <1>3, <2>1, <2>2 DEF Loop
    <2> QED BY <1>3, <2>3, NextKeeps, EndKeeps
<1>4. CASE Return
    BY <1>4, EndKeeps
<1>5. CASE Arrive
    BY <1>5, ArriveKeeps
<1>6. CASE UNCHANGED framingVars
    <2>1. /\ payload' = payload /\ offset' = offset /\ sequence' = sequence
          /\ phase' = phase /\ returned' = returned /\ wire' = wire
          /\ assembler' = assembler /\ received' = received
        BY <1>6 DEF framingVars
    <2>2. Emitted' = Emitted /\ Arrived' = Arrived
        BY <2>1 DEF Emitted, Arrived
    <2>3. \A k : Carried(k)' = Carried(k) /\ Report(k)' = Report(k)
        BY <2>1 DEF Carried, Report, Got, Piece
    <2>4. FramingTypes' /\ Sender'
        BY <2>1, <2>3 DEF FramingInv, FramingTypes, Sender
    <2>5. Wire' /\ Receiver'
        BY <2>1, <2>2, <2>3 DEF FramingInv, Wire, Receiver, Assembling, Holding, Goes, Completes, Whole
    <2> QED BY <2>4, <2>5 DEF FramingInv
<1> QED BY <1>1, <1>2, <1>3, <1>4, <1>5, <1>6 DEF FramingNext

(* A message of any size the limit of ctaphid.h:14 admits, fragmented by   *)
(* rin_ctaphid_fragment (ctaphid.c:109-150), is what rin_ctaphid_feed       *)
(* returns, for every report size and every last sequence number.          *)
THEOREM MessagesArriveWhole == FramingSpec => []RoundTrip
<1>1. FramingInit => FramingInv
    BY FramingInitInv
<1>2. FramingInv /\ [FramingNext]_framingVars => FramingInv'
    BY FramingNextInv
<1>3. FramingInv => RoundTrip
    BY InvRoundTrip
<1> QED BY <1>1, <1>2, <1>3, PTL DEF FramingSpec

------------------------------------------------------------------------------
(* The transaction: the inductive invariant                                *)

RequestUnits == [kind : {"request"}, request : Requests, index : Nat]
NonceUnits == [kind : {"nonce"}, nonce : Nonces]
HostUnits == RequestUnits \cup NonceUnits

ReplyUnits ==
    [kind : {"reply"}, nonce : Nonces, channel : Channels \cup {NoChannel},
     version : {0, 2}, cbor : BOOLEAN]
AnswerUnits == [kind : {"answer"}, request : Requests, index : Nat, of : Nat]
StatusUnits == [kind : {"status"}, status : {"PROCESSING", "OTHER"}]
ErrorUnits == [kind : {"error"}, code : {"TIMEOUT", "INVALID_CHANNEL", "BUSY"}]
DeviceUnits == ReplyUnits \cup AnswerUnits \cup StatusUnits \cup ErrorUnits

CborInit(r) == r.init /\ r.command = "CBOR"

(* A report of the client: it begins with all that its receiver looks at.  *)
HostReport(r) ==
    /\ r.init => r.command \in {"INIT", "CBOR", "CANCEL"}
    /\ ~r.init => r.command = "NONE"
    /\ r.channel \in Channels \cup {BroadcastCid}
    /\ r.command # "INIT" => r.channel \in Channels
    /\ r.command = "INIT" =>
          /\ r.size = 1 /\ Len(r.data) = 1 /\ r.data[1] \in NonceUnits
    /\ r.command = "CANCEL" => r.size = 0
    /\ r.command = "CBOR" =>
          /\ r.size > 0 /\ Len(r.data) > 0 /\ r.data[1] \in RequestUnits

(* A report of the authenticator.                                          *)
DeviceReport(r) ==
    /\ r.channel \in Channels \cup {BroadcastCid}
    /\ ~r.init => r.command = "NONE"
    /\ r.command = "INIT" =>
          /\ r.init /\ r.size = Len(r.data) /\ Len(r.data) <= 1
          /\ Len(r.data) = 1 => r.data[1] \in ReplyUnits
    /\ r.command = "KEEPALIVE" =>
          r.init /\ r.size = 1 /\ Len(r.data) = 1 /\ r.data \in Seq(DeviceUnits)

Assemblers ==
    [active : BOOLEAN, channel : Nat, command : Commands, expected_size : Nat,
     next_sequence : Nat, data : Seq(HostUnits \cup {Zero})]

(* The authenticator assembles requests only: the other messages of the    *)
(* client are one report long.                                             *)
RequestAssembler(a) ==
    a.active => /\ a.command = "CBOR" /\ a.channel \in Channels
                /\ Len(a.data) > 0 /\ a.data[1] \in RequestUnits

Works == {NoWork} \cup [channel : Channels, request : Requests]

HostShape ==
    /\ toDevice \in Seq(ReportsOf(HostUnits))
    /\ \A i \in 1 .. Len(toDevice) : HostReport(toDevice[i])

DeviceShape ==
    /\ fromDevice \in Seq(ReportsOf(DeviceUnits))
    /\ \A i \in 1 .. Len(fromDevice) : DeviceReport(fromDevice[i])

AuthShape ==
    /\ auth \in [assembler : Assemblers, work : Works]
    /\ RequestAssembler(auth.assembler)

ClientShape ==
    /\ IsClient(client)
    /\ client.channel \in Channels \cup {NoChannel}
    /\ client.max_message_size \in Nat
    /\ DOMAIN client.assembler = AssemblerFields
    /\ client.assembler.active => client.assembler.command # "INIT"

Asks(r, n) == r.command = "INIT" /\ r.data[1].nonce = n
Replies(r, n) == r.command = "INIT" /\ Len(r.data) = 1 /\ r.data[1].nonce = n

(* While a channel is being allocated the client's INIT is the last report *)
(* submitted, and once it is answered nothing precedes the answer on the   *)
(* channel that the answer names, nor follows it.                          *)
Allocating ==
    client.state = "ALLOCATING" =>
        /\ \A i \in 1 .. Len(toDevice) : Asks(toDevice[i], client.nonce) =>
              /\ i = Len(toDevice)
              /\ \A j \in 1 .. Len(fromDevice) :
                    ~Replies(fromDevice[j], client.nonce)
        /\ \A i \in 1 .. Len(fromDevice) : Replies(fromDevice[i], client.nonce) =>
              /\ toDevice = << >> /\ ~auth.assembler.active
              /\ auth.work.channel # fromDevice[i].data[1].channel
                    \/ fromDevice[i].data[1].channel = NoChannel
              /\ \A j \in i + 1 .. Len(fromDevice) :
                    fromDevice[j].channel # fromDevice[i].data[1].channel

Talking == client.state \in {"IDLE", "WAITING", "CANCELING"}

(* A request of the client that the authenticator has not read to its end. *)
Asking ==
    auth.assembler.active \/ \E i \in 1 .. Len(toDevice) : CborInit(toDevice[i])

Silent ==
    /\ auth.work.channel # client.channel
    /\ ~client.assembler.active
    /\ \A i \in 1 .. Len(fromDevice) : fromDevice[i].channel # client.channel

(* The client has submitted at most one request that was not read yet.     *)
OneRequest ==
    Talking =>
        /\ client.channel \in Channels
        /\ \A i \in 1 .. Len(toDevice) : /\ toDevice[i].channel = client.channel
                                         /\ toDevice[i].command # "INIT"
        /\ auth.assembler.active =>
              /\ auth.assembler.channel = client.channel
              /\ \A i \in 1 .. Len(toDevice) : ~CborInit(toDevice[i])
        /\ \A i, j \in 1 .. Len(toDevice) :
              CborInit(toDevice[i]) /\ CborInit(toDevice[j]) => i = j
        /\ client.state = "IDLE" => Silent /\ ~Asking

(* A waiting client's request is the current one, wherever it is.          *)
CurrentRequest ==
    client.state = "WAITING" =>
        /\ current \in Requests
        /\ \A i \in 1 .. Len(toDevice) :
              CborInit(toDevice[i]) => toDevice[i].data[1].request = current
        /\ auth.assembler.active => auth.assembler.data[1].request = current
        /\ auth.work.channel = client.channel => auth.work.request = current

(* What the authenticator may end a request with.                          *)
AnswersTo(q) == {[command |-> "CBOR", data |-> Answer(q, n)] : n \in AnswerSizes \cup {1}}
Errors == {[command |-> "ERROR", data |-> << u >>] : u \in ErrorUnits}
Answers == Errors \cup (IF client.state = "WAITING" THEN AnswersTo(current)
                        ELSE UNION {AnswersTo(q) : q \in Requests})

(* The place of a report in the authenticator's answer; 0: a keepalive.    *)
Rank(r) ==
    IF r.command = "KEEPALIVE" THEN 0 ELSE IF r.init THEN 1 ELSE r.sequence + 2

(* The client holds the first k reports of the answer m, and what is on    *)
(* the way to it is of the rest, in order, after keepalives.               *)
Answering(m, k) ==
    /\ \A i \in 1 .. Len(fromDevice) : fromDevice[i].channel = client.channel =>
          /\ Rank(fromDevice[i]) = 0 => k = 0
          /\ Rank(fromDevice[i]) # 0 =>
                /\ Rank(fromDevice[i]) \in k + 1 .. FragmentCount(Len(m.data))
                /\ fromDevice[i] = Piece(client.channel, m.command, m.data,
                                         Rank(fromDevice[i]))
          /\ \A j \in i + 1 .. Len(fromDevice) :
                fromDevice[j].channel = client.channel =>
                    Rank(fromDevice[i]) = 0 \/ Rank(fromDevice[i]) < Rank(fromDevice[j])
    /\ k = 0 => ~client.assembler.active
    /\ k > 0 => /\ Holding(client.assembler, client.channel, m.command, m.data, k)
                /\ Got(m.data, k) < Len(m.data)

(* A waiting client's request is on its way, at work or answered.          *)
Waiting ==
    client.state \in {"WAITING", "CANCELING"} =>
        \/ Asking /\ Silent
        \/ /\ ~Asking /\ auth.work.channel = client.channel
           /\ ~client.assembler.active
           /\ \A i \in 1 .. Len(fromDevice) :
                 fromDevice[i].channel = client.channel =>
                     fromDevice[i].command = "KEEPALIVE"
        \/ /\ ~Asking /\ auth.work.channel # client.channel
           /\ \E m \in Answers : \E k \in 0 .. FragmentCount(Len(m.data)) : Answering(m, k)

Shape == HostShape /\ DeviceShape /\ AuthShape /\ ClientShape

TransactionInv ==
    Shape /\ Allocating /\ OneRequest /\ CurrentRequest /\ Waiting

------------------------------------------------------------------------------
(* Reports, one at a time                                                  *)

LEMMA Appended ==
    ASSUME NEW S, NEW s \in Seq(S), NEW t \in Seq(S)
    PROVE  LET u == s \o t IN
           /\ u \in Seq(S) /\ Len(u) = Len(s) + Len(t)
           /\ \A i \in 1 .. Len(s) : u[i] = s[i]
           /\ \A i \in 1 .. Len(t) : u[Len(s) + i] = t[i]
           /\ \A i \in 1 .. Len(u) :
                 \/ i \in 1 .. Len(s) /\ u[i] = s[i]
                 \/ i > Len(s) /\ i - Len(s) \in 1 .. Len(t) /\ u[i] = t[i - Len(s)]
<1> DEFINE u == s \o t
<1>1. Len(s) \in Nat /\ Len(t) \in Nat
    BY LenProperties
<1>2. /\ u \in Seq(S) /\ Len(u) = Len(s) + Len(t)
      /\ \A i \in 1 .. Len(s) + Len(t) :
            u[i] = IF i <= Len(s) THEN s[i] ELSE t[i - Len(s)]
    BY ConcatProperties
<1> HIDE DEF u
<1>3. \A i \in 1 .. Len(s) : i \in 1 .. Len(s) + Len(t) /\ i <= Len(s)
    BY <1>1
<1>4. \A i \in 1 .. Len(t) : /\ Len(s) + i \in 1 .. Len(s) + Len(t)
                             /\ ~(Len(s) + i <= Len(s)) /\ Len(s) + i - Len(s) = i
    BY <1>1
<1>5. \A i \in 1 .. Len(u) :
         \/ i \in 1 .. Len(s) /\ u[i] = s[i]
         \/ i > Len(s) /\ i - Len(s) \in 1 .. Len(t) /\ u[i] = t[i - Len(s)]
    BY <1>1, <1>2
<1> QED BY <1>2, <1>3, <1>4, <1>5 DEF u

LEMMA Taken ==
    ASSUME NEW S, NEW s \in Seq(S), s # << >>
    PROVE  LET t == Tail(s) IN
           /\ t \in Seq(S) /\ Len(s) \in Nat /\ Len(t) = Len(s) - 1 /\ Len(s) > 0
           /\ Head(s) = s[1]
           /\ \A i \in 1 .. Len(t) : i + 1 \in 2 .. Len(s) /\ t[i] = s[i + 1]
<1> DEFINE t == Tail(s)
<1>1. Len(s) \in Nat \ {0}
    BY EmptySeq
<1>2. t \in Seq(S) /\ Len(t) = Len(s) - 1 /\ \A i \in 1 .. Len(t) : t[i] = s[i + 1]
    BY HeadTailProperties
<1> HIDE DEF t
<1>3. \A i \in 1 .. Len(t) : i + 1 \in 2 .. Len(s)
    BY <1>1, <1>2
<1> QED BY <1>1, <1>2, <1>3 DEF t

LEMMA PieceFields ==
    ASSUME NEW ch, NEW cmd, NEW w, NEW i \in Nat \ {0}
    PROVE  LET r == Piece(ch, cmd, w, i)
           IN  /\ r.channel = ch
               /\ i = 1 => /\ r.init /\ r.command = cmd /\ r.size = Len(w)
                           /\ r.data = SubSeq(w, 1, Smaller(Len(w), InitDataSize))
               /\ i # 1 => ~r.init /\ r.command = "NONE" /\ r.sequence = i - 2
BY DEF Piece, InitReport, ContReport

(* A message of at most one byte is one report.                            *)
LEMMA SinglePiece ==
    ASSUME NEW S, NEW w \in Seq(S), Len(w) <= 1
    PROVE  /\ FragmentCount(Len(w)) = 1 /\ Got(w, 1) = Len(w)
           /\ SubSeq(w, 1, Smaller(Len(w), InitDataSize)) = w
<1>1. Len(w) \in Nat /\ InitDataSize \in Nat \ {0}
    BY LenProperties, FramingAssumption
<1>2. Smaller(Len(w), InitDataSize) = Len(w) /\ FragmentCount(Len(w)) = 1
    BY <1>1 DEF Smaller, FragmentCount
<1>3. Got(w, 1) = Len(w)
    BY <1>2, Offsets DEF Got
<1> QED BY <1>2, <1>3, SubSeqFull

(* The first report carries the first byte.                                *)
LEMMA FirstByte ==
    ASSUME NEW S, NEW w \in Seq(S), Len(w) > 0
    PROVE  LET bytes == SubSeq(w, 1, Smaller(Len(w), InitDataSize))
           IN  Len(bytes) > 0 /\ bytes[1] = w[1]
<1> DEFINE n == Smaller(Len(w), InitDataSize)
<1>1. Len(w) \in Nat /\ InitDataSize \in Nat \ {0}
    BY LenProperties, FramingAssumption
<1>2. n \in Nat /\ 1 <= n /\ n <= Len(w)
    BY <1>1 DEF Smaller
<1> HIDE DEF n
<1>3. \A i \in 1 .. n : w[i] \in S
    BY <1>1, <1>2, ElementOfSeq
<1> DEFINE b == SubSeq(w, 1, n)
<1>4. Len(b) = n /\ \A i \in 1 .. n - 1 + 1 : b[i] = w[1 + i - 1]
    <2>1. /\ Len(b) = IF 1 <= n THEN n - 1 + 1 ELSE 0
          /\ \A i \in 1 .. n - 1 + 1 : b[i] = w[1 + i - 1]
        BY <1>2, <1>3, SubSeqProperties
    <2> HIDE DEF b
    <2> QED BY <1>2, <2>1
<1> HIDE DEF b
<1>5. b[1] = w[1 + 1 - 1]
    BY <1>2, <1>4
<1>6. 1 + 1 - 1 = 1
    OBVIOUS
<1> QED BY <1>2, <1>4, <1>5, <1>6 DEF n, b

(* No more reports are counted than the message needs.                     *)
LEMMA CountTight ==
    ASSUME NEW size \in Nat, NEW k \in Nat \ {0}, k < FragmentCount(size)
    PROVE  ContOffset(k - 1) < size
<1>1. InitDataSize \in Nat \ {0} /\ ContDataSize \in Nat \ {0}
    BY FramingAssumption
<1>2. InitDataSize < size
    BY <1>1 DEF FragmentCount
<1> DEFINE x == size - InitDataSize + ContDataSize - 1
           q == x \div ContDataSize
           j == k - 1
<1>3. x \in Nat /\ q \in Nat /\ k <= q
    <2>1. x \in Nat
        BY <1>1, <1>2
    <2>2. q \in Nat
        BY <1>1, <2>1
    <2>3. FragmentCount(size) = 1 + q
        BY <1>1, <1>2 DEF FragmentCount
    <2> QED BY <2>1, <2>2, <2>3
<1>4. q * ContDataSize <= x
    <2>1. x % ContDataSize \in 0 .. ContDataSize - 1 /\ x = (ContDataSize * q) + (x % ContDataSize)
        BY <1>1, <1>3
    <2>2. ContDataSize * q = q * ContDataSize /\ q * ContDataSize \in Nat
        BY <1>1, <1>3
    <2> QED BY <1>3, <2>1, <2>2
<1> HIDE DEF q
<1>5. k * ContDataSize <= q * ContDataSize /\ k * ContDataSize \in Nat /\ q * ContDataSize \in Nat
    BY <1>1, <1>3, Products
<1>6. j \in Nat /\ j + 1 = k
    OBVIOUS
<1> HIDE DEF j
<1>7. k * ContDataSize = j * ContDataSize + ContDataSize /\ j * ContDataSize \in Nat
    BY <1>1, <1>6, Products
<1>8. j * ContDataSize + ContDataSize <= size - InitDataSize + ContDataSize - 1
    BY <1>1, <1>3, <1>4, <1>5, <1>7
<1>9. InitDataSize + j * ContDataSize < size
    BY <1>1, <1>7, <1>8
<1> QED BY <1>9 DEF ContOffset, j

(* The message is complete with its last report and not before.            *)
LEMMA LastPiece ==
    ASSUME NEW S, NEW w \in Seq(S), NEW k \in Nat \ {0}, k <= FragmentCount(Len(w)),
           ~(Got(w, k) < Len(w))
    PROVE  k = FragmentCount(Len(w))
<1>1. Len(w) \in Nat /\ FragmentCount(Len(w)) \in Nat
    BY LenProperties, CountSome
<1>2. SUFFICES ASSUME k < FragmentCount(Len(w)) PROVE FALSE
    BY <1>1
<1>3. ContOffset(k - 1) < Len(w)
    BY <1>1, <1>2, CountTight
<1>4. ContOffset(k - 1) \in Nat
    <2>1. k - 1 \in Nat
        OBVIOUS
    <2> QED BY <2>1, Offsets
<1>5. Got(w, k) = Smaller(Len(w), ContOffset(k - 1))
    BY DEF Got
<1> QED BY <1>1, <1>3, <1>4, <1>5 DEF Smaller

------------------------------------------------------------------------------
(* What the authenticator makes of a report                                *)

LEMMA ChunkIs ==
    ASSUME NEW S, NEW data \in Seq(S), NEW n \in Int
    PROVE  /\ Chunk(data, n) \in Seq(S \cup {Zero})
           /\ n \in Nat => Len(Chunk(data, n)) = n
           /\ n > 0 /\ Len(data) > 0 => Chunk(data, n)[1] = data[1]
<1>1. Len(data) \in Nat /\ \A i \in 1 .. Len(data) : data[i] \in S
    BY LenProperties, ElementOfSeq
<1>2. \A i \in 1 .. n : (IF i <= Len(data) THEN data[i] ELSE Zero) \in S \cup {Zero}
    BY <1>1
<1> DEFINE chunk == [i \in 1 .. n |-> IF i <= Len(data) THEN data[i] ELSE Zero]
<1>3. Chunk(data, n) = chunk
    BY DEF Chunk
<1>4. CASE n \in Nat
    <2>1. chunk \in Seq(S \cup {Zero}) /\ Len(chunk) = n
        BY <1>2, <1>4
    <2> QED BY <1>1, <1>3, <2>1
<1>5. CASE n < 0
    <2>1. 1 .. n = 1 .. 0
        BY <1>5
    <2>2. chunk \in [1 .. 0 -> S \cup {Zero}]
        BY <1>2, <2>1
    <2>3. chunk \in Seq(S \cup {Zero})
        BY <2>2
    <2> QED BY <1>3, <1>5, <2>3
<1> QED BY <1>4, <1>5

LEMMA FinishCases ==
    ASSUME NEW b
    PROVE  LET fed == FinishIfComplete(b)
           IN  /\ fed.result = "OK"
               /\ \/ /\ Len(b.data) # b.expected_size
                     /\ ~fed.complete /\ fed.assembler = b
                  \/ /\ Len(b.data) = b.expected_size
                     /\ fed.complete /\ fed.assembler = EmptyAssembler
                     /\ fed.message = [channel |-> b.channel, command |-> b.command,
                                       data |-> b.data]
BY DEF FinishIfComplete, Fed

LEMMA EmptyIsAssembler ==
    /\ EmptyAssembler \in Assemblers
    /\ ~EmptyAssembler.active /\ DOMAIN EmptyAssembler = AssemblerFields
    /\ RequestAssembler(EmptyAssembler)
<1>1. << >> \in Seq(HostUnits \cup {Zero})
    BY EmptySeq
<1> QED BY <1>1 DEF EmptyAssembler, Assemblers, RequestAssembler, NoChannel, Commands, AssemblerFields

(* The channel and the first unit of the request that the report r begins  *)
(* or that the assembler a goes on with.                                   *)
Begins(r, a, channel, unit) ==
    \/ CborInit(r) /\ channel = r.channel /\ unit = r.data[1]
    \/ ~r.init /\ a.active /\ channel = a.channel /\ unit = a.data[1]

(* What feeding it gives: the beginning of a request, or a whole message.  *)
Fits(fed, r, a) ==
    /\ ~fed.complete =>
          /\ fed.assembler \in Assemblers /\ RequestAssembler(fed.assembler)
          /\ fed.assembler.active =>
                Begins(r, a, fed.assembler.channel, fed.assembler.data[1])
    /\ fed.complete =>
          \/ /\ fed.message.command = "INIT" /\ r.init /\ r.command = "INIT"
             /\ fed.message.channel = r.channel /\ fed.message.data[1] = r.data[1]
          \/ /\ fed.message.command = "CANCEL" /\ r.init /\ r.command = "CANCEL"
             /\ fed.message.channel = r.channel
          \/ /\ fed.message.command = "CBOR"
             /\ Begins(r, a, fed.message.channel, fed.message.data[1])

LEMMA InitFits ==
    ASSUME NEW r \in ReportsOf(HostUnits), HostReport(r), r.init, NEW a
    PROVE  Fits(FeedInit(EmptyAssembler, r), r, a)
<1> DEFINE n == Smaller(r.size, InitDataSize)
           chunk == Chunk(r.data, n)
           b == [active |-> TRUE, channel |-> r.channel, command |-> r.command,
                 expected_size |-> r.size, next_sequence |-> 0, data |-> chunk]
<1>1. /\ r.size \in Nat /\ r.data \in Seq(HostUnits) /\ r.channel \in Nat
      /\ r.command \in Commands
    BY DEF ReportsOf
<1>2. /\ n \in Nat /\ (r.size > 0 => n > 0) /\ (r.size <= 1 => n = r.size)
    BY <1>1, FramingAssumption DEF Smaller
<1> HIDE DEF n
<1>3. /\ chunk \in Seq(HostUnits \cup {Zero}) /\ Len(chunk) = n
      /\ (n > 0 /\ Len(r.data) > 0 => chunk[1] = r.data[1])
    <2> DEFINE bytes == r.data
    <2>1. bytes \in Seq(HostUnits) /\ n \in Int
        BY <1>1, <1>2
    <2> HIDE DEF bytes
    <2>2. /\ Chunk(bytes, n) \in Seq(HostUnits \cup {Zero})
          /\ (n \in Nat => Len(Chunk(bytes, n)) = n)
          /\ (n > 0 /\ Len(bytes) > 0 => Chunk(bytes, n)[1] = bytes[1])
        BY <2>1, ChunkIs
    <2> QED BY <1>2, <2>2 DEF bytes
<1> HIDE DEF chunk
<1>4. /\ b \in Assemblers /\ b.active /\ b.channel = r.channel /\ b.command = r.command
      /\ b.expected_size = r.size /\ b.data = chunk
    BY <1>1, <1>3 DEF Assemblers
<1>5. \/ FeedInit(EmptyAssembler, r) = FinishIfComplete(b)
      \/ FeedInit(EmptyAssembler, r) = Fed(EmptyAssembler, "CORRUPT_DATA", FALSE, NoMessage)
    BY EmptyIsAssembler DEF FeedInit, n, chunk
<1> HIDE DEF b
<1>6. CASE FeedInit(EmptyAssembler, r) = Fed(EmptyAssembler, "CORRUPT_DATA", FALSE, NoMessage)
    BY <1>6, EmptyIsAssembler DEF Fits, Fed
<1>7. CASE FeedInit(EmptyAssembler, r) = FinishIfComplete(b)
    <2> DEFINE fed == FinishIfComplete(b)
    <2>1. \/ /\ Len(b.data) # b.expected_size
             /\ ~fed.complete /\ fed.assembler = b
          \/ /\ Len(b.data) = b.expected_size
             /\ fed.complete
             /\ fed.message = [channel |-> b.channel, command |-> b.command,
                               data |-> b.data]
        BY FinishCases
    <2> HIDE DEF fed
    <2>2. CASE r.command \in {"INIT", "CANCEL"}
        <3>1. Len(b.data) = b.expected_size
            BY <1>2, <1>3, <1>4, <2>2 DEF HostReport
        <3>2. r.command = "INIT" => chunk[1] = r.data[1]
            BY <1>1, <1>2, <1>3 DEF HostReport
        <3>3. Fits(fed, r, a)
            BY <1>4, <2>1, <2>2, <3>1, <3>2 DEF Fits
        <3> QED BY <1>7, <3>3 DEF fed
    <2>3. CASE r.command = "CBOR"
        <3>1. chunk[1] = r.data[1] /\ r.data[1] \in RequestUnits /\ Len(chunk) > 0
              /\ r.channel \in Channels
            BY <1>1, <1>2, <1>3, <2>3 DEF HostReport
        <3>2. RequestAssembler(b)
            BY <1>4, <2>3, <3>1 DEF RequestAssembler
        <3>3. Begins(r, a, b.channel, b.data[1])
            BY <1>4, <2>3, <3>1 DEF Begins, CborInit
        <3>4. Fits(fed, r, a)
            BY <1>4, <2>1, <2>3, <3>2, <3>3 DEF Fits
        <3> QED BY <1>7, <3>4 DEF fed
    <2> QED BY <2>2, <2>3 DEF HostReport
<1> QED BY <1>5, <1>6, <1>7

LEMMA ContFits ==
    ASSUME NEW r \in ReportsOf(HostUnits), ~r.init,
           NEW a \in Assemblers, RequestAssembler(a)
    PROVE  Fits(FeedCont(a, r), r, a)
<1>1. r.data \in Seq(HostUnits)
    BY DEF ReportsOf
<1>2. CASE ~a.active \/ r.channel # a.channel \/ r.sequence # a.next_sequence
    <2>1. FeedCont(a, r) = Fed(EmptyAssembler, "CORRUPT_DATA", FALSE, NoMessage)
        BY <1>2 DEF FeedCont
    <2> QED BY <2>1, EmptyIsAssembler DEF Fits, Fed
<1>3. CASE ~(~a.active \/ r.channel # a.channel \/ r.sequence # a.next_sequence)
    <2> DEFINE n == Smaller(a.expected_size - Len(a.data), ContDataSize)
               chunk == Chunk(r.data, n)
               b == [a EXCEPT !.data = @ \o chunk, !.next_sequence = @ + 1]
    <2>1. /\ a.data \in Seq(HostUnits \cup {Zero}) /\ Len(a.data) \in Nat
          /\ a.expected_size \in Nat /\ a.next_sequence \in Nat
        BY LenProperties DEF Assemblers
    <2>2. n \in Int
        BY <2>1, FramingAssumption DEF Smaller
    <2>3. FeedCont(a, r) = FinishIfComplete(b)
        BY <1>3 DEF FeedCont
    <2> HIDE DEF n
    <2>4. chunk \in Seq(HostUnits \cup {Zero})
        BY <1>1, <2>2, ChunkIs
    <2> HIDE DEF chunk
    <2> DEFINE data == a.data \o chunk
    <2>5. /\ data \in Seq(HostUnits \cup {Zero}) /\ Len(data) = Len(a.data) + Len(chunk)
          /\ \A i \in 1 .. Len(a.data) : data[i] = a.data[i]
        BY <2>1, <2>4, Appended
    <2>6. /\ b.data = data /\ b.active = a.active /\ b.channel = a.channel
          /\ b.command = a.command
          /\ b \in Assemblers
        <3> HIDE DEF data
        <3>1. b = [a EXCEPT !.data = data, !.next_sequence = a.next_sequence + 1]
            BY DEF data
        <3> HIDE DEF b
        <3>2. a.next_sequence + 1 \in Nat
            BY <2>1
        <3> QED BY <2>5, <3>1, <3>2 DEF Assemblers
    <2> HIDE DEF data, b
    <2>7. /\ a.active /\ a.command = "CBOR" /\ a.channel \in Channels
          /\ Len(a.data) > 0 /\ a.data[1] \in RequestUnits
        BY <1>3 DEF RequestAssembler
    <2>8. data[1] = a.data[1] /\ Len(data) > 0
        <3>1. Len(chunk) \in Nat
            BY <2>4, LenProperties
        <3> QED BY <2>1, <2>5, <2>7, <3>1
    <2>9. RequestAssembler(b) /\ Begins(r, a, b.channel, b.data[1])
        BY <2>6, <2>7, <2>8 DEF RequestAssembler, Begins
    <2> DEFINE fed == FinishIfComplete(b)
    <2>10. \/ ~fed.complete /\ fed.assembler = b
           \/ /\ fed.complete
              /\ fed.message = [channel |-> b.channel, command |-> b.command,
                                data |-> b.data]
        BY FinishCases
    <2> HIDE DEF fed
    <2>11. Fits(fed, r, a)
        BY <2>6, <2>7, <2>9, <2>10 DEF Fits
    <2> QED BY <2>3, <2>11 DEF fed
<1> QED BY <1>2, <1>3

LEMMA ReadFits ==
    ASSUME NEW r \in ReportsOf(HostUnits), HostReport(r),
           NEW a \in Assemblers, RequestAssembler(a)
    PROVE  Fits(Feed(IF r.init THEN EmptyAssembler ELSE a, r), r, a)
<1>1. CASE r.init
    BY <1>1, InitFits DEF Feed
<1>2. CASE ~r.init
    BY <1>2, ContFits DEF Feed
<1> QED BY <1>1, <1>2

------------------------------------------------------------------------------
(* What the client makes of a report                                       *)

(* Nothing but the state, the assembler, and what the caller does not see, *)
(* has moved.                                                              *)
Remains(d, c, state, a) ==
    /\ IsClient(d) /\ d.state = state /\ d.assembler = a
    /\ d.channel = c.channel /\ d.nonce = c.nonce
    /\ d.max_message_size = c.max_message_size

LEMMA IdleRemains ==
    ASSUME NEW c, IsClient(c)
    PROVE  /\ Remains(IdleClient(c), c, "IDLE", c.assembler)
           /\ Remains([IdleClient(c) EXCEPT !.keepalive = "NONE"], c, "IDLE", c.assembler)
           /\ \A status : Remains([c EXCEPT !.keepalive = status], c, c.state, c.assembler)
BY DEF Remains, IsClient, IdleClient, ClientFields, ClientStates

(* A whole message that a client with a request gets.                      *)
Handled(did, c, m) ==
    \/ did.client = DisconnectedClient /\ did.event # "RESPONSE"
    \/ /\ m.command = "KEEPALIVE" /\ did.event # "RESPONSE"
       /\ Remains(did.client, c, c.state, c.assembler)
    \/ /\ m.command # "KEEPALIVE" /\ Remains(did.client, c, "IDLE", c.assembler)
       /\ did.event = "RESPONSE" =>
             /\ did.message = m /\ c.state # "CANCELING" /\ m.command # "ERROR"
             /\ (m.command = "CBOR" => ~(Len(m.data) > c.max_message_size))

LEMMA MessageHandled ==
    ASSUME NEW c, IsClient(c), c.state \in {"WAITING", "CANCELING"}, NEW m
    PROVE  Handled(ClientMessage(c, m), c, m)
<1>1. \A result : Handled(Did(DisconnectedClient, result), c, m)
    BY DEF Handled, Did
<1>2. CASE m.command = "CBOR" /\ Len(m.data) > c.max_message_size
    BY <1>1, <1>2 DEF ClientMessage
<1>3. CASE ~(m.command = "CBOR" /\ Len(m.data) > c.max_message_size)
    <2>1. CASE m.command = "KEEPALIVE"
        <3>1. ClientMessage(c, m) = ClientKeepalive(c, m)
            BY <1>3, <2>1 DEF ClientMessage
        <3> DEFINE d == [c EXCEPT !.keepalive = m.data[1].status]
        <3>2. Remains(d, c, c.state, c.assembler)
            BY IdleRemains
        <3>3. \/ ClientKeepalive(c, m) = Raised(d, "KEEPALIVE", m)
              \/ ClientKeepalive(c, m) = Did(DisconnectedClient, "CORRUPT_DATA")
            BY DEF ClientKeepalive
        <3> HIDE DEF d
        <3>4. Handled(Raised(d, "KEEPALIVE", m), c, m)
            BY <2>1, <3>2 DEF Handled, Raised
        <3> QED BY <1>1, <3>1, <3>3, <3>4
    <2>2. CASE m.command = "ERROR"
        <3>1. ClientMessage(c, m) = ClientError(c, m)
            BY <1>3, <2>2 DEF ClientMessage
        <3>2. Handled(Did(IdleClient(c), "IO"), c, m)
            BY <2>2, IdleRemains DEF Handled, Did
        <3> QED BY <1>1, <3>1, <3>2 DEF ClientError
    <2>3. CASE m.command \notin {"KEEPALIVE", "ERROR"} /\ m.command # c.expected_command
        <3>1. ClientMessage(c, m) = Did(DisconnectedClient, "CORRUPT_DATA")
            BY <1>3, <2>3 DEF ClientMessage
        <3> QED BY <1>1, <3>1
    <2>4. CASE m.command \notin {"KEEPALIVE", "ERROR"} /\ m.command = c.expected_command
        <3> DEFINE idle == [IdleClient(c) EXCEPT !.keepalive = "NONE"]
        <3>1. ClientMessage(c, m) = ClientAnswer(c, m)
            BY <1>3, <2>4 DEF ClientMessage
        <3>2. Remains(idle, c, "IDLE", c.assembler)
            BY IdleRemains
        <3>3. ClientAnswer(c, m) =
                 IF c.state = "CANCELING" THEN Raised(idle, "CANCELED", NoMessage)
                 ELSE Raised(idle, "RESPONSE", m)
            BY DEF ClientAnswer
        <3> HIDE DEF idle
        <3>4. CASE c.state = "CANCELING"
            <4>1. Handled(Raised(idle, "CANCELED", NoMessage), c, m)
                BY <2>4, <3>2 DEF Handled, Raised
            <4> QED BY <3>1, <3>3, <3>4, <4>1
        <3>5. CASE c.state # "CANCELING"
            <4> DEFINE did == Raised(idle, "RESPONSE", m)
            <4>1. did.client = idle /\ did.event = "RESPONSE" /\ did.message = m
                BY DEF Raised
            <4> HIDE DEF did
            <4>2. Handled(did, c, m)
                BY <1>3, <2>4, <3>2, <3>5, <4>1 DEF Handled
            <4> QED BY <3>1, <3>3, <3>5, <4>2 DEF did
        <3> QED BY <3>4, <3>5
    <2> QED BY <2>1, <2>2, <2>3, <2>4
<1> QED BY <1>2, <1>3

(* A whole message that a client without a channel gets.                   *)
Allocated(did, c, m) ==
    \/ did.client = DisconnectedClient /\ did.event # "RESPONSE"
    \/ /\ did.event # "RESPONSE"
       /\ m.command = "INIT" /\ Len(m.data) >= 1 /\ m.data[1].nonce = c.nonce
       /\ m.data[1].channel \notin {NoChannel, BroadcastCid}
       /\ IsClient(did.client) /\ did.client.state = "IDLE"
       /\ did.client.channel = m.data[1].channel
       /\ did.client.assembler = c.assembler
       /\ did.client.max_message_size = DefaultMaxMessage

LEMMA MessageAllocated ==
    ASSUME NEW c, IsClient(c), c.state = "ALLOCATING", NEW m
    PROVE  Allocated(ClientMessage(c, m), c, m)
<1> DEFINE did == AcceptInitResponse(c, m)
           reply == m.data[1]
           idle == [IdleClient(c) EXCEPT !.channel = reply.channel, !.cbor = TRUE,
                                         !.max_message_size = DefaultMaxMessage]
<1>1. \A result : Allocated(Did(DisconnectedClient, result), c, m)
    BY DEF Allocated, Did
<1>2. CASE m.command = "CBOR" /\ Len(m.data) > c.max_message_size
    BY <1>1, <1>2 DEF ClientMessage
<1>3. CASE ~(m.command = "CBOR" /\ Len(m.data) > c.max_message_size)
    <2>1. ClientMessage(c, m) = OrDisconnect(did)
        BY <1>3 DEF ClientMessage
    <2>2. did.result = "OK" =>
             /\ did = Raised(idle, "READY", m)
             /\ m.command = "INIT" /\ Len(m.data) >= 1 /\ reply.nonce = c.nonce
             /\ reply.channel \notin {NoChannel, BroadcastCid}
        <3> HIDE DEF idle
        <3>1. AcceptInitResponse(c, m) =
                 IF ~IsInitReply(m) THEN Did(c, "CORRUPT_DATA")
                 ELSE IF reply.nonce # c.nonce THEN Did(c, "ACCESS_DENIED")
                 ELSE IF \/ reply.channel \in {NoChannel, BroadcastCid}
                         \/ c.channel # NoChannel /\ reply.channel # c.channel
                   THEN Did(c, "CORRUPT_DATA")
                 ELSE IF reply.version = 0 THEN Did(c, "VERSION_MISMATCH")
                 ELSE IF ~reply.cbor THEN Did(c, "NOT_SUPPORTED")
                 ELSE Raised(idle, "READY", m)
            BY DEF AcceptInitResponse, idle
        <3>2. \A result : result # "OK" => Did(c, result).result # "OK"
            BY DEF Did
        <3> HIDE DEF reply
        <3> QED BY <3>1, <3>2 DEF IsInitReply
    <2>3. /\ IsClient(idle) /\ idle.state = "IDLE" /\ idle.channel = reply.channel
          /\ idle.assembler = c.assembler /\ idle.max_message_size = DefaultMaxMessage
        BY DEF IsClient, IdleClient, ClientFields, ClientStates
    <2> HIDE DEF idle
    <2>4. did.result = "OK" => Allocated(did, c, m)
        <3>1. /\ Raised(idle, "READY", m).client = idle
              /\ Raised(idle, "READY", m).event = "READY"
            BY DEF Raised
        <3> HIDE DEF did
        <3> QED BY <2>2, <2>3, <3>1 DEF Allocated
    <2> HIDE DEF did
    <2> QED BY <1>1, <2>1, <2>4 DEF OrDisconnect
<1> QED BY <1>2, <1>3

(* rin_ctaphid_client_feed, when the client waits for something.           *)
LEMMA FeedCases ==
    ASSUME NEW c, IsClient(c), c.state \in BusyStates, NEW r
    PROVE  LET did == ClientFeed(c, r)
               fed == Feed(c.assembler, r)
               kept == [c EXCEPT !.assembler = fed.assembler]
           IN  \/ did.client = DisconnectedClient /\ did.event # "RESPONSE"
               \/ /\ did.client = c /\ did.event # "RESPONSE"
                  /\ r.channel # ExpectedChannel(c)
               \/ /\ r.channel = ExpectedChannel(c) /\ fed.result = "OK"
                  /\ Remains(kept, c, c.state, fed.assembler)
                  /\ \/ ~fed.complete /\ did.client = kept /\ did.event # "RESPONSE"
                     \/ fed.complete /\ did = ClientMessage(kept, fed.message)
<1> DEFINE did == ClientFeed(c, r)
           fed == Feed(c.assembler, r)
           kept == [c EXCEPT !.assembler = fed.assembler]
<1>1. c.state \notin {"DISCONNECTED", "IDLE"}
    BY DEF BusyStates
<1>2. Remains(kept, c, c.state, fed.assembler)
    BY DEF IsClient, ClientFields, Remains
<1>3. did = IF TimedOut(c) THEN ClientPoll(c)
            ELSE IF r.channel # ExpectedChannel(c) THEN Did(c, "WOULD_BLOCK")
            ELSE IF fed.result # "OK" THEN Did(DisconnectedClient, fed.result)
            ELSE IF ~fed.complete THEN Did(kept, "OK")
            ELSE ClientMessage(kept, fed.message)
    BY <1>1 DEF ClientFeed
<1>4. \A d, result : Did(d, result).client = d /\ Did(d, result).event # "RESPONSE"
    BY DEF Did
<1>5. TimedOut(c) => ClientPoll(c) = Did(DisconnectedClient, "TIMED_OUT")
    BY DEF ClientPoll
<1> HIDE DEF did, fed, kept
<1>6. \/ did.client = DisconnectedClient /\ did.event # "RESPONSE"
      \/ /\ did.client = c /\ did.event # "RESPONSE"
         /\ r.channel # ExpectedChannel(c)
      \/ /\ r.channel = ExpectedChannel(c) /\ fed.result = "OK"
         /\ Remains(kept, c, c.state, fed.assembler)
         /\ \/ ~fed.complete /\ did.client = kept /\ did.event # "RESPONSE"
            \/ fed.complete /\ did = ClientMessage(kept, fed.message)
    BY <1>2, <1>3, <1>4, <1>5
<1> QED BY <1>6 DEF did, fed, kept

------------------------------------------------------------------------------
(* What a submission and a message of the authenticator add                *)

LEMMA Fragments ==
    ASSUME NEW S, NEW w \in Seq(S), NEW ch \in Nat, NEW cmd \in Commands
    PROVE  LET f == Fragment(ch, cmd, w)
           IN  /\ f \in Seq(ReportsOf(S))
               /\ Len(f) = FragmentCount(Len(w)) /\ Len(f) \in Nat \ {0}
               /\ \A i \in 1 .. Len(f) : i \in Nat \ {0} /\ f[i] = Piece(ch, cmd, w, i)
<1> DEFINE f == Fragment(ch, cmd, w)
<1>1. /\ FragmentCount(Len(w)) \in Nat \ {0}
      /\ f = [i \in 1 .. FragmentCount(Len(w)) |-> Piece(ch, cmd, w, i)]
      /\ Len(f) = FragmentCount(Len(w))
    BY FragmentPieces
<1> DEFINE n == FragmentCount(Len(w))
<1> HIDE DEF n, f
<1>2. \A i \in 1 .. n : Piece(ch, cmd, w, i) \in ReportsOf(S)
    <2> TAKE i \in 1 .. n
    <2> DEFINE k == i - 1
    <2>1. k \in Nat /\ k + 1 = i
        BY <1>1 DEF n
    <2> HIDE DEF k
    <2>2. Piece(ch, cmd, w, k + 1) \in ReportsOf(S)
        BY <2>1, PieceTypes
    <2> QED BY <2>1, <2>2
<1>3. f \in [1 .. n -> ReportsOf(S)]
    BY <1>1, <1>2 DEF n
<1>4. f \in Seq(ReportsOf(S))
    BY <1>1, <1>3 DEF n
<1> QED BY <1>1, <1>4 DEF f

HostMessage(ch, cmd, w) ==
    /\ w \in Seq(HostUnits)
    /\ \/ cmd = "INIT" /\ Len(w) = 1 /\ w[1] \in NonceUnits
          /\ ch \in Channels \cup {BroadcastCid}
       \/ cmd = "CBOR" /\ Len(w) > 0 /\ w[1] \in RequestUnits /\ ch \in Channels
       \/ cmd = "CANCEL" /\ Len(w) = 0 /\ ch \in Channels

ChannelsAre ==
    /\ Channels \subseteq Nat /\ BroadcastCid \in Nat /\ NoChannel \in Nat
    /\ NoChannel \notin Channels /\ BroadcastCid \notin Channels
    /\ NoChannel # BroadcastCid

LEMMA SomeChannels == ChannelsAre
BY TransactionAssumption DEF ChannelsAre, BroadcastCid, NoChannel

LEMMA HostPieces ==
    ASSUME NEW ch, NEW cmd, NEW w, HostMessage(ch, cmd, w), NEW i \in Nat \ {0},
           i <= FragmentCount(Len(w))
    PROVE  LET r == Piece(ch, cmd, w, i)
           IN  /\ HostReport(r) /\ r.channel = ch
               /\ i = 1 => r.init /\ r.command = cmd
               /\ i = 1 /\ Len(w) > 0 => r.data[1] = w[1]
               /\ i # 1 => ~r.init /\ r.command = "NONE"
<1> DEFINE r == Piece(ch, cmd, w, i)
           bytes == SubSeq(w, 1, Smaller(Len(w), InitDataSize))
<1>1. /\ r.channel = ch
      /\ i = 1 => r.init /\ r.command = cmd /\ r.size = Len(w) /\ r.data = bytes
      /\ i # 1 => ~r.init /\ r.command = "NONE"
    BY PieceFields
<1>2. Len(w) > 0 => Len(bytes) > 0 /\ bytes[1] = w[1]
    BY FirstByte DEF HostMessage
<1>3. Len(w) <= 1 => bytes = w
    BY SinglePiece DEF HostMessage
<1>4. Len(w) \in Nat
    BY LenProperties DEF HostMessage
<1> HIDE DEF r, bytes
<1>5. CASE i = 1
    <2>1. CASE cmd = "INIT"
        <3>1. Len(w) = 1 /\ w[1] \in NonceUnits /\ ch \in Channels \cup {BroadcastCid}
            BY <2>1 DEF HostMessage
        <3>2. bytes = w
            BY <1>3, <3>1
        <3>3. HostReport(r)
            BY <1>1, <1>5, <2>1, <3>1, <3>2 DEF HostReport
        <3> QED BY <1>1, <1>2, <1>5, <3>3 DEF r
    <2>2. CASE cmd = "CBOR"
        <3>1. Len(w) > 0 /\ w[1] \in RequestUnits /\ ch \in Channels
            BY <2>2 DEF HostMessage
        <3>2. HostReport(r)
            BY <1>1, <1>2, <1>5, <2>2, <3>1 DEF HostReport
        <3> QED BY <1>1, <1>2, <1>5, <3>2 DEF r
    <2>3. CASE cmd = "CANCEL"
        <3>1. Len(w) = 0 /\ ch \in Channels
            BY <2>3 DEF HostMessage
        <3>2. HostReport(r)
            BY <1>1, <1>5, <2>3, <3>1 DEF HostReport
        <3> QED BY <1>1, <1>2, <1>5, <3>2 DEF r
    <2> QED BY <2>1, <2>2, <2>3 DEF HostMessage
<1>6. CASE i # 1
    <2>1. ch \in Channels \cup {BroadcastCid}
        BY DEF HostMessage
    <2>2. ch \in Channels
        <3>1. Len(w) <= 1 => FragmentCount(Len(w)) = 1
            BY SinglePiece DEF HostMessage
        <3>2. ~(Len(w) = 1)
            <4>1. i > 1
                BY <1>6
            <4>2. Len(w) = 1 => Len(w) <= 1
                OBVIOUS
            <4>3. Len(w) = 1 => FragmentCount(Len(w)) = 1
                BY <3>1, <4>2
            <4> QED BY <4>1, <4>3
        <3>3. cmd # "INIT"
            BY <3>2 DEF HostMessage
        <3> QED BY <3>3 DEF HostMessage
    <2> QED BY <1>1, <1>6, <2>1, <2>2 DEF r, HostReport
<1> QED BY <1>5, <1>6

(* emit, for each report of a message: some of its first reports go out.   *)
LEMMA EmitAdds ==
    ASSUME HostShape, NEW ch, NEW cmd, NEW w, HostMessage(ch, cmd, w),
           NEW k \in 0 .. Len(Fragment(ch, cmd, w)), NEW done,
           Emit(Fragment(ch, cmd, w), done, k)
    PROVE  LET f == Fragment(ch, cmd, w) IN
           /\ HostShape'
           /\ outcome'.event # "RESPONSE"
           /\ Len(f) = FragmentCount(Len(w)) /\ Len(f) \in Nat \ {0}
           /\ client' = IF k = Len(f) THEN done ELSE DisconnectedClient
           /\ Len(toDevice) \in Nat /\ Len(toDevice') = Len(toDevice) + k
           /\ \A i \in 1 .. Len(toDevice') :
                 \/ i \in 1 .. Len(toDevice) /\ toDevice'[i] = toDevice[i]
                 \/ /\ i > Len(toDevice) /\ i - Len(toDevice) \in 1 .. Len(f)
                    /\ toDevice'[i] = Piece(ch, cmd, w, i - Len(toDevice))
<1> DEFINE f == Fragment(ch, cmd, w)
<1>1. /\ toDevice' = toDevice \o SubSeq(f, 1, k)
      /\ Apply(IF k = Len(f) THEN Did(done, "OK") ELSE Did(DisconnectedClient, "REFUSED"))
    BY DEF Emit
<1>2. /\ client' = IF k = Len(f) THEN done ELSE DisconnectedClient
      /\ outcome'.event # "RESPONSE"
    BY <1>1 DEF Apply, Did, Outcome
<1>3. w \in Seq(HostUnits) /\ ch \in Nat /\ cmd \in Commands
    BY SomeChannels DEF HostMessage, ChannelsAre, Commands
<1>4. /\ f \in Seq(ReportsOf(HostUnits))
      /\ Len(f) = FragmentCount(Len(w)) /\ Len(f) \in Nat \ {0}
      /\ \A i \in 1 .. Len(f) : i \in Nat \ {0} /\ f[i] = Piece(ch, cmd, w, i)
    BY <1>3, Fragments
<1>5. k \in 0 .. Len(f)
    OBVIOUS
<1> HIDE DEF f
<1> DEFINE g == SubSeq(f, 1, k)
<1>6. g \in Seq(ReportsOf(HostUnits)) /\ Len(g) = k /\ \A i \in 1 .. k : g[i] = f[i]
    <2>1. \A i \in 1 .. k : i \in 1 .. Len(f) /\ f[i] \in ReportsOf(HostUnits)
        BY <1>5, <1>4, ElementOfSeq
    <2>2. /\ g \in Seq(ReportsOf(HostUnits))
          /\ Len(g) = IF 1 <= k THEN k - 1 + 1 ELSE 0
          /\ \A i \in 1 .. k - 1 + 1 : g[i] = f[1 + i - 1]
        BY <1>5, <1>4, <2>1, SubSeqProperties
    <2> HIDE DEF g
    <2>3. k \in Nat /\ k - 1 + 1 = k /\ \A i \in 1 .. k : 1 + i - 1 = i
        BY <1>4
    <2>4. Len(g) = k
        BY <2>2, <2>3
    <2> QED BY <2>2, <2>3, <2>4
<1> HIDE DEF g
<1>7. toDevice' = toDevice \o g /\ toDevice \in Seq(ReportsOf(HostUnits))
    BY <1>1 DEF g, HostShape
<1>8. /\ toDevice' \in Seq(ReportsOf(HostUnits)) /\ Len(toDevice') = Len(toDevice) + k
      /\ \A i \in 1 .. Len(toDevice') :
            \/ i \in 1 .. Len(toDevice) /\ toDevice'[i] = toDevice[i]
            \/ /\ i > Len(toDevice) /\ i - Len(toDevice) \in 1 .. k
               /\ toDevice'[i] = g[i - Len(toDevice)]
    <2> DEFINE u == toDevice \o g
    <2>1. /\ u \in Seq(ReportsOf(HostUnits)) /\ Len(u) = Len(toDevice) + Len(g)
          /\ \A i \in 1 .. Len(u) :
                \/ i \in 1 .. Len(toDevice) /\ u[i] = toDevice[i]
                \/ /\ i > Len(toDevice) /\ i - Len(toDevice) \in 1 .. Len(g)
                   /\ u[i] = g[i - Len(toDevice)]
        BY <1>6, <1>7, Appended
    <2>2. toDevice' = u
        BY <1>7
    <2> HIDE DEF u
    <2> QED BY <1>6, <2>1, <2>2
<1>9. \A j \in 1 .. k : j \in 1 .. Len(f) /\ g[j] = Piece(ch, cmd, w, j)
    BY <1>5, <1>4, <1>6
<1>10. \A i \in 1 .. Len(toDevice') :
            \/ i \in 1 .. Len(toDevice) /\ toDevice'[i] = toDevice[i]
            \/ /\ i > Len(toDevice) /\ i - Len(toDevice) \in 1 .. Len(f)
               /\ toDevice'[i] = Piece(ch, cmd, w, i - Len(toDevice))
    BY <1>8, <1>9
<1>11. \A j \in 1 .. Len(f) : HostReport(Piece(ch, cmd, w, j))
    <2> TAKE j \in 1 .. Len(f)
    <2>1. j \in Nat \ {0} /\ j <= FragmentCount(Len(w))
        BY <1>4
    <2> QED BY <2>1, HostPieces
<1>12. HostShape'
    <2>1. \A i \in 1 .. Len(toDevice') : HostReport(toDevice'[i])
        BY <1>10, <1>11 DEF HostShape
    <2> QED BY <1>8, <2>1 DEF HostShape
<1> QED BY <1>2, <1>4, <1>7, <1>8, <1>10, <1>12, LenProperties DEF f

DeviceMessage(cmd, w) ==
    /\ w \in Seq(DeviceUnits)
    /\ \/ cmd = "INIT" /\ Len(w) <= 1 /\ (Len(w) = 1 => w[1] \in ReplyUnits)
       \/ cmd = "KEEPALIVE" /\ Len(w) = 1
       \/ cmd = "ERROR" /\ Len(w) = 1
       \/ cmd = "CBOR" /\ Len(w) > 0

LEMMA DevicePieces ==
    ASSUME NEW ch \in Channels \cup {BroadcastCid}, NEW cmd, NEW w, DeviceMessage(cmd, w),
           NEW i \in Nat \ {0}, i <= FragmentCount(Len(w))
    PROVE  /\ DeviceReport(Piece(ch, cmd, w, i))
           /\ Piece(ch, cmd, w, i).command = "INIT" => cmd = "INIT" /\ i = 1
           /\ cmd = "INIT" => Piece(ch, cmd, w, i).data = w
           /\ cmd = "KEEPALIVE" => Rank(Piece(ch, cmd, w, i)) = 0
                                   /\ Piece(ch, cmd, w, i).command = "KEEPALIVE"
           /\ cmd \in {"ERROR", "CBOR"} => Rank(Piece(ch, cmd, w, i)) = i
<1> DEFINE r == Piece(ch, cmd, w, i)
           bytes == SubSeq(w, 1, Smaller(Len(w), InitDataSize))
<1>1. /\ r.channel = ch
      /\ i = 1 => r.init /\ r.command = cmd /\ r.size = Len(w) /\ r.data = bytes
      /\ i # 1 => ~r.init /\ r.command = "NONE" /\ r.sequence = i - 2
    BY PieceFields
<1>2. Len(w) <= 1 => bytes = w /\ FragmentCount(Len(w)) = 1
    BY SinglePiece DEF DeviceMessage
<1>3. w \in Seq(DeviceUnits) /\ Len(w) \in Nat
    BY LenProperties DEF DeviceMessage
<1> HIDE DEF r, bytes
<1>4. CASE cmd \in {"INIT", "KEEPALIVE"}
    <2>1. Len(w) <= 1
        <3>1. Len(w) <= 1 \/ Len(w) = 1
            BY <1>4 DEF DeviceMessage
        <3> DEFINE n == Len(w)
        <3>2. n \in Nat /\ (n <= 1 \/ n = 1)
            BY <1>3, <3>1
        <3> HIDE DEF n
        <3>3. n <= 1
            BY <3>2
        <3> QED BY <3>3 DEF n
    <2>2. i = 1
        BY <1>2, <2>1
    <2>3. r.init /\ r.command = cmd /\ r.size = Len(w) /\ r.data = w
        BY <1>1, <1>2, <2>1, <2>2
    <2>4. cmd = "INIT" => (Len(w) = 1 => w[1] \in ReplyUnits)
        BY DEF DeviceMessage
    <2>5. cmd = "KEEPALIVE" => Len(w) = 1
        BY DEF DeviceMessage
    <2>6. DeviceReport(r)
        BY <1>1, <1>3, <1>4, <2>1, <2>3, <2>4, <2>5 DEF DeviceReport
    <2> QED BY <1>4, <2>2, <2>3, <2>6 DEF r, Rank
<1>5. CASE cmd \in {"ERROR", "CBOR"}
    <2>1. r.command \notin {"INIT", "KEEPALIVE"} /\ (~r.init => r.command = "NONE")
        BY <1>1, <1>5
    <2>2. DeviceReport(r)
        BY <1>1, <2>1 DEF DeviceReport
    <2>3. Rank(r) = i
        <3>1. CASE i = 1
            BY <1>1, <2>1, <3>1 DEF Rank
        <3>2. CASE i # 1
            <4>1. ~r.init /\ r.sequence = i - 2
                BY <1>1, <3>2
            <4>2. Rank(r) = r.sequence + 2
                BY <2>1, <4>1 DEF Rank
            <4> QED BY <4>1, <4>2
        <3> QED BY <3>1, <3>2
    <2> QED BY <1>5, <2>1, <2>2, <2>3 DEF r
<1> QED BY <1>4, <1>5 DEF DeviceMessage

(* The reports of a message follow what was under way.                     *)
Adds(ch, cmd, w) ==
    /\ Len(fromDevice) \in Nat /\ Len(fromDevice') \in Nat
    /\ Len(fromDevice) <= Len(fromDevice')
    /\ \A i \in 1 .. Len(fromDevice') :
          \/ i \in 1 .. Len(fromDevice) /\ fromDevice'[i] = fromDevice[i]
          \/ /\ i > Len(fromDevice)
             /\ i - Len(fromDevice) \in 1 .. FragmentCount(Len(w))
             /\ fromDevice'[i] = Piece(ch, cmd, w, i - Len(fromDevice))

LEMMA SendAdds ==
    ASSUME DeviceShape, NEW ch \in Channels \cup {BroadcastCid}, NEW cmd, NEW w,
           DeviceMessage(cmd, w), Send(ch, cmd, w)
    PROVE  DeviceShape' /\ Adds(ch, cmd, w)
<1> DEFINE f == Fragment(ch, cmd, w)
           u == fromDevice \o f
<1>1. fromDevice' = u
    BY DEF Send
<1>2. w \in Seq(DeviceUnits) /\ ch \in Nat /\ cmd \in Commands
    BY SomeChannels DEF DeviceMessage, ChannelsAre, Commands
<1>3. /\ f \in Seq(ReportsOf(DeviceUnits))
      /\ Len(f) = FragmentCount(Len(w)) /\ Len(f) \in Nat \ {0}
      /\ \A i \in 1 .. Len(f) : i \in Nat \ {0} /\ f[i] = Piece(ch, cmd, w, i)
    BY <1>2, Fragments
<1> HIDE DEF f
<1>4. fromDevice \in Seq(ReportsOf(DeviceUnits)) /\ Len(fromDevice) \in Nat
    BY LenProperties DEF DeviceShape
<1>5. /\ u \in Seq(ReportsOf(DeviceUnits)) /\ Len(u) = Len(fromDevice) + Len(f)
      /\ \A i \in 1 .. Len(u) :
            \/ i \in 1 .. Len(fromDevice) /\ u[i] = fromDevice[i]
            \/ /\ i > Len(fromDevice) /\ i - Len(fromDevice) \in 1 .. Len(f)
               /\ u[i] = f[i - Len(fromDevice)]
    <2> HIDE DEF u
    <2>1. u \in Seq(ReportsOf(DeviceUnits)) /\ Len(u) = Len(fromDevice) + Len(f)
        BY <1>3, <1>4, Appended DEF u
    <2>2. \A i \in 1 .. Len(u) :
             \/ i \in 1 .. Len(fromDevice) /\ u[i] = fromDevice[i]
             \/ /\ i > Len(fromDevice) /\ i - Len(fromDevice) \in 1 .. Len(f)
                /\ u[i] = f[i - Len(fromDevice)]
        BY <1>3, <1>4, Appended DEF u
    <2> QED BY <2>1, <2>2
<1> HIDE DEF u
<1>6. Adds(ch, cmd, w)
    BY <1>1, <1>3, <1>4, <1>5 DEF Adds
<1>7. \A j \in 1 .. Len(f) : DeviceReport(Piece(ch, cmd, w, j))
    <2> TAKE j \in 1 .. Len(f)
    <2>1. j \in Nat \ {0} /\ j <= FragmentCount(Len(w))
        BY <1>3
    <2> QED BY <2>1, DevicePieces
<1>8. \A i \in 1 .. Len(u) : DeviceReport(u[i])
    BY <1>3, <1>5, <1>7 DEF DeviceShape
<1>9. DeviceShape'
    BY <1>1, <1>5, <1>8 DEF DeviceShape
<1> QED BY <1>6, <1>9

LEMMA OneByte ==
    ASSUME NEW S, NEW u \in S
    PROVE  << u >> \in Seq(S) /\ Len(<< u >>) = 1 /\ << u >>[1] = u
OBVIOUS

LEMMA Messages ==
    /\ \A nonce \in Nonces, c \in Channels, fault \in InitFaults :
          DeviceMessage("INIT", InitReply(nonce, c, fault))
          /\ (Len(InitReply(nonce, c, fault)) = 1 =>
                 /\ InitReply(nonce, c, fault)[1].nonce = nonce
                 /\ InitReply(nonce, c, fault)[1].channel \in {c, NoChannel})
    /\ \A u \in ErrorUnits : DeviceMessage("ERROR", << u >>)
    /\ \A u \in StatusUnits : DeviceMessage("KEEPALIVE", << u >>)
    /\ \A q \in Requests, n \in AnswerSizes \cup {1} :
          DeviceMessage("CBOR", Answer(q, n)) /\ Len(Answer(q, n)) = n /\ n \in Nat \ {0}
    /\ \A q \in Requests, n \in Nat \ {0} :
          /\ RequestData(q, n) \in Seq(HostUnits) /\ Len(RequestData(q, n)) = n
          /\ RequestData(q, n)[1] \in RequestUnits /\ RequestData(q, n)[1].request = q
    /\ \A nonce \in Nonces :
          << [kind |-> "nonce", nonce |-> nonce] >> \in Seq(HostUnits)
<1>1. ASSUME NEW nonce \in Nonces, NEW c \in Channels, NEW fault \in InitFaults
      PROVE  DeviceMessage("INIT", InitReply(nonce, c, fault))
             /\ (Len(InitReply(nonce, c, fault)) = 1 =>
                 /\ InitReply(nonce, c, fault)[1].nonce = nonce
                 /\ InitReply(nonce, c, fault)[1].channel \in {c, NoChannel})
    <2> DEFINE u == [kind |-> "reply", nonce |-> nonce,
                     channel |-> IF fault = "CHANNEL" THEN NoChannel ELSE c,
                     version |-> IF fault = "VERSION" THEN 0 ELSE 2,
                     cbor |-> fault # "NO_CBOR"]
               w == InitReply(nonce, c, fault)
    <2>1. u \in ReplyUnits /\ u.nonce = nonce /\ u.channel \in {c, NoChannel}
        BY DEF ReplyUnits
    <2>2. w = IF fault = "SHORT" THEN << >> ELSE << u >>
        BY DEF InitReply
    <2> HIDE DEF u
    <2>3. u \in DeviceUnits
        BY <2>1 DEF DeviceUnits
    <2>4. << u >> \in Seq(DeviceUnits) /\ Len(<< u >>) = 1 /\ << u >>[1] = u
        BY <2>3, OneByte
    <2>5. << >> \in Seq(DeviceUnits) /\ Len(<< >>) = 0
        BY EmptySeq
    <2> HIDE DEF w
    <2>6. CASE fault = "SHORT"
        BY <2>2, <2>5, <2>6 DEF DeviceMessage, w
    <2>7. CASE fault # "SHORT"
        <3>1. w = << u >>
            BY <2>2, <2>7
        <3>2. w \in Seq(DeviceUnits) /\ Len(w) = 1 /\ w[1] = u
            BY <2>4, <3>1
        <3> QED BY <2>1, <3>2 DEF DeviceMessage, w
    <2> QED BY <2>6, <2>7
<1>2. ASSUME NEW u \in ErrorUnits PROVE DeviceMessage("ERROR", << u >>)
    BY OneByte DEF DeviceMessage, DeviceUnits
<1>3. ASSUME NEW u \in StatusUnits PROVE DeviceMessage("KEEPALIVE", << u >>)
    BY OneByte DEF DeviceMessage, DeviceUnits
<1>4. ASSUME NEW q \in Requests, NEW n \in AnswerSizes \cup {1}
      PROVE  DeviceMessage("CBOR", Answer(q, n)) /\ Len(Answer(q, n)) = n /\ n \in Nat \ {0}
    <2>1. n \in Nat \ {0}
        BY TransactionAssumption
    <2>2. \A i \in 1 .. n : [kind |-> "answer", request |-> q, index |-> i, of |-> n] \in DeviceUnits
        BY <2>1 DEF DeviceUnits, AnswerUnits
    <2>3. Answer(q, n) \in Seq(DeviceUnits) /\ Len(Answer(q, n)) = n
        BY <2>1, <2>2 DEF Answer
    <2> QED BY <2>1, <2>3 DEF DeviceMessage
<1>5. ASSUME NEW q \in Requests, NEW n \in Nat \ {0}
      PROVE  /\ RequestData(q, n) \in Seq(HostUnits) /\ Len(RequestData(q, n)) = n
             /\ RequestData(q, n)[1] \in RequestUnits /\ RequestData(q, n)[1].request = q
    <2> DEFINE e(i) == [kind |-> "request", request |-> q, index |-> i]
    <2>1. \A i \in 1 .. n : e(i) \in RequestUnits /\ e(i).request = q
        BY DEF RequestUnits
    <2>2. RequestData(q, n) = [i \in 1 .. n |-> e(i)] /\ 1 \in 1 .. n
        BY DEF RequestData
    <2> HIDE DEF e
    <2>3. \A i \in 1 .. n : e(i) \in HostUnits
        BY <2>1 DEF HostUnits
    <2>4. RequestData(q, n) \in Seq(HostUnits) /\ Len(RequestData(q, n)) = n
        BY <2>2, <2>3
    <2>5. RequestData(q, n)[1] = e(1)
        BY <2>2
    <2> QED BY <2>1, <2>2, <2>4, <2>5
<1>6. ASSUME NEW nonce \in Nonces
      PROVE  << [kind |-> "nonce", nonce |-> nonce] >> \in Seq(HostUnits)
    BY OneByte DEF HostUnits, NonceUnits
<1> QED BY <1>1, <1>2, <1>3, <1>4, <1>5, <1>6

IsAuth(a) == a \in [assembler : {a.assembler}, work : {a.work}]

LEMMA AuthFields ==
    /\ \A x, w : IsAuth([assembler |-> x, work |-> w])
    /\ \A A, W, x : \A a \in [assembler : A, work : W] :
          IsAuth([a EXCEPT !.assembler = x]) /\ [a EXCEPT !.assembler = x].assembler = x
             /\ [a EXCEPT !.assembler = x].work = a.work
    /\ \A A, W, a : IsAuth(a) /\ a.assembler \in A /\ a.work \in W =>
          a \in [assembler : A, work : W]
BY DEF IsAuth

(* What a report makes the authenticator do.                               *)

Assembles(r) ==
    /\ auth'.assembler \in Assemblers /\ RequestAssembler(auth'.assembler)
    /\ auth'.assembler.active =>
          Begins(r, auth.assembler, auth'.assembler.channel, auth'.assembler.data[1])
    /\ auth'.work = auth.work /\ fromDevice' = fromDevice

Allocates(r) ==
    /\ r.init /\ r.command = "INIT" /\ auth'.assembler = EmptyAssembler
    /\ auth'.work = IF auth.work.channel = r.channel THEN NoWork ELSE auth.work
    /\ \E fault \in InitFaults, c \in Channels :
          /\ r.channel = BroadcastCid => c \notin ChannelsUnderWay
          /\ r.channel # BroadcastCid => c = r.channel
          /\ Send(r.channel, "INIT", InitReply(r.data[1].nonce, c, fault))

Takes(r) ==
    \E channel \in Channels, unit \in RequestUnits :
        /\ Begins(r, auth.assembler, channel, unit)
        /\ auth'.assembler = EmptyAssembler
        /\ auth.work = NoWork /\ fromDevice' = fromDevice
        /\ auth'.work = [channel |-> channel, request |-> unit.request]

Declines(r) ==
    \E channel \in Channels, unit \in RequestUnits :
        /\ Begins(r, auth.assembler, channel, unit)
        /\ auth'.assembler = EmptyAssembler
        /\ auth.work # NoWork /\ auth'.work = auth.work
        /\ Send(channel, "ERROR", << [kind |-> "error", code |-> "BUSY"] >>)

Stops(r) ==
    /\ r.init /\ r.command = "CANCEL" /\ auth'.assembler = EmptyAssembler
    /\ auth.work.channel = r.channel /\ auth'.work = NoWork
    /\ Send(r.channel, "CBOR", Answer(auth.work.request, 1))

Passes(r) ==
    /\ r.init /\ r.command = "CANCEL" /\ auth'.assembler = EmptyAssembler
    /\ auth'.work = auth.work /\ fromDevice' = fromDevice

LEMMA BeginsRequest ==
    ASSUME NEW r, HostReport(r), NEW a, RequestAssembler(a), NEW channel, NEW unit,
           Begins(r, a, channel, unit)
    PROVE  channel \in Channels /\ unit \in RequestUnits
BY DEF HostReport, RequestAssembler, Begins, CborInit

LEMMA ReadCases ==
    ASSUME Shape, Read
    PROVE  /\ toDevice # << >> /\ toDevice' = Tail(toDevice)
           /\ client' = client /\ current' = current /\ outcome'.event # "RESPONSE"
           /\ IsAuth(auth')
           /\ HostReport(Head(toDevice)) /\ Head(toDevice) \in ReportsOf(HostUnits)
           /\ \/ Assembles(Head(toDevice)) \/ Allocates(Head(toDevice))
              \/ Takes(Head(toDevice)) \/ Declines(Head(toDevice))
              \/ Stops(Head(toDevice)) \/ Passes(Head(toDevice))
<1> DEFINE r == Head(toDevice)
           a == auth.assembler
           fed == Feed(IF r.init THEN EmptyAssembler ELSE a, r)
<1>1. /\ toDevice # << >> /\ toDevice' = Tail(toDevice)
      /\ client' = client /\ current' = current /\ outcome' = Quiet
      /\ \/ /\ ~fed.complete
            /\ auth' = [auth EXCEPT !.assembler = fed.assembler]
            /\ fromDevice' = fromDevice
         \/ /\ fed.complete
            /\ \/ fed.message.command = "INIT" /\ ReadInit(fed.message)
               \/ fed.message.command = "CBOR" /\ ReadCbor(fed.message)
               \/ fed.message.command = "CANCEL" /\ ReadCancel(fed.message)
    BY DEF Read
<1>2. /\ toDevice \in Seq(ReportsOf(HostUnits))
      /\ \A i \in 1 .. Len(toDevice) : HostReport(toDevice[i])
    BY DEF Shape, HostShape
<1>3. HostReport(r) /\ r \in ReportsOf(HostUnits)
    <2>1. r = toDevice[1] /\ 1 \in 1 .. Len(toDevice)
        BY <1>1, <1>2, Taken
    <2> QED BY <1>2, <2>1, ElementOfSeq
<1>4. a \in Assemblers /\ RequestAssembler(a) /\ auth \in [assembler : Assemblers, work : Works]
    BY DEF Shape, AuthShape
<1> HIDE DEF r
<1>5. Fits(fed, r, a)
    BY <1>3, <1>4, ReadFits
<1> HIDE DEF fed
<1>6. outcome'.event # "RESPONSE"
    BY <1>1 DEF Quiet
<1>7. CASE ~fed.complete
    <2>1. auth' = [auth EXCEPT !.assembler = fed.assembler] /\ fromDevice' = fromDevice
        BY <1>1, <1>7
    <2>2. /\ IsAuth(auth') /\ auth'.assembler = fed.assembler
          /\ auth'.work = auth.work
        BY <1>4, <2>1, AuthFields
    <2>3. Assembles(r)
        BY <1>5, <1>7, <2>1, <2>2 DEF Assembles, Fits
    <2> QED BY <1>1, <1>3, <1>6, <2>2, <2>3 DEF r
<1>8. CASE fed.complete /\ fed.message.command = "INIT"
    <2> DEFINE m == fed.message
    <2>1. /\ r.init /\ r.command = "INIT" /\ m.channel = r.channel
          /\ m.data[1] = r.data[1]
        BY <1>5, <1>8 DEF Fits
    <2>2. ReadInit(m)
        BY <1>1, <1>8
    <2> HIDE DEF m
    <2>3. /\ auth' = [assembler |-> EmptyAssembler,
                      work |-> IF auth.work.channel = r.channel THEN NoWork
                               ELSE auth.work]
          /\ \E fault \in InitFaults :
               IF r.channel = BroadcastCid
                 THEN \E c \in Channels \ ChannelsUnderWay :
                          Send(BroadcastCid, "INIT", InitReply(r.data[1].nonce, c, fault))
                 ELSE Send(r.channel, "INIT", InitReply(r.data[1].nonce, r.channel, fault))
        BY <2>1, <2>2 DEF ReadInit
    <2>4. r.channel # BroadcastCid => r.channel \in Channels
        BY <1>3 DEF HostReport
    <2>5. \E fault \in InitFaults, c \in Channels :
             /\ r.channel = BroadcastCid => c \notin ChannelsUnderWay
             /\ r.channel # BroadcastCid => c = r.channel
             /\ Send(r.channel, "INIT", InitReply(r.data[1].nonce, c, fault))
        BY <2>3, <2>4
    <2>6. Allocates(r) /\ IsAuth(auth')
        BY <2>1, <2>3, <2>5 DEF Allocates, IsAuth
    <2> QED BY <1>1, <1>3, <1>6, <2>6 DEF r
<1>9. CASE fed.complete /\ fed.message.command = "CBOR"
    <2> DEFINE m == fed.message
               unit == m.data[1]
    <2>1. Begins(r, a, m.channel, unit)
        BY <1>5, <1>9 DEF Fits
    <2>2. m.channel \in Channels /\ unit \in RequestUnits
        BY <1>3, <1>4, <2>1, BeginsRequest
    <2>3. ReadCbor(m)
        BY <1>1, <1>9
    <2> HIDE DEF m
    <2>4. CASE auth.work = NoWork
        <3>1. /\ auth' = [assembler |-> EmptyAssembler,
                          work |-> [channel |-> m.channel, request |-> unit.request]]
              /\ fromDevice' = fromDevice
            BY <2>3, <2>4 DEF ReadCbor
        <3> HIDE DEF unit
        <3>2. Takes(r) /\ IsAuth(auth')
            BY <2>1, <2>2, <2>4, <3>1 DEF Takes, IsAuth
        <3> QED BY <1>1, <1>3, <1>6, <3>2 DEF r
    <2>5. CASE auth.work # NoWork
        <3>1. /\ auth' = [auth EXCEPT !.assembler = EmptyAssembler]
              /\ Send(m.channel, "ERROR", << [kind |-> "error", code |-> "BUSY"] >>)
            BY <2>3, <2>5 DEF ReadCbor
        <3>2. /\ IsAuth(auth') /\ auth'.work = auth.work
              /\ auth'.assembler = EmptyAssembler
            BY <1>4, <3>1, AuthFields
        <3> HIDE DEF unit
        <3>3. Declines(r)
            BY <2>1, <2>2, <2>5, <3>1, <3>2 DEF Declines
        <3> QED BY <1>1, <1>3, <1>6, <3>2, <3>3 DEF r
    <2> QED BY <2>4, <2>5
<1>10. CASE fed.complete /\ fed.message.command = "CANCEL"
    <2> DEFINE m == fed.message
    <2>1. r.init /\ r.command = "CANCEL" /\ m.channel = r.channel
        BY <1>5, <1>10 DEF Fits
    <2>2. ReadCancel(m)
        BY <1>1, <1>10
    <2> HIDE DEF m
    <2>3. CASE auth.work.channel = r.channel
        <3>1. /\ auth' = [assembler |-> EmptyAssembler, work |-> NoWork]
              /\ Send(r.channel, "CBOR", Answer(auth.work.request, 1))
            BY <2>1, <2>2, <2>3 DEF ReadCancel
        <3>2. Stops(r) /\ IsAuth(auth')
            BY <2>1, <2>3, <3>1 DEF Stops, IsAuth
        <3> QED BY <1>1, <1>3, <1>6, <3>2 DEF r
    <2>4. CASE auth.work.channel # r.channel
        <3>1. /\ auth' = [auth EXCEPT !.assembler = EmptyAssembler]
              /\ fromDevice' = fromDevice
            BY <2>1, <2>2, <2>4 DEF ReadCancel
        <3>2. /\ IsAuth(auth') /\ auth'.work = auth.work
              /\ auth'.assembler = EmptyAssembler
            BY <1>4, <3>1, AuthFields
        <3>3. Passes(r)
            BY <2>1, <3>1, <3>2 DEF Passes
        <3> QED BY <1>1, <1>3, <1>6, <3>2, <3>3 DEF r
    <2> QED BY <2>3, <2>4
<1> QED BY <1>1, <1>7, <1>8, <1>9, <1>10

------------------------------------------------------------------------------
(* Steps that end the transaction, and steps that only take time           *)

LEMMA DisconnectKeeps ==
    ASSUME client' = DisconnectedClient, HostShape', DeviceShape', AuthShape'
    PROVE  TransactionInv'
<1>1. /\ client'.state = "DISCONNECTED" /\ client'.channel = NoChannel
      /\ client'.max_message_size = DefaultMaxMessage
      /\ client'.assembler = EmptyAssembler
    BY DEF DisconnectedClient
<1>2. ClientShape'
    BY <1>1, NewClient, ClientAssumption, EmptyIsAssembler DEF ClientShape
<1> QED BY <1>1, <1>2
        DEF TransactionInv, Shape, Allocating, OneRequest, Talking, CurrentRequest, Waiting

(* The client's channel, state and assembly, the requests and the reports  *)
(* it submitted stay; the first report on the way to it may be gone.       *)
Passing(s) ==
    /\ Len(fromDevice') \in Nat /\ Len(fromDevice) \in Nat
    /\ \A i \in 1 .. Len(fromDevice') : /\ i + s \in 1 .. Len(fromDevice)
                                        /\ fromDevice'[i] = fromDevice[i + s]
    /\ Len(fromDevice') + s = Len(fromDevice)
    /\ toDevice' = toDevice /\ auth' = auth /\ current' = current
    /\ client'.state = client.state /\ client'.channel = client.channel
    /\ client'.nonce = client.nonce
    /\ \/ client'.assembler = client.assembler
       \/ ~client'.assembler.active /\ ~client.assembler.active
       \/ client.state = "ALLOCATING"

LEMMA TailPasses ==
    ASSUME DeviceShape, fromDevice # << >>, fromDevice' = Tail(fromDevice)
    PROVE  /\ DeviceShape'
           /\ Len(fromDevice') \in Nat /\ Len(fromDevice) \in Nat
           /\ \A i \in 1 .. Len(fromDevice') : /\ i + 1 \in 1 .. Len(fromDevice)
                                               /\ fromDevice'[i] = fromDevice[i + 1]
           /\ Len(fromDevice') + 1 = Len(fromDevice)
           /\ Head(fromDevice) = fromDevice[1] /\ 1 \in 1 .. Len(fromDevice)
<1>1. fromDevice \in Seq(ReportsOf(DeviceUnits))
    BY DEF DeviceShape
<1> DEFINE t == Tail(fromDevice)
<1>2. /\ t \in Seq(ReportsOf(DeviceUnits)) /\ Len(fromDevice) \in Nat
      /\ Len(t) = Len(fromDevice) - 1 /\ Len(fromDevice) > 0
      /\ Head(fromDevice) = fromDevice[1]
      /\ \A i \in 1 .. Len(t) : i + 1 \in 2 .. Len(fromDevice) /\ t[i] = fromDevice[i + 1]
    BY <1>1, Taken
<1> HIDE DEF t
<1>3. fromDevice' = t
    BY DEF t
<1>4. /\ Len(t) \in Nat /\ Len(t) + 1 = Len(fromDevice)
      /\ \A i \in 1 .. Len(t) : i + 1 \in 1 .. Len(fromDevice) /\ t[i] = fromDevice[i + 1]
    BY <1>2
<1>5. DeviceShape'
    BY <1>2, <1>3, <1>4 DEF DeviceShape
<1> QED BY <1>2, <1>3, <1>4, <1>5

LEMMA PassingKeeps ==
    ASSUME TransactionInv, NEW s \in {0, 1}, Passing(s), DeviceShape', ClientShape'
    PROVE  TransactionInv'
<1>1. Shape'
    BY DEF Shape, Passing, TransactionInv, HostShape, AuthShape
<1>2. \A i \in 1 .. Len(fromDevice') :
         /\ i + s \in 1 .. Len(fromDevice) /\ fromDevice'[i] = fromDevice[i + s]
         /\ \A j \in i + 1 .. Len(fromDevice') : /\ j \in 1 .. Len(fromDevice')
                                                 /\ j + s \in i + s + 1 .. Len(fromDevice)
                                                 /\ fromDevice'[j] = fromDevice[j + s]
    BY DEF Passing
<1>3. Allocating'
    <2> SUFFICES ASSUME client'.state = "ALLOCATING" PROVE Allocating'
        BY DEF Allocating
    <2>1. client.state = "ALLOCATING" /\ client'.nonce = client.nonce
          /\ toDevice' = toDevice /\ auth' = auth
        BY DEF Passing
    <2>2. ASSUME NEW i \in 1 .. Len(toDevice'), Asks(toDevice'[i], client'.nonce)
          PROVE  /\ i = Len(toDevice')
                 /\ \A j \in 1 .. Len(fromDevice') : ~Replies(fromDevice'[j], client'.nonce)
        BY <1>2, <2>1, <2>2 DEF TransactionInv, Allocating
    <2>3. ASSUME NEW i \in 1 .. Len(fromDevice'), Replies(fromDevice'[i], client'.nonce)
          PROVE  /\ toDevice' = << >> /\ ~auth'.assembler.active
                 /\ auth'.work.channel # fromDevice'[i].data[1].channel
                       \/ fromDevice'[i].data[1].channel = NoChannel
                 /\ \A j \in i + 1 .. Len(fromDevice') :
                       fromDevice'[j].channel # fromDevice'[i].data[1].channel
        <3> DEFINE k == i + s
        <3>1. /\ k \in 1 .. Len(fromDevice) /\ fromDevice'[i] = fromDevice[k]
              /\ \A j \in i + 1 .. Len(fromDevice') :
                    j + s \in k + 1 .. Len(fromDevice) /\ fromDevice'[j] = fromDevice[j + s]
            BY <1>2
        <3> HIDE DEF k
        <3>2. /\ toDevice = << >> /\ ~auth.assembler.active
              /\ auth.work.channel # fromDevice[k].data[1].channel
                    \/ fromDevice[k].data[1].channel = NoChannel
              /\ \A j \in k + 1 .. Len(fromDevice) :
                    fromDevice[j].channel # fromDevice[k].data[1].channel
            BY <2>1, <2>3, <3>1 DEF TransactionInv, Allocating
        <3> QED BY <2>1, <3>1, <3>2
    <2> QED BY <2>2, <2>3 DEF Allocating
<1>4. /\ client.state # "ALLOCATING" /\ Silent => Silent'
      /\ Asking' = Asking /\ Talking' = Talking
    BY <1>2 DEF Silent, Asking, Talking, Passing
<1>5. OneRequest'
    BY <1>4 DEF TransactionInv, OneRequest, Passing
<1>6. CurrentRequest'
    BY DEF TransactionInv, CurrentRequest, Passing
<1>7. Answers' = Answers
    BY DEF Answers, Passing
<1>8. ASSUME client.state # "ALLOCATING", NEW m, NEW k, Answering(m, k)
      PROVE  Answering(m, k)'
    <2>1. /\ client'.channel = client.channel
          /\ k = 0 => ~client'.assembler.active
          /\ k > 0 => /\ Holding(client'.assembler, client'.channel, m.command, m.data, k)
                      /\ Got(m.data, k) < Len(m.data)
        BY <1>8 DEF Answering, Passing, Holding
    <2>2. ASSUME NEW i \in 1 .. Len(fromDevice'), fromDevice'[i].channel = client.channel
          PROVE  /\ Rank(fromDevice'[i]) = 0 => k = 0
                 /\ Rank(fromDevice'[i]) # 0 =>
                       /\ Rank(fromDevice'[i]) \in k + 1 .. FragmentCount(Len(m.data))
                       /\ fromDevice'[i] = Piece(client.channel, m.command, m.data,
                                                 Rank(fromDevice'[i]))
                 /\ \A j \in i + 1 .. Len(fromDevice') :
                       fromDevice'[j].channel = client.channel =>
                           \/ Rank(fromDevice'[i]) = 0
                           \/ Rank(fromDevice'[i]) < Rank(fromDevice'[j])
        <3> DEFINE n == i + s
        <3>1. /\ n \in 1 .. Len(fromDevice) /\ fromDevice'[i] = fromDevice[n]
              /\ \A j \in i + 1 .. Len(fromDevice') :
                    j + s \in n + 1 .. Len(fromDevice) /\ fromDevice'[j] = fromDevice[j + s]
            BY <1>2
        <3> HIDE DEF n
        <3>2. /\ Rank(fromDevice[n]) = 0 => k = 0
              /\ Rank(fromDevice[n]) # 0 =>
                    /\ Rank(fromDevice[n]) \in k + 1 .. FragmentCount(Len(m.data))
                    /\ fromDevice[n] = Piece(client.channel, m.command, m.data,
                                             Rank(fromDevice[n]))
              /\ \A j \in n + 1 .. Len(fromDevice) :
                    fromDevice[j].channel = client.channel =>
                        Rank(fromDevice[n]) = 0 \/ Rank(fromDevice[n]) < Rank(fromDevice[j])
            BY <1>8, <2>2, <3>1 DEF Answering
        <3> QED BY <3>1, <3>2
    <2> QED BY <2>1, <2>2 DEF Answering
<1>9. Waiting'
    <2> SUFFICES ASSUME client'.state \in {"WAITING", "CANCELING"} PROVE Waiting'
        BY DEF Waiting
    <2>1. client.state \in {"WAITING", "CANCELING"} /\ auth' = auth
          /\ client'.channel = client.channel
        BY DEF Passing
    <2>2. CASE Asking /\ Silent
        BY <1>4, <2>1, <2>2 DEF Waiting
    <2>3. CASE /\ ~Asking /\ auth.work.channel = client.channel
               /\ ~client.assembler.active
               /\ \A i \in 1 .. Len(fromDevice) :
                     fromDevice[i].channel = client.channel =>
                         fromDevice[i].command = "KEEPALIVE"
        <3>1. ~client'.assembler.active
            BY <2>3 DEF Passing
        <3> QED BY <1>2, <1>4, <2>1, <2>3, <3>1 DEF Waiting
    <2>4. CASE /\ ~Asking /\ auth.work.channel # client.channel
               /\ \E m \in Answers : \E k \in 0 .. FragmentCount(Len(m.data)) :
                     Answering(m, k)
        <3>1. PICK m \in Answers : \E k \in 0 .. FragmentCount(Len(m.data)) : Answering(m, k)
            BY <2>4
        <3>2. PICK k \in 0 .. FragmentCount(Len(m.data)) : Answering(m, k)
            BY <3>1
        <3>3. Answering(m, k)' /\ m \in Answers'
            BY <1>7, <1>8, <2>1, <3>2
        <3> QED BY <1>4, <2>1, <2>4, <3>3 DEF Waiting
    <2> QED BY <2>1, <2>2, <2>3, <2>4 DEF TransactionInv, Waiting
<1> QED BY <1>1, <1>3, <1>5, <1>6, <1>9 DEF TransactionInv

(* Nothing but what the caller sets, and the time left, has moved.         *)
LEMMA StillKeeps ==
    ASSUME TransactionInv, IsClient(client'),
           client'.state = client.state, client'.channel = client.channel,
           client'.nonce = client.nonce, client'.assembler = client.assembler,
           client'.max_message_size \in Nat,
           UNCHANGED << toDevice, fromDevice, auth, current >>
    PROVE  TransactionInv'
<1>1. Len(fromDevice) \in Nat
    BY LenProperties DEF TransactionInv, Shape, DeviceShape
<1>2. Passing(0)
    BY <1>1 DEF Passing
<1>3. DeviceShape' /\ ClientShape'
    BY DEF TransactionInv, Shape, DeviceShape, ClientShape
<1> QED BY <1>2, <1>3, PassingKeeps

LEMMA TickKeeps ==
    ASSUME TransactionInv, Tick \/ (\E limit \in Limits : SetMessageLimit(limit))
                                \/ UNCHANGED vars
    PROVE  TransactionInv'
<1>1. IsClient(client) /\ client.max_message_size \in Nat
    BY DEF TransactionInv, Shape, ClientShape
<1>2. /\ IsClient(client') /\ client'.max_message_size \in Nat
      /\ client'.state = client.state /\ client'.channel = client.channel
      /\ client'.nonce = client.nonce /\ client'.assembler = client.assembler
      /\ UNCHANGED << toDevice, fromDevice, auth, current >>
    <2>1. CASE Tick
        BY <1>1, <2>1 DEF Tick, IsClient, ClientFields
    <2>2. ASSUME NEW limit \in Limits, SetMessageLimit(limit)
          PROVE  /\ client' = [client EXCEPT !.max_message_size = limit] /\ limit \in Nat
                 /\ UNCHANGED << toDevice, fromDevice, auth, current >>
        BY <2>2, MessageLimit DEF SetMessageLimit, CanSetMessageLimit, Apply, Did
    <2>3. CASE \E limit \in Limits : SetMessageLimit(limit)
        BY <1>1, <2>2, <2>3 DEF IsClient, ClientFields
    <2>4. CASE UNCHANGED vars
        BY <1>1, <2>4 DEF vars
    <2> QED BY <2>1, <2>3, <2>4
<1> QED BY <1>2, StillKeeps

LEMMA LoseKeeps ==
    ASSUME TransactionInv, Lose
    PROVE  TransactionInv'
<1>1. /\ fromDevice # << >> /\ fromDevice' = Tail(fromDevice)
      /\ UNCHANGED << client, toDevice, auth, current >>
    BY DEF Lose
<1>2. Passing(1) /\ DeviceShape'
    BY <1>1, TailPasses DEF TransactionInv, Shape, Passing
<1>3. ClientShape'
    BY <1>1 DEF TransactionInv, Shape, ClientShape
<1> QED BY <1>2, <1>3, PassingKeeps

LEMMA PollKeeps ==
    ASSUME TransactionInv, PollTimeout
    PROVE  TransactionInv'
<1>1. /\ client' = DisconnectedClient
      /\ UNCHANGED << toDevice, fromDevice, auth, current >>
    BY DEF PollTimeout, Apply, ClientPoll, Did
<1>2. HostShape' /\ DeviceShape' /\ AuthShape'
    BY <1>1 DEF TransactionInv, Shape, HostShape, DeviceShape, AuthShape
<1> QED BY <1>1, <1>2, DisconnectKeeps

------------------------------------------------------------------------------
(* The calls that submit a message                                         *)

LEMMA FreshNonce ==
    ASSUME Shape, NEW n, ~NonceUnderWay(n)
    PROVE  /\ \A i \in 1 .. Len(toDevice) : ~Asks(toDevice[i], n)
           /\ \A i \in 1 .. Len(fromDevice) : ~Replies(fromDevice[i], n)
<1>1. ASSUME NEW S, NEW s \in Seq(S), NEW i \in 1 .. Len(s)
      PROVE  s[i] \in ToSet(s)
    BY <1>1, LenProperties DEF ToSet
<1>2. /\ toDevice \in Seq(ReportsOf(HostUnits))
      /\ \A i \in 1 .. Len(toDevice) : HostReport(toDevice[i])
      /\ fromDevice \in Seq(ReportsOf(DeviceUnits))
      /\ \A i \in 1 .. Len(fromDevice) : DeviceReport(fromDevice[i])
    BY DEF Shape, HostShape, DeviceShape
<1>3. ASSUME NEW i \in 1 .. Len(toDevice), Asks(toDevice[i], n) PROVE FALSE
    <2> DEFINE r == toDevice[i]
    <2>1. r \in ReportsOf(HostUnits) /\ r \in ToSet(toDevice) /\ HostReport(r)
        BY <1>1, <1>2, ElementOfSeq
    <2>2. r.command = "INIT" /\ r.data[1].nonce = n
        BY <1>3 DEF Asks
    <2> HIDE DEF r
    <2>3. r.data \in Seq(HostUnits) /\ Len(r.data) = 1 /\ r.data[1] \in NonceUnits
        BY <2>1, <2>2 DEF HostReport, ReportsOf
    <2>4. r.data[1] \in ToSet(r.data)
        <3>1. 1 \in 1 .. Len(r.data)
            BY <2>3
        <3> QED BY <1>1, <2>3, <3>1
    <2>5. r.data[1] \in UnitsUnderWay
        BY <2>1, <2>4 DEF UnitsUnderWay, Reports
    <2>6. r.data[1].kind = "nonce"
        BY <2>3 DEF NonceUnits
    <2> QED BY <2>2, <2>5, <2>6 DEF NonceUnderWay
<1>4. ASSUME NEW i \in 1 .. Len(fromDevice), Replies(fromDevice[i], n) PROVE FALSE
    <2> DEFINE r == fromDevice[i]
    <2>1. r \in ReportsOf(DeviceUnits) /\ r \in ToSet(fromDevice) /\ DeviceReport(r)
        BY <1>1, <1>2, ElementOfSeq
    <2>2. r.command = "INIT" /\ Len(r.data) = 1 /\ r.data[1].nonce = n
        BY <1>4 DEF Replies
    <2> HIDE DEF r
    <2>3. r.data \in Seq(DeviceUnits) /\ r.data[1] \in ReplyUnits
        BY <2>1, <2>2 DEF DeviceReport, ReportsOf
    <2>4. r.data[1] \in ToSet(r.data)
        <3>1. 1 \in 1 .. Len(r.data)
            BY <2>2
        <3> QED BY <1>1, <2>3, <3>1
    <2>5. r.data[1] \in UnitsUnderWay
        BY <2>1, <2>4 DEF UnitsUnderWay, Reports
    <2>6. r.data[1].kind = "reply"
        BY <2>3 DEF ReplyUnits
    <2> QED BY <2>2, <2>5, <2>6 DEF NonceUnderWay
<1> QED BY <1>3, <1>4

LEMMA BegunIs ==
    ASSUME IsClient(client), NEW nonce, NEW timeout
    PROVE  /\ Remains(BegunCbor(client, timeout), client, "WAITING", EmptyAssembler)
           /\ Remains([client EXCEPT !.state = "CANCELING"], client, "CANCELING",
                      client.assembler)
           /\ LET c == BegunInit(client, nonce, timeout)
              IN  /\ IsClient(c) /\ c.state = "ALLOCATING" /\ c.channel = client.channel
                  /\ c.nonce = nonce /\ c.assembler = EmptyAssembler
                  /\ c.max_message_size = client.max_message_size
BY DEF IsClient, BegunInit, BegunCbor, Remains, ClientFields, ClientStates, BusyStates

LEMMA BeginInitKeeps ==
    ASSUME TransactionInv, NEW nonce \in Nonces, BeginInit(nonce)
    PROVE  TransactionInv' /\ outcome'.event # "RESPONSE"
<1> DEFINE ch == InitChannel(client)
           u == [kind |-> "nonce", nonce |-> nonce]
           w == << u >>
           f == Fragment(ch, "INIT", w)
<1>1. PICK k \in 0 .. Len(f) : Emit(f, BegunInit(client, nonce, TimeoutMax), k)
    BY DEF BeginInit, InitReports
<1>2. /\ ~NonceUnderWay(nonce)
      /\ UNCHANGED << fromDevice, auth >>
    BY DEF BeginInit
<1>3. /\ HostShape /\ DeviceShape /\ AuthShape /\ ClientShape /\ Shape
    BY DEF TransactionInv, Shape
<1>4. HostMessage(ch, "INIT", w) /\ Len(w) = 1 /\ w \in Seq(HostUnits) /\ w[1] = u
    <2>1. u \in NonceUnits /\ u \in HostUnits
        BY DEF NonceUnits, HostUnits
    <2> HIDE DEF u
    <2>2. w \in Seq(HostUnits) /\ Len(w) = 1 /\ w[1] = u
        BY <2>1, OneByte
    <2>3. ch \in Channels \cup {BroadcastCid}
        BY <1>3 DEF ClientShape, InitChannel
    <2> HIDE DEF ch, w
    <2> QED BY <2>1, <2>2, <2>3 DEF HostMessage
<1> HIDE DEF ch, w, u
<1>5. HostMessage(ch, "INIT", w)
    BY <1>4
<1>6. FragmentCount(Len(w)) = 1
    <2>1. Len(w) <= 1
        BY <1>4
    <2> QED BY <1>4, <2>1, SinglePiece
<1>7. /\ HostShape' /\ outcome'.event # "RESPONSE"
      /\ Len(f) = FragmentCount(Len(w)) /\ Len(f) \in Nat \ {0}
      /\ client' = IF k = Len(f) THEN BegunInit(client, nonce, TimeoutMax)
                   ELSE DisconnectedClient
      /\ Len(toDevice) \in Nat /\ Len(toDevice') = Len(toDevice) + k
      /\ \A i \in 1 .. Len(toDevice') :
            \/ i \in 1 .. Len(toDevice) /\ toDevice'[i] = toDevice[i]
            \/ /\ i > Len(toDevice) /\ i - Len(toDevice) \in 1 .. Len(f)
               /\ toDevice'[i] = Piece(ch, "INIT", w, i - Len(toDevice))
    BY <1>1, <1>3, <1>5, EmitAdds
<1> HIDE DEF f
<1>8. DeviceShape' /\ AuthShape'
    BY <1>2, <1>3 DEF DeviceShape, AuthShape
<1>9. CASE k # Len(f)
    BY <1>7, <1>8, <1>9, DisconnectKeeps
<1>10. CASE k = Len(f)
    <2>1. k = 1 /\ client' = BegunInit(client, nonce, TimeoutMax)
        BY <1>6, <1>7, <1>10
    <2>2. /\ IsClient(client') /\ client'.state = "ALLOCATING"
          /\ client'.channel = client.channel /\ client'.nonce = nonce
          /\ ~client'.assembler.active /\ DOMAIN client'.assembler = AssemblerFields
          /\ client'.max_message_size = client.max_message_size
        BY <1>3, <2>1, BegunIs, EmptyIsAssembler DEF ClientShape
    <2>3. ClientShape'
        BY <1>3, <2>2 DEF ClientShape
    <2>4. Allocating'
        <3>1. /\ \A i \in 1 .. Len(toDevice) : ~Asks(toDevice[i], nonce)
              /\ \A i \in 1 .. Len(fromDevice') : ~Replies(fromDevice'[i], nonce)
            BY <1>2, <1>3, FreshNonce
        <3>2. ASSUME NEW i \in 1 .. Len(toDevice'), Asks(toDevice'[i], nonce)
              PROVE  i = Len(toDevice')
            <4>1. i \notin 1 .. Len(toDevice)
                BY <1>7, <3>1, <3>2
            <4> QED BY <1>7, <2>1, <4>1
        <3> QED BY <2>2, <3>1, <3>2 DEF Allocating
    <2>5. OneRequest' /\ CurrentRequest' /\ Waiting'
        BY <2>2 DEF OneRequest, Talking, CurrentRequest, Waiting
    <2> QED BY <1>7, <1>8, <2>3, <2>4, <2>5 DEF TransactionInv, Shape
<1> QED BY <1>7, <1>9, <1>10

LEMMA BeginCborKeeps ==
    ASSUME TransactionInv, NEW q \in Requests, NEW n \in 1 .. MessageMax, BeginCbor(q, n)
    PROVE  TransactionInv' /\ outcome'.event # "RESPONSE"
<1> DEFINE ch == client.channel
           w == RequestData(q, n)
           f == Fragment(ch, "CBOR", w)
<1>1. PICK k \in 0 .. Len(f) : Emit(f, BegunCbor(client, TimeoutMax), k)
    BY DEF BeginCbor, CborReports
<1>2. /\ client.state = "IDLE" /\ ch # NoChannel /\ current' = q
      /\ UNCHANGED << fromDevice, auth >>
    BY DEF BeginCbor, CanBeginCbor
<1>3. /\ HostShape /\ DeviceShape /\ AuthShape /\ ClientShape
    BY DEF TransactionInv, Shape
<1>4. /\ w \in Seq(HostUnits) /\ Len(w) = n /\ n > 0
      /\ w[1] \in RequestUnits /\ w[1].request = q
    <2>1. n \in Nat \ {0}
        BY MessageLimit
    <2> HIDE DEF w
    <2>2. /\ RequestData(q, n) \in Seq(HostUnits) /\ Len(RequestData(q, n)) = n
          /\ RequestData(q, n)[1] \in RequestUnits /\ RequestData(q, n)[1].request = q
        BY <2>1, Messages
    <2> QED BY <2>1, <2>2 DEF w
<1> HIDE DEF w
<1>5. HostMessage(ch, "CBOR", w) /\ ch \in Channels
    BY <1>2, <1>3, <1>4 DEF HostMessage, ClientShape
<1>6. /\ HostShape' /\ outcome'.event # "RESPONSE"
      /\ Len(f) = FragmentCount(Len(w)) /\ Len(f) \in Nat \ {0}
      /\ client' = IF k = Len(f) THEN BegunCbor(client, TimeoutMax) ELSE DisconnectedClient
      /\ Len(toDevice) \in Nat /\ Len(toDevice') = Len(toDevice) + k
      /\ \A i \in 1 .. Len(toDevice') :
            \/ i \in 1 .. Len(toDevice) /\ toDevice'[i] = toDevice[i]
            \/ /\ i > Len(toDevice) /\ i - Len(toDevice) \in 1 .. Len(f)
               /\ toDevice'[i] = Piece(ch, "CBOR", w, i - Len(toDevice))
    BY <1>1, <1>3, <1>5, EmitAdds
<1> HIDE DEF f
<1>7. DeviceShape' /\ AuthShape'
    BY <1>2, <1>3 DEF DeviceShape, AuthShape
<1>8. CASE k # Len(f)
    BY <1>6, <1>7, <1>8, DisconnectKeeps
<1>9. CASE k = Len(f)
    <2>1. Remains(client', client, "WAITING", EmptyAssembler)
        BY <1>3, <1>6, <1>9, BegunIs DEF ClientShape
    <2>2. /\ IsClient(client)' /\ client'.state = "WAITING" /\ client'.channel = ch
          /\ ~client'.assembler.active /\ client'.max_message_size \in Nat
          /\ DOMAIN client'.assembler = AssemblerFields
        BY <1>3, <2>1, EmptyIsAssembler DEF Remains, IsClient, ClientShape
    <2>3. ClientShape'
        BY <1>5, <2>2 DEF ClientShape
    <2>4. /\ Silent /\ ~Asking
          /\ \A i \in 1 .. Len(toDevice) : /\ toDevice[i].channel = ch
                                           /\ toDevice[i].command # "INIT"
        BY <1>2 DEF TransactionInv, OneRequest, Talking
    <2>5. \A j \in 1 .. Len(f) :
             LET r == Piece(ch, "CBOR", w, j)
             IN  /\ r.channel = ch /\ r.command # "INIT"
                 /\ j = 1 => CborInit(r) /\ r.data[1].request = q
                 /\ j # 1 => ~CborInit(r)
        <3> TAKE j \in 1 .. Len(f)
        <3> DEFINE r == Piece(ch, "CBOR", w, j)
        <3>1. j \in Nat \ {0} /\ j <= FragmentCount(Len(w))
            BY <1>6
        <3>2. /\ r.channel = ch
              /\ j = 1 => r.init /\ r.command = "CBOR"
              /\ j = 1 => r.data[1] = w[1]
              /\ j # 1 => ~r.init /\ r.command = "NONE"
            BY <1>4, <1>5, <3>1, HostPieces
        <3> HIDE DEF r
        <3>3. /\ r.channel = ch /\ r.command # "INIT"
              /\ j = 1 => CborInit(r) /\ r.data[1].request = q
              /\ j # 1 => ~CborInit(r)
            BY <1>4, <3>2 DEF CborInit
        <3> QED BY <3>3 DEF r
    <2>6. \A i \in 1 .. Len(toDevice') :
             /\ toDevice'[i].channel = ch /\ toDevice'[i].command # "INIT"
             /\ CborInit(toDevice'[i]) => /\ i = Len(toDevice) + 1
                                          /\ toDevice'[i].data[1].request = q
        <3> TAKE i \in 1 .. Len(toDevice')
        <3>1. CASE i \in 1 .. Len(toDevice) /\ toDevice'[i] = toDevice[i]
            BY <2>4, <3>1 DEF Asking
        <3>2. CASE /\ i > Len(toDevice) /\ i - Len(toDevice) \in 1 .. Len(f)
                   /\ toDevice'[i] = Piece(ch, "CBOR", w, i - Len(toDevice))
            <4> DEFINE j == i - Len(toDevice)
            <4>1. j \in 1 .. Len(f) /\ toDevice'[i] = Piece(ch, "CBOR", w, j)
                BY <3>2
            <4>2. j = 1 => i = Len(toDevice) + 1
                BY <1>6
            <4> HIDE DEF j
            <4> QED BY <2>5, <4>1, <4>2
        <3> QED BY <1>6, <3>1, <3>2
    <2>7. Asking'
        <3> DEFINE i == Len(toDevice) + 1
        <3>1. i \in 1 .. Len(toDevice') /\ i \notin 1 .. Len(toDevice) /\ i - Len(toDevice) = 1
            BY <1>6, <1>9
        <3> HIDE DEF i
        <3>2. toDevice'[i] = Piece(ch, "CBOR", w, 1)
            BY <1>6, <3>1
        <3>3. 1 \in 1 .. Len(f)
            BY <1>6
        <3> QED BY <2>5, <3>1, <3>2, <3>3 DEF Asking
    <2>8. Silent'
        BY <1>2, <2>2, <2>4 DEF Silent
    <2>9. ~auth'.assembler.active /\ auth'.work.channel # ch
        BY <1>2, <2>4 DEF Asking, Silent
    <2>10. OneRequest' /\ CurrentRequest'
        BY <1>2, <1>5, <2>2, <2>6, <2>9 DEF OneRequest, CurrentRequest
    <2>11. Allocating' /\ Waiting'
        BY <2>2, <2>7, <2>8 DEF Allocating, Waiting
    <2> QED BY <1>6, <1>7, <2>3, <2>10, <2>11 DEF TransactionInv, Shape
<1> QED BY <1>6, <1>8, <1>9

LEMMA CancelKeeps ==
    ASSUME TransactionInv, Cancel
    PROVE  TransactionInv' /\ outcome'.event # "RESPONSE"
<1> DEFINE ch == client.channel
           w == << >>
           f == Fragment(ch, "CANCEL", w)
           done == [client EXCEPT !.state = "CANCELING"]
<1>1. PICK k \in 0 .. Len(f) : Emit(f, done, k)
    BY DEF Cancel, CancelReports
<1>2. /\ client.state = "WAITING" /\ UNCHANGED << fromDevice, auth >>
    BY DEF Cancel, CanCancel
<1>3. /\ HostShape /\ DeviceShape /\ AuthShape /\ ClientShape
    BY DEF TransactionInv, Shape
<1>4. /\ ch \in Channels
      /\ \A i \in 1 .. Len(toDevice) : toDevice[i].channel = ch /\ toDevice[i].command # "INIT"
    BY <1>2 DEF TransactionInv, OneRequest, Talking
<1>5. w \in Seq(HostUnits) /\ Len(w) = 0 /\ Len(w) <= 1
    BY EmptySeq
<1> HIDE DEF w, done
<1>6. HostMessage(ch, "CANCEL", w) /\ FragmentCount(Len(w)) = 1
    BY <1>4, <1>5, SinglePiece DEF HostMessage
<1>7. HostMessage(ch, "CANCEL", w)
    BY <1>6
<1>8. /\ HostShape' /\ outcome'.event # "RESPONSE"
      /\ Len(f) = FragmentCount(Len(w)) /\ Len(f) \in Nat \ {0}
      /\ client' = IF k = Len(f) THEN done ELSE DisconnectedClient
      /\ Len(toDevice) \in Nat /\ Len(toDevice') = Len(toDevice) + k
      /\ \A i \in 1 .. Len(toDevice') :
            \/ i \in 1 .. Len(toDevice) /\ toDevice'[i] = toDevice[i]
            \/ /\ i > Len(toDevice) /\ i - Len(toDevice) \in 1 .. Len(f)
               /\ toDevice'[i] = Piece(ch, "CANCEL", w, i - Len(toDevice))
    BY <1>1, <1>3, <1>7, EmitAdds
<1> HIDE DEF f
<1>9. DeviceShape' /\ AuthShape'
    BY <1>2, <1>3 DEF DeviceShape, AuthShape
<1>10. CASE k # Len(f)
    BY <1>8, <1>9, <1>10, DisconnectKeeps
<1>11. CASE k = Len(f)
    <2>1. Remains(client', client, "CANCELING", client.assembler)
        BY <1>3, <1>8, <1>11, BegunIs DEF ClientShape, done
    <2>2. ClientShape' /\ client'.state = "CANCELING" /\ client'.channel = ch
          /\ client'.assembler = client.assembler
        BY <1>3, <2>1 DEF ClientShape, Remains, IsClient
    <2>3. \A j \in 1 .. Len(f) : /\ Piece(ch, "CANCEL", w, j).channel = ch
                                 /\ Piece(ch, "CANCEL", w, j).command = "CANCEL"
        <3>1. \A j \in 1 .. Len(f) : j = 1
            BY <1>6, <1>8
        <3>2. 1 \in Nat \ {0} /\ 1 <= FragmentCount(Len(w))
            BY <1>6
        <3>3. Piece(ch, "CANCEL", w, 1).channel = ch /\ Piece(ch, "CANCEL", w, 1).command = "CANCEL"
            BY <1>6, <3>2, HostPieces
        <3> QED BY <3>1, <3>3
    <2>4. \A i \in 1 .. Len(toDevice') :
             /\ toDevice'[i].channel = ch /\ toDevice'[i].command # "INIT"
             /\ CborInit(toDevice'[i]) =>
                   i \in 1 .. Len(toDevice) /\ toDevice'[i] = toDevice[i]
        BY <1>4, <1>8, <2>3 DEF CborInit
    <2>5. \A i \in 1 .. Len(toDevice) :
             i \in 1 .. Len(toDevice') /\ toDevice'[i] = toDevice[i]
        BY <1>6, <1>8, <1>11
    <2>6. Asking' = Asking
        BY <1>2, <2>4, <2>5 DEF Asking
    <2>7. Silent' = Silent
        BY <1>2, <2>2 DEF Silent
    <2>8. OneRequest' /\ CurrentRequest' /\ Allocating'
        BY <1>2, <1>4, <2>2, <2>4 DEF TransactionInv, OneRequest, Talking, CurrentRequest, Allocating
    <2>9. Answers \subseteq Answers'
        <3>1. current \in Requests
            BY <1>2 DEF TransactionInv, CurrentRequest
        <3>2. Answers = Errors \cup AnswersTo(current)
            BY <1>2 DEF Answers
        <3>3. Answers' = Errors \cup UNION {AnswersTo(q) : q \in Requests}
            BY <2>2 DEF Answers, Errors, AnswersTo
        <3> QED BY <3>1, <3>2, <3>3
    <2>10. \A m, n : Answering(m, n) => Answering(m, n)'
        BY <1>2, <2>2 DEF Answering
    <2>11. Waiting'
        BY <1>2, <2>2, <2>6, <2>7, <2>9, <2>10 DEF TransactionInv, Waiting
    <2> QED BY <1>8, <1>9, <2>2, <2>8, <2>11 DEF TransactionInv, Shape
<1> QED BY <1>8, <1>10, <1>11

------------------------------------------------------------------------------
(* What the authenticator sends                                            *)

(* The reports that follow what was under way.                             *)
Followed(ch, cmd, w) ==
    \A i \in 1 .. Len(fromDevice') :
       \/ i \in 1 .. Len(fromDevice) /\ fromDevice'[i] = fromDevice[i]
       \/ /\ i > Len(fromDevice) /\ fromDevice'[i].channel = ch
          /\ i - Len(fromDevice) \in 1 .. FragmentCount(Len(w))
          /\ fromDevice'[i].command = "INIT" =>
                /\ cmd = "INIT" /\ i = Len(fromDevice) + 1 /\ fromDevice'[i].data = w
          /\ cmd = "KEEPALIVE" => fromDevice'[i].command = "KEEPALIVE"
          /\ cmd \in {"ERROR", "CBOR"} =>
                /\ Rank(fromDevice'[i]) = i - Len(fromDevice)
                /\ fromDevice'[i] = Piece(ch, cmd, w, i - Len(fromDevice))

LEMMA SendFollows ==
    ASSUME DeviceShape, NEW ch \in Channels \cup {BroadcastCid}, NEW cmd, NEW w,
           DeviceMessage(cmd, w), Send(ch, cmd, w)
    PROVE  /\ DeviceShape' /\ Followed(ch, cmd, w)
           /\ Len(fromDevice) \in Nat /\ Len(fromDevice') \in Nat
           /\ Len(fromDevice) <= Len(fromDevice')
<1>1. DeviceShape' /\ Adds(ch, cmd, w)
    BY SendAdds
<1> DEFINE n == FragmentCount(Len(w))
<1>2. n \in Nat
    BY CountSome, LenProperties DEF DeviceMessage
<1>3. ASSUME NEW j \in 1 .. n
      PROVE  /\ Piece(ch, cmd, w, j).channel = ch
             /\ Piece(ch, cmd, w, j).command = "INIT" =>
                   cmd = "INIT" /\ j = 1 /\ Piece(ch, cmd, w, j).data = w
             /\ cmd = "KEEPALIVE" => Piece(ch, cmd, w, j).command = "KEEPALIVE"
             /\ cmd \in {"ERROR", "CBOR"} => Rank(Piece(ch, cmd, w, j)) = j
    <2>1. j \in Nat \ {0} /\ j <= FragmentCount(Len(w))
        BY <1>2
    <2>2. Piece(ch, cmd, w, j).channel = ch
        BY <2>1, PieceFields
    <2> QED BY <2>1, <2>2, DevicePieces
<1> HIDE DEF n
<1>4. Followed(ch, cmd, w)
    <2>1. SUFFICES ASSUME NEW i \in 1 .. Len(fromDevice'),
                          ~(i \in 1 .. Len(fromDevice) /\ fromDevice'[i] = fromDevice[i])
                   PROVE  /\ i > Len(fromDevice) /\ fromDevice'[i].channel = ch
                          /\ i - Len(fromDevice) \in 1 .. FragmentCount(Len(w))
                          /\ fromDevice'[i].command = "INIT" =>
                                /\ cmd = "INIT" /\ i = Len(fromDevice) + 1
                                /\ fromDevice'[i].data = w
                          /\ cmd = "KEEPALIVE" => fromDevice'[i].command = "KEEPALIVE"
                          /\ cmd \in {"ERROR", "CBOR"} =>
                                /\ Rank(fromDevice'[i]) = i - Len(fromDevice)
                                /\ fromDevice'[i] = Piece(ch, cmd, w, i - Len(fromDevice))
        BY DEF Followed
    <2> DEFINE j == i - Len(fromDevice)
    <2>2. i > Len(fromDevice) /\ j \in 1 .. n /\ fromDevice'[i] = Piece(ch, cmd, w, j)
        BY <1>1, <2>1 DEF Adds, n
    <2>3. j = 1 => i = Len(fromDevice) + 1
        BY <1>1 DEF Adds
    <2>4. n = FragmentCount(Len(w))
        BY DEF n
    <2> HIDE DEF j
    <2>5. /\ fromDevice'[i].channel = ch
          /\ fromDevice'[i].command = "INIT" =>
                cmd = "INIT" /\ i = Len(fromDevice) + 1 /\ fromDevice'[i].data = w
          /\ cmd = "KEEPALIVE" => fromDevice'[i].command = "KEEPALIVE"
          /\ cmd \in {"ERROR", "CBOR"} => Rank(fromDevice'[i]) = j
        BY <1>3, <2>2, <2>3
    <2> QED BY <2>2, <2>4, <2>5 DEF j
<1> QED BY <1>1, <1>4 DEF Adds

(* A whole answer follows what was on the way to the client.               *)
LEMMA AnswerBegins ==
    ASSUME DeviceShape, NEW cmd \in {"ERROR", "CBOR"}, NEW w, DeviceMessage(cmd, w),
           client.channel \in Channels, ~client.assembler.active,
           \A i \in 1 .. Len(fromDevice) : fromDevice[i].channel = client.channel =>
              fromDevice[i].command = "KEEPALIVE",
           Send(client.channel, cmd, w), client' = client
    PROVE  LET m == [command |-> cmd, data |-> w]
           IN  Answering(m, 0)' /\ 0 \in 0 .. FragmentCount(Len(m.data))
<1> DEFINE m == [command |-> cmd, data |-> w]
           ch == client.channel
           n == FragmentCount(Len(w))
<1>1. Followed(ch, cmd, w) /\ Len(fromDevice) \in Nat /\ Len(fromDevice') \in Nat
    BY SendFollows
<1>2. n \in Nat /\ m.command = cmd /\ m.data = w
    BY CountSome, LenProperties DEF DeviceMessage
<1>3. ASSUME NEW i \in 1 .. Len(fromDevice'), fromDevice'[i].channel = ch
      PROVE  \/ i <= Len(fromDevice) /\ Rank(fromDevice'[i]) = 0
             \/ /\ i > Len(fromDevice) /\ Rank(fromDevice'[i]) = i - Len(fromDevice)
                /\ i - Len(fromDevice) \in 1 .. n
                /\ fromDevice'[i] = Piece(ch, cmd, w, i - Len(fromDevice))
    <2>1. CASE i \in 1 .. Len(fromDevice) /\ fromDevice'[i] = fromDevice[i]
        BY <1>3, <2>1 DEF Rank
    <2>2. CASE ~(i \in 1 .. Len(fromDevice) /\ fromDevice'[i] = fromDevice[i])
        BY <1>1, <2>2 DEF Followed
    <2> QED BY <2>1, <2>2
<1> HIDE DEF m, n
<1>4. ASSUME NEW i \in 1 .. Len(fromDevice'), fromDevice'[i].channel = ch
      PROVE  /\ Rank(fromDevice'[i]) # 0 =>
                   /\ Rank(fromDevice'[i]) \in 0 + 1 .. n
                   /\ fromDevice'[i] = Piece(ch, cmd, w, Rank(fromDevice'[i]))
             /\ \A j \in i + 1 .. Len(fromDevice') : fromDevice'[j].channel = ch =>
                   Rank(fromDevice'[i]) = 0 \/ Rank(fromDevice'[i]) < Rank(fromDevice'[j])
    <2>1. CASE i <= Len(fromDevice) /\ Rank(fromDevice'[i]) = 0
        BY <2>1
    <2>2. CASE /\ i > Len(fromDevice) /\ Rank(fromDevice'[i]) = i - Len(fromDevice)
               /\ i - Len(fromDevice) \in 1 .. n
               /\ fromDevice'[i] = Piece(ch, cmd, w, i - Len(fromDevice))
        <3>1. ASSUME NEW j \in i + 1 .. Len(fromDevice'), fromDevice'[j].channel = ch
              PROVE  Rank(fromDevice'[i]) < Rank(fromDevice'[j])
            <4>1. j \in 1 .. Len(fromDevice') /\ j > Len(fromDevice) /\ i < j
                BY <1>1, <2>2
            <4>2. Rank(fromDevice'[j]) = j - Len(fromDevice)
                BY <1>1, <1>3, <3>1, <4>1
            <4> QED BY <1>1, <2>2, <4>1, <4>2
        <3> QED BY <1>2, <2>2, <3>1
    <2> QED BY <1>3, <1>4, <2>1, <2>2
<1>5. Answering(m, 0)'
    BY <1>2, <1>4 DEF Answering, n
<1> QED BY <1>2, <1>5 DEF m, n

(* Reports for another channel, or of another channel's work.              *)
LEMMA OthersKeep ==
    ASSUME OneRequest, CurrentRequest, Waiting, NEW ch, NEW cmd, NEW w,
           Followed(ch, cmd, w), Len(fromDevice) \in Nat, Len(fromDevice') \in Nat,
           ch # client.channel,
           UNCHANGED << client, toDevice, current >>,
           auth'.assembler = auth.assembler,
           auth.work.channel # client.channel, auth'.work.channel # client.channel
    PROVE  OneRequest' /\ CurrentRequest' /\ Waiting'
<1>1. \A i \in 1 .. Len(fromDevice') : fromDevice'[i].channel = client.channel =>
         i \in 1 .. Len(fromDevice) /\ fromDevice'[i] = fromDevice[i]
    BY DEF Followed
<1>2. (Silent => Silent') /\ Asking' = Asking /\ Answers' = Answers /\ Talking' = Talking
    BY <1>1 DEF Silent, Asking, Answers, Errors, AnswersTo, Talking
<1>3. OneRequest' /\ CurrentRequest'
    BY <1>2 DEF OneRequest, CurrentRequest
<1>4. ASSUME NEW m, NEW k, Answering(m, k) PROVE Answering(m, k)'
    <2>1. ASSUME NEW i \in 1 .. Len(fromDevice'), fromDevice'[i].channel = client.channel
          PROVE  /\ i \in 1 .. Len(fromDevice) /\ fromDevice'[i] = fromDevice[i]
                 /\ \A j \in i + 1 .. Len(fromDevice') :
                       fromDevice'[j].channel = client.channel =>
                          j \in i + 1 .. Len(fromDevice) /\ fromDevice'[j] = fromDevice[j]
        BY <1>1, <2>1
    <2> QED BY <1>4, <2>1 DEF Answering
<1>5. Waiting'
    BY <1>2, <1>4 DEF Waiting
<1> QED BY <1>3, <1>5

(* A report that is no INIT reply takes nothing from an allocation, as     *)
(* long as it is not for the channel that a reply on its way names.        *)
LEMMA AllocationStays ==
    ASSUME Allocating, NEW ch, NEW cmd, cmd # "INIT", NEW w, Followed(ch, cmd, w),
           Len(fromDevice) \in Nat, Len(fromDevice') \in Nat, client' = client,
           toDevice' = toDevice, auth'.assembler = auth.assembler,
           auth.work.channel = ch, ch # NoChannel,
           auth'.work.channel \in {auth.work.channel, NoChannel}
    PROVE  Allocating'
<1> SUFFICES ASSUME client.state = "ALLOCATING" PROVE Allocating'
    BY DEF Allocating
<1>1. \A i \in 1 .. Len(fromDevice') : Replies(fromDevice'[i], client.nonce) =>
         i \in 1 .. Len(fromDevice) /\ fromDevice'[i] = fromDevice[i]
    BY DEF Followed, Replies
<1>2. \A i \in 1 .. Len(toDevice') : Asks(toDevice'[i], client'.nonce) =>
         /\ i = Len(toDevice')
         /\ \A j \in 1 .. Len(fromDevice') : ~Replies(fromDevice'[j], client'.nonce)
    BY <1>1 DEF Allocating
<1>3. ASSUME NEW i \in 1 .. Len(fromDevice'), Replies(fromDevice'[i], client'.nonce)
      PROVE  /\ toDevice' = << >> /\ ~auth'.assembler.active
             /\ auth'.work.channel # fromDevice'[i].data[1].channel
                   \/ fromDevice'[i].data[1].channel = NoChannel
             /\ \A j \in i + 1 .. Len(fromDevice') :
                   fromDevice'[j].channel # fromDevice'[i].data[1].channel
    <2>1. i \in 1 .. Len(fromDevice) /\ fromDevice'[i] = fromDevice[i]
        BY <1>1, <1>3
    <2>2. /\ toDevice = << >> /\ ~auth.assembler.active
          /\ ch # fromDevice[i].data[1].channel \/ fromDevice[i].data[1].channel = NoChannel
          /\ \A j \in i + 1 .. Len(fromDevice) :
                fromDevice[j].channel # fromDevice[i].data[1].channel
        BY <1>3, <2>1 DEF Allocating
    <2>3. ch # fromDevice[i].data[1].channel
        BY <2>2
    <2>4. \A j \in i + 1 .. Len(fromDevice') :
             \/ j \in i + 1 .. Len(fromDevice) /\ fromDevice'[j] = fromDevice[j]
             \/ fromDevice'[j].channel = ch
        BY <2>1 DEF Followed
    <2>5. \A j \in i + 1 .. Len(fromDevice') :
             fromDevice'[j].channel # fromDevice'[i].data[1].channel
        BY <2>1, <2>2, <2>3, <2>4
    <2>6. auth'.work.channel # fromDevice'[i].data[1].channel
             \/ fromDevice'[i].data[1].channel = NoChannel
        BY <2>1, <2>3
    <2> QED BY <2>2, <2>5, <2>6
<1> QED BY <1>2, <1>3 DEF Allocating

LEMMA WorkIs ==
    ASSUME AuthShape, auth.work # NoWork
    PROVE  auth.work.channel \in Channels /\ auth.work.request \in Requests
BY DEF AuthShape, Works

LEMMA KeepaliveKeeps ==
    ASSUME TransactionInv, SendKeepalive
    PROVE  TransactionInv' /\ outcome'.event # "RESPONSE"
<1>1. PICK status \in {"PROCESSING", "OTHER"} :
          Working("KEEPALIVE", << [kind |-> "status", status |-> status] >>)
    BY DEF SendKeepalive
<1> DEFINE ch == auth.work.channel
           u == [kind |-> "status", status |-> status]
           w == << u >>
<1>2. u \in StatusUnits
    BY DEF StatusUnits
<1>3. DeviceMessage("KEEPALIVE", w)
    <2> HIDE DEF u
    <2> QED BY <1>2, Messages
<1>4. /\ auth.work # NoWork /\ Send(ch, "KEEPALIVE", w) /\ outcome' = Quiet
      /\ UNCHANGED << client, toDevice, current, auth >>
    BY <1>1 DEF Working, SendKeepalive
<1>5. HostShape /\ DeviceShape /\ AuthShape /\ ClientShape
    BY DEF TransactionInv, Shape
<1>6. ch \in Channels /\ ch # NoChannel
    BY <1>4, <1>5, WorkIs, SomeChannels DEF ChannelsAre
<1> HIDE DEF w, u, ch
<1>7. /\ DeviceShape' /\ Followed(ch, "KEEPALIVE", w)
      /\ Len(fromDevice) \in Nat /\ Len(fromDevice') \in Nat
    BY <1>3, <1>4, <1>5, <1>6, SendFollows
<1>8. Shape'
    BY <1>4, <1>5, <1>7 DEF Shape, HostShape, AuthShape, ClientShape
<1>9. Allocating'
    BY <1>4, <1>6, <1>7, AllocationStays DEF TransactionInv, ch
<1>10. OneRequest' /\ CurrentRequest' /\ Waiting'
    <2>1. CASE ~Talking
        BY <1>4, <2>1 DEF Talking, OneRequest, CurrentRequest, Waiting
    <2>2. CASE Talking /\ ch # client.channel
        BY <1>4, <1>7, <2>2, OthersKeep DEF TransactionInv, ch
    <2>3. CASE Talking /\ ch = client.channel
        <3>1. client.state \in {"WAITING", "CANCELING"} /\ ~Silent
            BY <2>3 DEF Talking, TransactionInv, OneRequest, Silent, ch
        <3>2. /\ ~Asking /\ ~client.assembler.active
              /\ \A i \in 1 .. Len(fromDevice) : fromDevice[i].channel = client.channel =>
                    fromDevice[i].command = "KEEPALIVE"
            BY <2>3, <3>1 DEF TransactionInv, Waiting, ch
        <3>3. \A i \in 1 .. Len(fromDevice') : fromDevice'[i].channel = client.channel =>
                 fromDevice'[i].command = "KEEPALIVE"
            BY <1>7, <3>2 DEF Followed
        <3>4. Asking' = Asking
            BY <1>4 DEF Asking
        <3>5. Waiting'
            BY <1>4, <2>3, <3>2, <3>3, <3>4 DEF Waiting, ch
        <3>6. OneRequest' /\ CurrentRequest'
            BY <1>4, <3>1 DEF TransactionInv, OneRequest, Talking, CurrentRequest
        <3> QED BY <3>5, <3>6
    <2> QED BY <2>1, <2>2, <2>3
<1>11. outcome'.event # "RESPONSE"
    BY <1>4 DEF Quiet
<1> QED BY <1>8, <1>9, <1>10, <1>11 DEF TransactionInv

(* The messages that end a request.                                        *)
LEMMA FinishKeeps ==
    ASSUME TransactionInv, NEW cmd, NEW w, Finish(cmd, w),
           \/ cmd = "ERROR" /\ \E u \in ErrorUnits : w = << u >>
           \/ cmd = "CBOR" /\ \E n \in AnswerSizes : w = Answer(auth.work.request, n)
    PROVE  TransactionInv' /\ outcome'.event # "RESPONSE"
<1> DEFINE ch == auth.work.channel
           m == [command |-> cmd, data |-> w]
<1>1. /\ auth.work # NoWork /\ Send(ch, cmd, w) /\ outcome' = Quiet
      /\ UNCHANGED << client, toDevice, current >>
      /\ auth' = [auth EXCEPT !.work = NoWork]
    BY DEF Finish, Working
<1>2. HostShape /\ DeviceShape /\ AuthShape /\ ClientShape
    BY DEF TransactionInv, Shape
<1>3. /\ ch \in Channels /\ ch # NoChannel /\ auth.work.request \in Requests
    BY <1>1, <1>2, WorkIs, SomeChannels DEF ChannelsAre
<1>4. auth'.work = NoWork /\ auth'.assembler = auth.assembler /\ AuthShape'
    BY <1>1, <1>2 DEF AuthShape, Works
<1>5. auth'.work.channel = NoChannel
    BY <1>4 DEF NoWork
<1>6. DeviceMessage(cmd, w) /\ cmd \in {"ERROR", "CBOR"}
    BY <1>3, Messages
<1> HIDE DEF ch
<1>7. /\ DeviceShape' /\ Followed(ch, cmd, w)
      /\ Len(fromDevice) \in Nat /\ Len(fromDevice') \in Nat
    BY <1>1, <1>2, <1>3, <1>6, SendFollows
<1>8. Shape'
    BY <1>1, <1>2, <1>4, <1>7 DEF Shape, HostShape, ClientShape
<1>9. Allocating'
    BY <1>1, <1>3, <1>4, <1>5, <1>6, <1>7, AllocationStays DEF TransactionInv, ch
<1>10. Talking => client.channel \in Channels /\ client.channel # NoChannel
    BY SomeChannels DEF TransactionInv, OneRequest, ChannelsAre
<1>11. OneRequest' /\ CurrentRequest' /\ Waiting'
    <2>1. CASE ~Talking
        BY <1>1, <2>1 DEF Talking, OneRequest, CurrentRequest, Waiting
    <2>2. CASE Talking /\ ch # client.channel
        BY <1>1, <1>4, <1>5, <1>7, <1>10, <2>2, OthersKeep DEF TransactionInv, ch
    <2>3. CASE Talking /\ ch = client.channel
        <3>1. client.state \in {"WAITING", "CANCELING"} /\ ~Silent
            BY <2>3 DEF Talking, TransactionInv, OneRequest, Silent, ch
        <3>2. /\ ~Asking /\ ~client.assembler.active
              /\ \A i \in 1 .. Len(fromDevice) : fromDevice[i].channel = client.channel =>
                    fromDevice[i].command = "KEEPALIVE"
            BY <2>3, <3>1 DEF TransactionInv, Waiting, ch
        <3>3. Answering(m, 0)' /\ 0 \in 0 .. FragmentCount(Len(m.data))
            BY <1>1, <1>2, <1>6, <1>10, <2>3, <3>2, AnswerBegins
        <3>4. Asking' = Asking
            BY <1>1, <1>4 DEF Asking
        <3>5. m \in Answers'
            <4>1. client.state = "WAITING" => auth.work.request = current
                BY <2>3 DEF TransactionInv, CurrentRequest, ch
            <4>2. cmd = "ERROR" => m \in Errors
                BY <1>6 DEF Errors
            <4>3. cmd = "CBOR" => m \in AnswersTo(auth.work.request)
                BY DEF AnswersTo
            <4>4. Answers' = Errors \cup (IF client.state = "WAITING" THEN AnswersTo(current)
                                          ELSE UNION {AnswersTo(q) : q \in Requests})
                BY <1>1 DEF Answers, Errors, AnswersTo
            <4> HIDE DEF m
            <4> QED BY <1>3, <1>6, <4>1, <4>2, <4>3, <4>4
        <3> HIDE DEF m
        <3>6. Waiting'
            BY <1>1, <1>5, <1>10, <2>3, <3>1, <3>2, <3>3, <3>4, <3>5 DEF Waiting
        <3>7. OneRequest' /\ CurrentRequest'
            BY <1>1, <1>4, <1>5, <1>10, <2>3, <3>1
               DEF TransactionInv, OneRequest, Talking, CurrentRequest
        <3> QED BY <3>6, <3>7
    <2> QED BY <2>1, <2>2, <2>3
<1>12. outcome'.event # "RESPONSE"
    BY <1>1 DEF Quiet
<1> QED BY <1>8, <1>9, <1>11, <1>12 DEF TransactionInv

LEMMA SendKeeps ==
    ASSUME TransactionInv, SendKeepalive \/ SendAnswer \/ SendError
    PROVE  TransactionInv' /\ outcome'.event # "RESPONSE"
<1>1. CASE SendKeepalive
    BY <1>1, KeepaliveKeeps
<1>2. CASE SendAnswer
    BY <1>2, FinishKeeps DEF SendAnswer
<1>3. CASE SendError
    <2>1. PICK code \in {"TIMEOUT", "INVALID_CHANNEL"} :
              Finish("ERROR", << [kind |-> "error", code |-> code] >>)
        BY <1>3 DEF SendError
    <2>2. [kind |-> "error", code |-> code] \in ErrorUnits
        BY DEF ErrorUnits
    <2> QED BY <2>1, <2>2, FinishKeeps
<1> QED BY <1>1, <1>2, <1>3

------------------------------------------------------------------------------
(* What the authenticator reads                                            *)

LEMMA ToDeviceRest ==
    ASSUME HostShape, toDevice # << >>, toDevice' = Tail(toDevice)
    PROVE  /\ HostShape' /\ Head(toDevice) = toDevice[1] /\ 1 \in 1 .. Len(toDevice)
           /\ Len(toDevice) \in Nat /\ Len(toDevice') = Len(toDevice) - 1
           /\ \A i \in 1 .. Len(toDevice') :
                 i + 1 \in 2 .. Len(toDevice) /\ toDevice'[i] = toDevice[i + 1]
<1>1. toDevice \in Seq(ReportsOf(HostUnits))
    BY DEF HostShape
<1> DEFINE t == Tail(toDevice)
<1>2. /\ t \in Seq(ReportsOf(HostUnits)) /\ Len(toDevice) \in Nat
      /\ Len(t) = Len(toDevice) - 1 /\ Len(toDevice) > 0
      /\ Head(toDevice) = toDevice[1]
      /\ \A i \in 1 .. Len(t) : i + 1 \in 2 .. Len(toDevice) /\ t[i] = toDevice[i + 1]
    BY <1>1, Taken
<1> HIDE DEF t
<1>3. toDevice' = t
    BY DEF t
<1>4. \A i \in 1 .. Len(t) : i + 1 \in 1 .. Len(toDevice) /\ t[i] = toDevice[i + 1]
    BY <1>2
<1>5. HostShape'
    BY <1>2, <1>3, <1>4 DEF HostShape
<1> QED BY <1>2, <1>3, <1>5

LEMMA PassingAssembles ==
    ASSUME NEW r, Passes(r)
    PROVE  Assembles(r)
BY EmptyIsAssembler DEF Passes, Assembles

(* The answers it gives on the spot.                                       *)
LEMMA Spot ==
    ASSUME Shape, NEW r, HostReport(r)
    PROVE  /\ Allocates(r) =>
                 \E fault \in InitFaults, c \in Channels :
                    LET w == InitReply(r.data[1].nonce, c, fault)
                    IN  /\ r.channel = BroadcastCid => c \notin ChannelsUnderWay
                        /\ r.channel # BroadcastCid => c = r.channel
                        /\ Len(w) = 1 => /\ w[1].nonce = r.data[1].nonce
                                         /\ w[1].channel \in {c, NoChannel}
                        /\ FragmentCount(Len(w)) = 1
                        /\ DeviceShape' /\ Followed(r.channel, "INIT", w)
           /\ Declines(r) =>
                 \E ch : DeviceShape' /\ Followed(ch, "ERROR", << [kind |-> "error", code |-> "BUSY"] >>)
           /\ Stops(r) =>
                 \E q : DeviceShape' /\ Followed(r.channel, "CBOR", q)
<1>1. DeviceShape /\ AuthShape
    BY DEF Shape
<1>2. ASSUME Allocates(r)
      PROVE  \E fault \in InitFaults, c \in Channels :
                    LET w == InitReply(r.data[1].nonce, c, fault)
                    IN  /\ r.channel = BroadcastCid => c \notin ChannelsUnderWay
                        /\ r.channel # BroadcastCid => c = r.channel
                        /\ Len(w) = 1 => /\ w[1].nonce = r.data[1].nonce
                                         /\ w[1].channel \in {c, NoChannel}
                        /\ FragmentCount(Len(w)) = 1
                        /\ DeviceShape' /\ Followed(r.channel, "INIT", w)
    <2>1. PICK fault \in InitFaults, c \in Channels :
              /\ r.channel = BroadcastCid => c \notin ChannelsUnderWay
              /\ r.channel # BroadcastCid => c = r.channel
              /\ Send(r.channel, "INIT", InitReply(r.data[1].nonce, c, fault))
        BY <1>2 DEF Allocates
    <2> DEFINE nonce == r.data[1].nonce
               w == InitReply(nonce, c, fault)
    <2>2. nonce \in Nonces /\ r.channel \in Channels \cup {BroadcastCid}
        BY <1>2 DEF Allocates, HostReport, NonceUnits
    <2> HIDE DEF nonce
    <2>3. /\ DeviceMessage("INIT", w)
          /\ Len(w) = 1 => w[1].nonce = nonce /\ w[1].channel \in {c, NoChannel}
        BY <2>2, Messages
    <2>4. Send(r.channel, "INIT", w)
        BY <2>1 DEF nonce
    <2> HIDE DEF w
    <2>5. DeviceShape' /\ Followed(r.channel, "INIT", w)
        BY <1>1, <2>2, <2>3, <2>4, SendFollows
    <2>6. FragmentCount(Len(w)) = 1
        <3>1. w \in Seq(DeviceUnits) /\ Len(w) <= 1
            BY <2>3 DEF DeviceMessage
        <3> QED BY <3>1, SinglePiece
    <2> QED BY <2>1, <2>3, <2>5, <2>6 DEF w, nonce
<1>3. ASSUME Declines(r)
      PROVE  \E ch : DeviceShape' /\ Followed(ch, "ERROR", << [kind |-> "error", code |-> "BUSY"] >>)
    <2> DEFINE u == [kind |-> "error", code |-> "BUSY"]
               w == << u >>
    <2>1. PICK ch \in Channels : Send(ch, "ERROR", w)
        BY <1>3 DEF Declines
    <2>2. u \in ErrorUnits
        BY DEF ErrorUnits
    <2> HIDE DEF u
    <2>3. DeviceMessage("ERROR", w)
        BY <2>2, Messages
    <2> HIDE DEF w
    <2>4. DeviceShape' /\ Followed(ch, "ERROR", w)
        BY <1>1, <2>1, <2>3, SendFollows
    <2> QED BY <2>4 DEF u, w
<1>4. ASSUME Stops(r)
      PROVE  \E q : DeviceShape' /\ Followed(r.channel, "CBOR", q)
    <2> DEFINE w == Answer(auth.work.request, 1)
    <2>1. Send(r.channel, "CBOR", w) /\ r.channel \in Channels /\ auth.work.channel = r.channel
        BY <1>4 DEF Stops, HostReport
    <2>2. auth.work.request \in Requests
        BY <1>1, <2>1, WorkIs, SomeChannels DEF NoWork, ChannelsAre
    <2>3. DeviceMessage("CBOR", w)
        BY <2>2, Messages
    <2> HIDE DEF w
    <2>4. DeviceShape' /\ Followed(r.channel, "CBOR", w)
        BY <1>1, <2>1, <2>3, SendFollows
    <2> QED BY <2>4
<1> QED BY <1>2, <1>3, <1>4

LEMMA ReadShapes ==
    ASSUME Shape, Read
    PROVE  Shape'
<1> DEFINE r == Head(toDevice)
<1>1. /\ toDevice # << >> /\ toDevice' = Tail(toDevice) /\ client' = client
      /\ HostReport(r) /\ IsAuth(auth')
      /\ \/ Assembles(r) \/ Allocates(r) \/ Takes(r) \/ Declines(r) \/ Stops(r) \/ Passes(r)
    BY ReadCases
<1>2. HostShape /\ DeviceShape /\ AuthShape /\ ClientShape
    BY DEF Shape
<1>3. HostShape' /\ ClientShape'
    BY <1>1, <1>2, ToDeviceRest DEF ClientShape
<1> HIDE DEF r
<1>4. DeviceShape'
    <2>1. CASE Assembles(r) \/ Takes(r) \/ Passes(r)
        <3>1. fromDevice' = fromDevice
            BY <2>1 DEF Assembles, Takes, Passes
        <3> QED BY <1>2, <3>1 DEF DeviceShape
    <2>2. CASE Allocates(r) \/ Declines(r) \/ Stops(r)
        BY <1>1, <2>2, Spot
    <2> QED BY <1>1, <2>1, <2>2
<1>5. auth'.assembler \in Assemblers /\ RequestAssembler(auth'.assembler)
    BY <1>1, EmptyIsAssembler, PassingAssembles DEF Assembles, Allocates, Takes, Declines, Stops
<1>6. auth'.work \in Works
    <2>1. auth.work \in Works /\ NoWork \in Works
        BY <1>2 DEF AuthShape, Works
    <2>2. CASE Takes(r)
        <3>1. PICK channel \in Channels, unit \in RequestUnits :
                  auth'.work = [channel |-> channel, request |-> unit.request]
            BY <2>2 DEF Takes
        <3>2. unit.request \in Requests
            BY DEF RequestUnits
        <3> QED BY <3>1, <3>2 DEF Works
    <2>3. CASE ~Takes(r)
        BY <1>1, <2>1, <2>3 DEF Assembles, Allocates, Declines, Stops, Passes
    <2> QED BY <2>2, <2>3
<1>7. auth' \in [assembler : Assemblers, work : Works]
    BY <1>1, <1>5, <1>6, AuthFields
<1> QED BY <1>3, <1>4, <1>5, <1>7 DEF Shape, AuthShape

(* While a channel is allocated the answer to the client's INIT is the     *)
(* only one to its nonce, and nothing is left of the channel it names.     *)
LEMMA ReadAllocating ==
    ASSUME Shape, Allocating, Read
    PROVE  Allocating'
<1> SUFFICES ASSUME client'.state = "ALLOCATING" PROVE Allocating'
    BY DEF Allocating
<1> DEFINE r == Head(toDevice)
           nonce == client.nonce
<1>1. /\ toDevice # << >> /\ toDevice' = Tail(toDevice) /\ client' = client
      /\ HostReport(r)
      /\ \/ Assembles(r) \/ Allocates(r) \/ Takes(r) \/ Declines(r) \/ Stops(r) \/ Passes(r)
    BY ReadCases
<1>2. /\ r = toDevice[1] /\ 1 \in 1 .. Len(toDevice)
      /\ Len(toDevice) \in Nat /\ Len(toDevice') = Len(toDevice) - 1
      /\ \A i \in 1 .. Len(toDevice') :
            i + 1 \in 2 .. Len(toDevice) /\ toDevice'[i] = toDevice[i + 1]
    BY <1>1, ToDeviceRest DEF Shape
<1> HIDE DEF r
<1>3. /\ \A i \in 1 .. Len(toDevice) : Asks(toDevice[i], nonce) => i = Len(toDevice)
      /\ \A i \in 1 .. Len(fromDevice) : ~Replies(fromDevice[i], nonce)
    BY <1>1 DEF Allocating
<1>4. \A i \in 1 .. Len(toDevice') : Asks(toDevice'[i], nonce) => i = Len(toDevice')
    <2>1. ASSUME NEW i \in 1 .. Len(toDevice'), Asks(toDevice'[i], nonce)
          PROVE  i = Len(toDevice')
        <3>1. i + 1 \in 1 .. Len(toDevice) /\ Asks(toDevice[i + 1], nonce)
            BY <1>2, <2>1
        <3>2. i + 1 = Len(toDevice)
            BY <1>3, <3>1
        <3> QED BY <1>2, <3>2
    <2> QED BY <2>1
<1>5. ASSUME \A i \in 1 .. Len(fromDevice') : ~Replies(fromDevice'[i], nonce)
      PROVE  Allocating'
    BY <1>1, <1>4, <1>5 DEF Allocating
<1>6. CASE ~Allocates(r)
    <2>1. CASE Assembles(r) \/ Takes(r) \/ Passes(r)
        <3>1. fromDevice' = fromDevice
            BY <2>1 DEF Assembles, Takes, Passes
        <3> QED BY <1>3, <1>5, <3>1
    <2>2. CASE Declines(r) \/ Stops(r)
        <3>1. \E ch, w, cmd : cmd # "INIT" /\ Followed(ch, cmd, w)
            BY <1>1, <2>2, Spot
        <3>2. \A i \in 1 .. Len(fromDevice') : ~Replies(fromDevice'[i], nonce)
            BY <1>3, <3>1 DEF Followed, Replies
        <3> QED BY <1>5, <3>2
    <2> QED BY <1>1, <1>6, <2>1, <2>2
<1>7. CASE Allocates(r)
    <2>1. PICK fault \in InitFaults, c \in Channels :
             LET w == InitReply(r.data[1].nonce, c, fault)
             IN  /\ r.channel = BroadcastCid => c \notin ChannelsUnderWay
                 /\ r.channel # BroadcastCid => c = r.channel
                 /\ Len(w) = 1 => /\ w[1].nonce = r.data[1].nonce
                                  /\ w[1].channel \in {c, NoChannel}
                 /\ FragmentCount(Len(w)) = 1
                 /\ DeviceShape' /\ Followed(r.channel, "INIT", w)
        BY <1>1, <1>7, Spot
    <2> DEFINE w == InitReply(r.data[1].nonce, c, fault)
    <2>2. /\ r.channel = BroadcastCid => c \notin ChannelsUnderWay
          /\ r.channel # BroadcastCid => c = r.channel
          /\ Len(w) = 1 => w[1].nonce = r.data[1].nonce /\ w[1].channel \in {c, NoChannel}
          /\ FragmentCount(Len(w)) = 1 /\ Followed(r.channel, "INIT", w)
        BY <2>1
    <2> HIDE DEF w
    <2>3. Len(fromDevice) \in Nat
        BY LenProperties DEF Shape, DeviceShape
    <2>4. \A i \in 1 .. Len(fromDevice') :
             \/ i \in 1 .. Len(fromDevice) /\ fromDevice'[i] = fromDevice[i]
             \/ /\ i = Len(fromDevice) + 1
                /\ fromDevice'[i].command = "INIT" => fromDevice'[i].data = w
        <3> TAKE i \in 1 .. Len(fromDevice')
        <3>1. \/ i \in 1 .. Len(fromDevice) /\ fromDevice'[i] = fromDevice[i]
              \/ /\ i - Len(fromDevice) \in 1 .. FragmentCount(Len(w))
                 /\ fromDevice'[i].command = "INIT" => fromDevice'[i].data = w
            BY <2>2 DEF Followed
        <3> QED BY <2>2, <2>3, <3>1
    <2>5. CASE ~Asks(r, nonce)
        <3>1. r.data[1].nonce # nonce
            BY <1>7, <2>5 DEF Asks, Allocates
        <3>2. \A i \in 1 .. Len(fromDevice') : ~Replies(fromDevice'[i], nonce)
            BY <1>3, <2>2, <2>4, <3>1 DEF Replies
        <3> QED BY <1>5, <3>2
    <2>6. CASE Asks(r, nonce)
        <3>1. Len(toDevice') = 0 /\ toDevice' = << >>
            <4>1. 1 = Len(toDevice)
                BY <1>2, <1>3, <2>6
            <4>2. Len(toDevice') = 0
                <5> DEFINE n == Len(toDevice)
                           l == Len(toDevice')
                <5>1. n = 1 /\ l = n - 1
                    BY <1>2, <4>1
                <5> HIDE DEF n, l
                <5>2. l = 0
                    BY <5>1
                <5> QED BY <5>2 DEF l
            <4>3. HostShape'
                BY <1>1, ToDeviceRest DEF Shape
            <4> QED BY <4>2, <4>3, EmptySeq DEF HostShape
        <3>2. ~auth'.assembler.active
            BY <1>7, EmptyIsAssembler DEF Allocates
        <3>3. auth'.work.channel # c
            <4>1. c # NoChannel
                BY SomeChannels DEF ChannelsAre
            <4>2. auth.work.channel \in ChannelsUnderWay
                BY DEF ChannelsUnderWay
            <4>3. auth'.work = NoWork \/ (auth'.work = auth.work /\ auth.work.channel # r.channel)
                BY <1>7 DEF Allocates
            <4> QED BY <2>2, <4>1, <4>2, <4>3 DEF NoWork
        <3>4. ASSUME NEW i \in 1 .. Len(fromDevice'), Replies(fromDevice'[i], nonce)
              PROVE  /\ auth'.work.channel # fromDevice'[i].data[1].channel
                           \/ fromDevice'[i].data[1].channel = NoChannel
                     /\ \A j \in i + 1 .. Len(fromDevice') :
                           fromDevice'[j].channel # fromDevice'[i].data[1].channel
            <4>1. i = Len(fromDevice) + 1 /\ fromDevice'[i].data = w /\ Len(w) = 1
                BY <1>3, <2>4, <3>4 DEF Replies
            <4>2. fromDevice'[i].data[1].channel \in {c, NoChannel}
                BY <2>2, <4>1
            <4>3. ASSUME NEW j \in i + 1 .. Len(fromDevice') PROVE FALSE
                <5>1. j \in 1 .. Len(fromDevice') /\ j > Len(fromDevice) + 1
                    BY <2>3, <4>1
                <5> QED BY <2>3, <2>4, <5>1
            <4> QED BY <3>3, <4>2, <4>3
        <3> QED BY <1>1, <3>1, <3>2, <3>4 DEF Allocating
    <2> QED BY <2>5, <2>6
<1> QED BY <1>6, <1>7

(* A client that waits gets one answer; an idle one is left alone.         *)
LEMMA ReadTalks ==
    ASSUME TransactionInv, Read, Talking
    PROVE  OneRequest' /\ CurrentRequest' /\ Waiting'
<1> DEFINE r == Head(toDevice)
           ch == client.channel
<1>1. /\ toDevice # << >> /\ toDevice' = Tail(toDevice)
      /\ client' = client /\ current' = current /\ HostReport(r)
      /\ \/ Assembles(r) \/ Allocates(r) \/ Takes(r) \/ Declines(r) \/ Stops(r) \/ Passes(r)
    BY ReadCases DEF TransactionInv
<1>2. /\ HostShape /\ DeviceShape /\ AuthShape
    BY DEF TransactionInv, Shape
<1>3. /\ r = toDevice[1] /\ 1 \in 1 .. Len(toDevice)
      /\ Len(toDevice) \in Nat /\ Len(toDevice') = Len(toDevice) - 1
      /\ \A i \in 1 .. Len(toDevice') :
            i + 1 \in 2 .. Len(toDevice) /\ toDevice'[i] = toDevice[i + 1]
    BY <1>1, <1>2, ToDeviceRest
<1>4. /\ ch \in Channels
      /\ \A i \in 1 .. Len(toDevice) : toDevice[i].channel = ch /\ toDevice[i].command # "INIT"
      /\ auth.assembler.active => /\ auth.assembler.channel = ch
                                  /\ \A i \in 1 .. Len(toDevice) : ~CborInit(toDevice[i])
      /\ \A i, j \in 1 .. Len(toDevice) : CborInit(toDevice[i]) /\ CborInit(toDevice[j]) => i = j
      /\ client.state = "IDLE" => Silent /\ ~Asking
    BY DEF TransactionInv, OneRequest
<1> HIDE DEF r
<1>5. ch # NoChannel /\ ch # BroadcastCid
    BY <1>4, SomeChannels DEF ChannelsAre
<1>6. r.channel = ch /\ r.command # "INIT"
    BY <1>3, <1>4
<1>7. Assembles(r) \/ Takes(r) \/ Declines(r) \/ Stops(r)
    BY <1>1, <1>6, PassingAssembles DEF Allocates
<1>8. \A i \in 1 .. Len(toDevice') : /\ toDevice'[i].channel = ch /\ toDevice'[i].command # "INIT"
                                     /\ i + 1 \in 2 .. Len(toDevice)
                                     /\ toDevice'[i] = toDevice[i + 1]
    <2> TAKE i \in 1 .. Len(toDevice')
    <2>1. i + 1 \in 1 .. Len(toDevice)
        BY <1>3
    <2> QED BY <1>3, <1>4, <2>1
<1>9. \A i, j \in 1 .. Len(toDevice') :
         CborInit(toDevice'[i]) /\ CborInit(toDevice'[j]) => i = j
    <2> SUFFICES ASSUME NEW i \in 1 .. Len(toDevice'), NEW j \in 1 .. Len(toDevice'),
                        CborInit(toDevice'[i]), CborInit(toDevice'[j])
                 PROVE  i = j
        OBVIOUS
    <2>1. /\ i + 1 \in 1 .. Len(toDevice) /\ CborInit(toDevice[i + 1])
          /\ j + 1 \in 1 .. Len(toDevice) /\ CborInit(toDevice[j + 1])
        BY <1>3
    <2>2. i + 1 = j + 1
        BY <1>4, <2>1
    <2> QED BY <2>2
(* What begins or goes on with a request is the client's, and the only one. *)
<1>10. ASSUME NEW channel, NEW unit, Begins(r, auth.assembler, channel, unit)
       PROVE  /\ channel = ch /\ Asking
              /\ \A i \in 1 .. Len(toDevice') : ~CborInit(toDevice'[i])
              /\ client.state = "WAITING" => unit.request = current
    <2>1. CASE CborInit(r) /\ channel = r.channel /\ unit = r.data[1]
        <3>1. ASSUME NEW i \in 1 .. Len(toDevice'), CborInit(toDevice'[i]) PROVE FALSE
            <4>1. i + 1 \in 1 .. Len(toDevice) /\ CborInit(toDevice[i + 1]) /\ i + 1 # 1
                BY <1>3, <3>1
            <4> QED BY <1>3, <1>4, <2>1, <4>1
        <3>2. Asking
            BY <1>3, <2>1 DEF Asking
        <3>3. client.state = "WAITING" => unit.request = current
            BY <1>3, <2>1 DEF TransactionInv, CurrentRequest
        <3> QED BY <1>6, <2>1, <3>1, <3>2, <3>3
    <2>2. CASE ~r.init /\ auth.assembler.active /\ channel = auth.assembler.channel
               /\ unit = auth.assembler.data[1]
        <3>1. ASSUME NEW i \in 1 .. Len(toDevice'), CborInit(toDevice'[i]) PROVE FALSE
            <4>1. i + 1 \in 1 .. Len(toDevice) /\ CborInit(toDevice[i + 1])
                BY <1>3, <3>1
            <4> QED BY <1>4, <2>2, <4>1
        <3>2. client.state = "WAITING" => unit.request = current
            BY <2>2 DEF TransactionInv, CurrentRequest
        <3> QED BY <1>4, <2>2, <3>1, <3>2 DEF Asking
    <2> QED BY <1>10, <2>1, <2>2 DEF Begins
<1>11. ASSUME NEW i \in 1 .. Len(toDevice'), CborInit(toDevice'[i])
       PROVE  Asking /\ (client.state = "WAITING" => toDevice'[i].data[1].request = current)
    <2>1. i + 1 \in 1 .. Len(toDevice) /\ CborInit(toDevice[i + 1]) /\ toDevice'[i] = toDevice[i + 1]
        BY <1>3, <1>11
    <2> QED BY <2>1 DEF Asking, TransactionInv, CurrentRequest
(* A client that waits: the next stage of its request.                     *)
<1>12. CASE Assembles(r)
    <2>1. /\ auth'.work = auth.work /\ fromDevice' = fromDevice
          /\ auth'.assembler.active =>
                Begins(r, auth.assembler, auth'.assembler.channel, auth'.assembler.data[1])
        BY <1>12 DEF Assembles
    <2>2. Asking' => Asking
        BY <1>10, <1>11, <2>1 DEF Asking
    <2>3. Silent' = Silent /\ Answers' = Answers /\ \A m, k : Answering(m, k)' = Answering(m, k)
        BY <1>1, <2>1 DEF Silent, Answers, Errors, AnswersTo, Answering
    <2>4. OneRequest'
        BY <1>1, <1>4, <1>8, <1>9, <1>10, <2>1, <2>2, <2>3 DEF OneRequest
    <2>5. CurrentRequest'
        BY <1>1, <1>10, <1>11, <2>1 DEF TransactionInv, CurrentRequest
    <2>6. Waiting'
        <3> SUFFICES ASSUME client.state \in {"WAITING", "CANCELING"}, ~(Asking' /\ Silent')
                     PROVE  Waiting'
            BY <1>1 DEF Waiting
        <3>1. CASE Asking /\ Silent
            <4> DEFINE m == [command |-> "ERROR", data |-> << [kind |-> "error", code |-> "BUSY"] >>]
            <4>1. m \in Answers
                BY DEF Answers, Errors, ErrorUnits
            <4>2. m.data \in Seq(DeviceUnits)
                BY OneByte DEF DeviceUnits, ErrorUnits
            <4>3. 0 \in 0 .. FragmentCount(Len(m.data))
                <5> HIDE DEF m
                <5> QED BY <4>2, CountSome, LenProperties
            <4> HIDE DEF m
            <4>4. Answering(m, 0)
                BY <3>1 DEF Answering, Silent
            <4>5. ~Asking' /\ auth'.work.channel # ch
                BY <2>1, <2>3, <3>1 DEF Silent
            <4> QED BY <1>1, <2>3, <4>1, <4>3, <4>4, <4>5 DEF Waiting
        <3>2. CASE ~(Asking /\ Silent)
            BY <1>1, <2>1, <2>2, <2>3, <3>2 DEF TransactionInv, Waiting
        <3> QED BY <3>1, <3>2
    <2> QED BY <2>4, <2>5, <2>6
<1>13. CASE Takes(r)
    <2>1. PICK channel \in Channels, unit \in RequestUnits :
              /\ Begins(r, auth.assembler, channel, unit)
              /\ auth'.assembler = EmptyAssembler
              /\ auth.work = NoWork /\ fromDevice' = fromDevice
              /\ auth'.work = [channel |-> channel, request |-> unit.request]
        BY <1>13 DEF Takes
    <2>2. /\ channel = ch /\ Asking /\ ~auth'.assembler.active
          /\ \A i \in 1 .. Len(toDevice') : ~CborInit(toDevice'[i])
          /\ client.state = "WAITING" => unit.request = current
        BY <1>10, <2>1, EmptyIsAssembler
    <2>3. auth'.work.channel = ch /\ auth'.work.request = unit.request /\ ~Asking'
        BY <2>1, <2>2 DEF Asking
    <2>4. client.state \in {"WAITING", "CANCELING"} /\ Silent
        BY <1>4, <2>2 DEF Talking, TransactionInv, Waiting
    <2>5. OneRequest' /\ CurrentRequest'
        BY <1>1, <1>4, <1>8, <1>9, <2>2, <2>3, <2>4
           DEF OneRequest, TransactionInv, CurrentRequest
    <2>6. Waiting'
        BY <1>1, <2>1, <2>3, <2>4 DEF Waiting, Silent
    <2> QED BY <2>5, <2>6
<1>14. CASE Declines(r)
    <2> DEFINE u == [kind |-> "error", code |-> "BUSY"]
               w == << u >>
               m == [command |-> "ERROR", data |-> w]
    <2>1. PICK channel \in Channels, unit \in RequestUnits :
              /\ Begins(r, auth.assembler, channel, unit)
              /\ auth'.assembler = EmptyAssembler /\ auth'.work = auth.work
              /\ Send(channel, "ERROR", w)
        BY <1>14 DEF Declines
    <2>2. /\ channel = ch /\ Asking /\ ~auth'.assembler.active
          /\ \A i \in 1 .. Len(toDevice') : ~CborInit(toDevice'[i])
        BY <1>10, <2>1, EmptyIsAssembler
    <2>3. client.state \in {"WAITING", "CANCELING"} /\ Silent /\ ~Asking'
        BY <1>4, <2>2 DEF Talking, TransactionInv, Waiting, Asking
    <2>4. u \in ErrorUnits
        BY DEF ErrorUnits
    <2> HIDE DEF u
    <2>5. DeviceMessage("ERROR", w) /\ m \in Errors
        BY <2>4, Messages DEF Errors
    <2> HIDE DEF w
    <2>6. Answering(m, 0)' /\ 0 \in 0 .. FragmentCount(Len(m.data))
        BY <1>1, <1>2, <1>4, <2>1, <2>2, <2>3, <2>5, AnswerBegins DEF Silent
    <2> HIDE DEF m
    <2>7. m \in Answers'
        BY <2>5 DEF Answers, Errors
    <2>8. OneRequest' /\ CurrentRequest'
        BY <1>1, <1>4, <1>8, <1>9, <2>1, <2>2, <2>3
           DEF OneRequest, TransactionInv, CurrentRequest
    <2>9. Waiting'
        BY <1>1, <2>1, <2>3, <2>6, <2>7 DEF Waiting, Silent
    <2> QED BY <2>8, <2>9
<1>15. CASE Stops(r)
    <2>1. auth.work.request \in Requests
        BY <1>2, <1>5, <1>6, <1>15, WorkIs DEF Stops, NoWork
    <2>2. PICK q \in Requests : q = auth.work.request
        BY <2>1
    <2> DEFINE w == Answer(q, 1)
               m == [command |-> "CBOR", data |-> w]
    <2>3. /\ r.command = "CANCEL" /\ auth'.assembler = EmptyAssembler
          /\ auth.work.channel = ch /\ auth'.work = NoWork /\ Send(ch, "CBOR", w)
        BY <1>6, <1>15, <2>2 DEF Stops
    <2>4. auth'.work.channel = NoChannel
        BY <2>3 DEF NoWork
    <2>5. ~Silent /\ client.state \in {"WAITING", "CANCELING"}
        BY <1>4, <2>3 DEF Talking, Silent
    <2>6. /\ ~Asking /\ ~client.assembler.active
          /\ \A i \in 1 .. Len(fromDevice) : fromDevice[i].channel = client.channel =>
                fromDevice[i].command = "KEEPALIVE"
        BY <2>3, <2>5 DEF TransactionInv, Waiting
    <2>7. ~auth'.assembler.active /\ ~Asking'
        BY <1>11, <2>3, <2>6, EmptyIsAssembler DEF Asking
    <2>8. DeviceMessage("CBOR", w)
        BY Messages
    <2>9. m \in Answers'
        <3>1. client.state = "WAITING" => q = current
            BY <2>3, <2>2 DEF TransactionInv, CurrentRequest
        <3>2. m \in AnswersTo(q)
            BY DEF AnswersTo
        <3>3. Answers' = Errors \cup (IF client.state = "WAITING" THEN AnswersTo(current)
                                      ELSE UNION {AnswersTo(x) : x \in Requests})
            BY <1>1 DEF Answers, Errors, AnswersTo
        <3> HIDE DEF m
        <3> QED BY <3>1, <3>2, <3>3
    <2> HIDE DEF w
    <2>10. Answering(m, 0)' /\ 0 \in 0 .. FragmentCount(Len(m.data))
        BY <1>1, <1>2, <1>4, <2>3, <2>6, <2>8, AnswerBegins
    <2> HIDE DEF m
    <2>11. OneRequest' /\ CurrentRequest'
        BY <1>1, <1>4, <1>5, <1>8, <1>9, <1>11, <2>4, <2>5, <2>7
           DEF OneRequest, TransactionInv, CurrentRequest
    <2>12. Waiting'
        BY <1>1, <1>5, <2>4, <2>7, <2>9, <2>10 DEF Waiting
    <2> QED BY <2>11, <2>12
<1> QED BY <1>7, <1>12, <1>13, <1>14, <1>15

LEMMA ReadKeeps ==
    ASSUME TransactionInv, Read
    PROVE  TransactionInv' /\ outcome'.event # "RESPONSE"
<1>1. client' = client /\ outcome'.event # "RESPONSE"
    BY ReadCases DEF TransactionInv
<1>2. Shape' /\ Allocating'
    BY ReadShapes, ReadAllocating DEF TransactionInv
<1>3. CASE Talking
    BY <1>1, <1>2, <1>3, ReadTalks DEF TransactionInv
<1>4. CASE ~Talking
    BY <1>1, <1>2, <1>4 DEF TransactionInv, Talking, OneRequest, CurrentRequest, Waiting
<1> QED BY <1>3, <1>4

------------------------------------------------------------------------------
(* What the client is fed                                                  *)

(* A report that an assembler accepts.                                     *)
LEMMA FeedAccepts ==
    ASSUME NEW r, NEW a, DOMAIN a = AssemblerFields, Feed(a, r).result = "OK"
    PROVE  \/ /\ r.init /\ ~a.active /\ ~(r.size > MessageMax)
              /\ Feed(a, r) = FinishIfComplete(
                   [active |-> TRUE, channel |-> r.channel, command |-> r.command,
                    expected_size |-> r.size, next_sequence |-> 0,
                    data |-> Chunk(r.data, Smaller(r.size, InitDataSize))])
           \/ /\ ~r.init /\ a.active /\ r.sequence = a.next_sequence
              /\ \E b : /\ b.command = a.command /\ DOMAIN b = AssemblerFields
                        /\ Feed(a, r) = FinishIfComplete(b)
<1>1. \A x, result : result # "OK" => Fed(x, result, FALSE, NoMessage).result # "OK"
    BY DEF Fed
<1>2. CASE r.init
    BY <1>1, <1>2 DEF Feed, FeedInit
<1>3. CASE ~r.init
    <2> DEFINE data == a.data \o Chunk(r.data, Smaller(a.expected_size - Len(a.data), ContDataSize))
               next == a.next_sequence + 1
               b == [a EXCEPT !.data = data, !.next_sequence = next]
    <2>1. /\ a.active /\ r.sequence = a.next_sequence
          /\ Feed(a, r) = FinishIfComplete(b)
        BY <1>1, <1>3 DEF Feed, FeedCont
    <2> HIDE DEF data, next
    <2>2. b.command = a.command /\ DOMAIN b = AssemblerFields
        BY DEF AssemblerFields
    <2> HIDE DEF b
    <2> QED BY <1>3, <2>1, <2>2
<1> QED BY <1>2, <1>3

(* What an assembler that holds no INIT reply makes of a device's report.  *)
LEMMA DeviceFed ==
    ASSUME NEW r \in ReportsOf(DeviceUnits), DeviceReport(r), NEW a,
           DOMAIN a = AssemblerFields, a.active => a.command # "INIT",
           Feed(a, r).result = "OK"
    PROVE  LET fed == Feed(a, r)
           IN  /\ DOMAIN fed.assembler = AssemblerFields
               /\ fed.assembler.active => fed.assembler.command # "INIT"
               /\ fed.complete => ~fed.assembler.active
               /\ fed.complete /\ fed.message.command = "INIT" =>
                     /\ r.command = "INIT" /\ Len(fed.message.data) = Len(r.data)
                     /\ Len(r.data) = 1 => fed.message.data[1] = r.data[1]
               /\ r.command = "KEEPALIVE" =>
                     fed.complete /\ fed.message.command = "KEEPALIVE"
<1> DEFINE fed == Feed(a, r)
           n == Smaller(r.size, InitDataSize)
           chunk == Chunk(r.data, n)
           c == [active |-> TRUE, channel |-> r.channel, command |-> r.command,
                 expected_size |-> r.size, next_sequence |-> 0, data |-> chunk]
<1>1. \/ r.init /\ ~a.active /\ fed = FinishIfComplete(c)
      \/ /\ ~r.init /\ a.active
         /\ \E b : b.command = a.command /\ DOMAIN b = AssemblerFields /\ fed = FinishIfComplete(b)
    BY FeedAccepts
<1>2. r.size \in Nat /\ r.data \in Seq(DeviceUnits) /\ Len(r.data) \in Nat
    BY LenProperties DEF ReportsOf
<1>3. n \in Nat /\ (r.size <= 1 => n = r.size)
    BY <1>2, FramingAssumption DEF Smaller
<1> HIDE DEF n
<1>4. Len(chunk) = n /\ (n > 0 /\ Len(r.data) > 0 => chunk[1] = r.data[1])
    <2> DEFINE bytes == r.data
    <2>1. bytes \in Seq(DeviceUnits) /\ n \in Int
        BY <1>2, <1>3
    <2> HIDE DEF bytes
    <2>2. /\ n \in Nat => Len(Chunk(bytes, n)) = n
          /\ n > 0 /\ Len(bytes) > 0 => Chunk(bytes, n)[1] = bytes[1]
        BY <2>1, ChunkIs
    <2> QED BY <1>3, <2>2 DEF bytes
<1> HIDE DEF chunk, fed
<1>5. /\ DOMAIN c = AssemblerFields /\ c.active /\ c.command = r.command
      /\ c.expected_size = r.size /\ c.data = chunk
    BY DEF AssemblerFields
<1> HIDE DEF c
<1>6. CASE r.init /\ ~a.active /\ fed = FinishIfComplete(c)
    <2>1. \/ /\ Len(chunk) # r.size /\ ~fed.complete /\ fed.assembler = c
          \/ /\ fed.complete /\ fed.assembler = EmptyAssembler
             /\ fed.message = [channel |-> c.channel, command |-> r.command, data |-> chunk]
        <3> DEFINE x == FinishIfComplete(c)
        <3>1. /\ x.result = "OK"
              /\ \/ /\ Len(c.data) # c.expected_size
                    /\ ~x.complete /\ x.assembler = c
                 \/ /\ Len(c.data) = c.expected_size
                    /\ x.complete /\ x.assembler = EmptyAssembler
                    /\ x.message = [channel |-> c.channel, command |-> c.command,
                                    data |-> c.data]
            BY FinishCases
        <3> HIDE DEF x
        <3> QED BY <1>5, <1>6, <3>1 DEF x
    <2>2. r.command \in {"INIT", "KEEPALIVE"} => r.size <= 1 /\ r.size = Len(r.data)
        <3> DEFINE l == Len(r.data)
                   size == r.size
        <3>1. /\ r.command = "INIT" => size = l /\ l <= 1
              /\ r.command = "KEEPALIVE" => size = 1 /\ l = 1
            BY DEF DeviceReport
        <3> HIDE DEF l, size
        <3>2. r.command \in {"INIT", "KEEPALIVE"} => size <= 1 /\ size = l
            BY <3>1
        <3> QED BY <3>2 DEF l, size
    <2>3. r.command \in {"INIT", "KEEPALIVE"} => Len(chunk) = r.size
        BY <1>3, <1>4, <2>2
    <2>4. fed.complete => /\ fed.message.command = r.command /\ fed.message.data = chunk
                          /\ fed.assembler = EmptyAssembler
        BY <2>1
    <2>5. ~fed.complete => fed.assembler = c /\ r.command \notin {"INIT", "KEEPALIVE"}
        BY <2>1, <2>3
    <2>6. r.command = "INIT" /\ Len(r.data) = 1 => chunk[1] = r.data[1]
        <3>1. r.command = "INIT" /\ Len(r.data) = 1 => n > 0 /\ Len(r.data) > 0
            BY <1>2, <1>3, <2>2
        <3> QED BY <1>4, <3>1
    <2>7. r.command = "INIT" => Len(chunk) = Len(r.data)
        BY <2>2, <2>3
    <2> QED BY <1>5, <2>4, <2>5, <2>6, <2>7, EmptyIsAssembler DEF fed
<1>7. CASE /\ ~r.init /\ a.active
           /\ \E b : b.command = a.command /\ DOMAIN b = AssemblerFields /\ fed = FinishIfComplete(b)
    <2>1. PICK b : b.command = a.command /\ DOMAIN b = AssemblerFields /\ fed = FinishIfComplete(b)
        BY <1>7
    <2>2. \/ /\ ~fed.complete /\ fed.assembler = b
          \/ /\ fed.complete /\ fed.assembler = EmptyAssembler
             /\ fed.message = [channel |-> b.channel, command |-> b.command, data |-> b.data]
        <3> DEFINE x == FinishIfComplete(b)
        <3>1. /\ x.result = "OK"
              /\ \/ /\ Len(b.data) # b.expected_size
                    /\ ~x.complete /\ x.assembler = b
                 \/ /\ Len(b.data) = b.expected_size
                    /\ x.complete /\ x.assembler = EmptyAssembler
                    /\ x.message = [channel |-> b.channel, command |-> b.command,
                                    data |-> b.data]
            BY FinishCases
        <3> HIDE DEF x
        <3> QED BY <2>1, <3>1 DEF x
    <2>3. fed.complete => fed.message.command # "INIT"
        BY <1>7, <2>1, <2>2
    <2>4. r.command = "NONE"
        BY <1>7 DEF DeviceReport
    <2> QED BY <1>7, <2>1, <2>2, <2>3, <2>4, EmptyIsAssembler DEF fed
<1> QED BY <1>1, <1>6, <1>7

(* What the authenticator ends a request with is a message.                *)
LEMMA AnswersAre ==
    ASSUME CurrentRequest, NEW m \in Answers
    PROVE  /\ DeviceMessage(m.command, m.data) /\ m.command \in {"ERROR", "CBOR"}
           /\ client.state = "WAITING" /\ m.command = "CBOR" =>
                 \E n \in Nat \ {0} : m.data = Answer(current, n) /\ Len(m.data) = n
<1>1. CASE m \in Errors
    <2>1. PICK u \in ErrorUnits : m = [command |-> "ERROR", data |-> << u >>]
        BY <1>1 DEF Errors
    <2>2. m.command = "ERROR" /\ m.data = << u >>
        BY <2>1
    <2> QED BY <2>2, Messages
<1>2. CASE m \notin Errors
    <2>1. PICK q \in Requests : m \in AnswersTo(q) /\ (client.state = "WAITING" => q = current)
        BY <1>2 DEF Answers, CurrentRequest
    <2>2. PICK n \in AnswerSizes \cup {1} : m = [command |-> "CBOR", data |-> Answer(q, n)]
        BY <2>1 DEF AnswersTo
    <2>3. DeviceMessage("CBOR", Answer(q, n)) /\ Len(Answer(q, n)) = n /\ n \in Nat \ {0}
        BY Messages
    <2>4. m.command = "CBOR" /\ m.data = Answer(q, n)
        BY <2>2
    <2> QED BY <2>1, <2>3, <2>4
<1> QED BY <1>1, <1>2

(* Of an answer the client takes the next report only, in order.           *)
LEMMA NextPiece ==
    ASSUME NEW ch, ch # NoChannel, NEW cmd \in {"ERROR", "CBOR"}, NEW w,
           DeviceMessage(cmd, w), NEW a, DOMAIN a = AssemblerFields,
           NEW k \in Nat, NEW i \in k + 1 .. FragmentCount(Len(w)),
           k = 0 => ~a.active,
           k > 0 => Holding(a, ch, cmd, w, k) /\ Got(w, k) < Len(w),
           Feed(a, Piece(ch, cmd, w, i)).result = "OK"
    PROVE  LET fed == Feed(a, Piece(ch, cmd, w, i))
           IN  /\ i = k + 1
               /\ \/ /\ Got(w, k + 1) < Len(w) /\ ~fed.complete
                     /\ Holding(fed.assembler, ch, cmd, w, k + 1)
                  \/ /\ k + 1 = FragmentCount(Len(w)) /\ Whole(fed, ch, cmd, w)
<1> DEFINE r == Piece(ch, cmd, w, i)
           fed == Feed(a, r)
<1>1. w \in Seq(DeviceUnits) /\ Len(w) \in Nat /\ FragmentCount(Len(w)) \in Nat
    BY LenProperties, CountSome DEF DeviceMessage
<1>2. i \in Nat \ {0} /\ i >= k + 1 /\ i <= FragmentCount(Len(w)) /\ k + 1 \in Nat \ {0}
    BY <1>1
<1>3. /\ i = 1 => r.init /\ r.size = Len(w)
      /\ i # 1 => ~r.init /\ r.sequence = i - 2
    BY <1>2, PieceFields
<1>4. \/ r.init /\ ~a.active /\ ~(r.size > MessageMax)
      \/ ~r.init /\ a.active /\ r.sequence = a.next_sequence
    <2> HIDE DEF r
    <2> QED BY FeedAccepts DEF r
<1>5. i = k + 1
    <2>1. CASE k = 0
        <3>1. ~a.active
            BY <2>1
        <3>2. r.init
            BY <1>4, <3>1
        <3>3. i = 1
            BY <1>3, <3>2
        <3> QED BY <2>1, <3>3
    <2>2. CASE k > 0
        <3>1. a.active /\ a.next_sequence = k - 1
            BY <2>2 DEF Holding
        <3>2. ~r.init /\ r.sequence = k - 1
            BY <1>4, <3>1
        <3>3. i # 1
            BY <1>3, <3>2
        <3>4. i - 2 = k - 1
            BY <1>3, <3>2, <3>3
        <3> QED BY <1>2, <3>4
    <2> QED BY <2>1, <2>2
<1>6. \E b : Holding(b, ch, cmd, w, k + 1) /\ fed = FinishIfComplete(b)
    <2>1. CASE k = 0
        <3>1. ~a.active /\ i = 1
            BY <1>5, <2>1
        <3>2. Len(w) <= MessageMax
            BY <1>1, <1>3, <1>4, <3>1, MessageLimit
        <3>3. \E b : Holding(b, ch, cmd, w, 1) /\ Feed(a, Piece(ch, cmd, w, 1)) = FinishIfComplete(b)
            BY <1>1, <3>1, <3>2, FirstFed
        <3>4. k + 1 = 1
            BY <2>1
        <3> QED BY <3>1, <3>3, <3>4
    <2>2. CASE k > 0
        <3>1. Holding(a, ch, cmd, w, k) /\ Got(w, k) < Len(w)
            BY <2>2
        <3>2. w \in Seq(DeviceUnits)
            BY <1>1
        <3>3. GoesOn(a, ch, cmd, w, k + 1)
            BY <2>2, <3>1, <3>2, ContinuationFed
        <3> QED BY <1>5, <3>3 DEF GoesOn
    <2> QED BY <2>1, <2>2
<1>7. PICK b : Holding(b, ch, cmd, w, k + 1) /\ fed = FinishIfComplete(b)
    BY <1>6
<1> HIDE DEF fed
<1> DEFINE l == k + 1
           done == FinishIfComplete(b)
<1>8. l \in Nat \ {0} /\ l <= FragmentCount(Len(w)) /\ Holding(b, ch, cmd, w, l)
    BY <1>2, <1>5, <1>7
<1> HIDE DEF l
<1>9. IF Got(w, l) < Len(w) THEN Goes(done) /\ done.assembler = b ELSE Whole(done, ch, cmd, w)
    BY <1>1, <1>8, FinishIs
<1>10. ~(Got(w, l) < Len(w)) => l = FragmentCount(Len(w))
    BY <1>1, <1>8, LastPiece
<1>11. \/ Got(w, l) < Len(w) /\ ~fed.complete /\ Holding(fed.assembler, ch, cmd, w, l)
       \/ l = FragmentCount(Len(w)) /\ Whole(fed, ch, cmd, w)
    <2>1. fed = done
        BY <1>7
    <2> HIDE DEF done
    <2> QED BY <1>8, <1>9, <1>10, <2>1 DEF Goes
<1> QED BY <1>5, <1>11 DEF fed, l

------------------------------------------------------------------------------
(* What the client does with a report                                      *)

(* The first report on the way to the client is taken.                     *)
Taking ==
    /\ HostShape' /\ DeviceShape' /\ AuthShape'
    /\ Len(fromDevice') \in Nat /\ Len(fromDevice) \in Nat
    /\ \A i \in 1 .. Len(fromDevice') : /\ i + 1 \in 1 .. Len(fromDevice)
                                        /\ fromDevice'[i] = fromDevice[i + 1]
    /\ Len(fromDevice') + 1 = Len(fromDevice)
    /\ 1 \in 1 .. Len(fromDevice)
    /\ toDevice' = toDevice /\ auth' = auth /\ current' = current

LEMMA DeliverTakes ==
    ASSUME TransactionInv, Deliver
    PROVE  /\ Taking
           /\ \E r : /\ r = fromDevice[1] /\ r \in ReportsOf(DeviceUnits) /\ DeviceReport(r)
                     /\ client' = ClientFeed(client, r).client
                     /\ outcome' = Outcome(ClientFeed(client, r))
<1>1. /\ fromDevice # << >> /\ fromDevice' = Tail(fromDevice)
      /\ UNCHANGED << toDevice, auth, current >>
      /\ client' = ClientFeed(client, Head(fromDevice)).client
      /\ outcome' = Outcome(ClientFeed(client, Head(fromDevice)))
    BY DEF Deliver, Apply
<1>2. Shape /\ DeviceShape
    BY DEF TransactionInv, Shape
<1>3. /\ DeviceShape'
      /\ Len(fromDevice') \in Nat /\ Len(fromDevice) \in Nat
      /\ \A i \in 1 .. Len(fromDevice') : /\ i + 1 \in 1 .. Len(fromDevice)
                                          /\ fromDevice'[i] = fromDevice[i + 1]
      /\ Len(fromDevice') + 1 = Len(fromDevice)
      /\ Head(fromDevice) = fromDevice[1] /\ 1 \in 1 .. Len(fromDevice)
    BY <1>1, <1>2, TailPasses
<1>4. HostShape' /\ AuthShape'
    BY <1>1, <1>2 DEF Shape, HostShape, AuthShape
<1>5. fromDevice[1] \in ReportsOf(DeviceUnits) /\ DeviceReport(fromDevice[1])
    BY <1>2, <1>3, ElementOfSeq DEF DeviceShape
<1>6. Taking
    BY <1>1, <1>3, <1>4 DEF Taking
<1> QED BY <1>1, <1>3, <1>5, <1>6

(* A report that leaves the client where it was.                           *)
LEMMA StayingKeeps ==
    ASSUME TransactionInv, Taking, IsClient(client'),
           client'.state = client.state, client'.channel = client.channel,
           client'.nonce = client.nonce, client'.max_message_size \in Nat,
           DOMAIN client'.assembler = AssemblerFields,
           client'.assembler.active => client'.assembler.command # "INIT",
           \/ client'.assembler = client.assembler
           \/ ~client'.assembler.active /\ ~client.assembler.active
           \/ client.state = "ALLOCATING"
    PROVE  TransactionInv'
<1>1. Passing(1) /\ DeviceShape'
    BY DEF Taking, Passing
<1>2. client.channel \in Channels \cup {NoChannel}
    BY DEF TransactionInv, Shape, ClientShape
<1>3. ClientShape'
    BY <1>2 DEF ClientShape
<1> QED BY <1>1, <1>3, PassingKeeps

(* The answer to INIT is the last that concerns the channel it names.      *)
LEMMA AllocatedKeeps ==
    ASSUME TransactionInv, Taking, client.state = "ALLOCATING",
           DeviceReport(fromDevice[1]),
           fromDevice[1].command = "INIT", Len(fromDevice[1].data) = 1,
           fromDevice[1].data[1].nonce = client.nonce,
           fromDevice[1].data[1].channel # NoChannel,
           IsClient(client'), client'.state = "IDLE",
           client'.channel = fromDevice[1].data[1].channel,
           client'.max_message_size \in Nat,
           DOMAIN client'.assembler = AssemblerFields, ~client'.assembler.active
    PROVE  TransactionInv'
<1>1. fromDevice[1].data[1] \in ReplyUnits
    BY DEF DeviceReport
<1>2. client'.channel \in Channels
    BY <1>1 DEF ReplyUnits
<1>3. Shape'
    BY <1>2 DEF Taking, Shape, ClientShape
<1>4. /\ toDevice = << >> /\ ~auth.assembler.active
      /\ auth.work.channel # client'.channel
      /\ \A j \in 2 .. Len(fromDevice) : fromDevice[j].channel # client'.channel
    <2>1. Replies(fromDevice[1], client.nonce) /\ 1 \in 1 .. Len(fromDevice) /\ 1 + 1 = 2
        BY DEF Replies, Taking
    <2>2. /\ toDevice = << >> /\ ~auth.assembler.active
          /\ auth.work.channel # fromDevice[1].data[1].channel
                \/ fromDevice[1].data[1].channel = NoChannel
          /\ \A j \in 1 + 1 .. Len(fromDevice) :
                fromDevice[j].channel # fromDevice[1].data[1].channel
        BY <2>1 DEF TransactionInv, Allocating
    <2> QED BY <2>1, <2>2
<1>5. \A i \in 1 .. Len(fromDevice') : fromDevice'[i].channel # client'.channel
    BY <1>4 DEF Taking
<1>6. Silent'
    BY <1>4, <1>5 DEF Silent, Taking
<1>7. Len(toDevice') = 0
    BY <1>4 DEF Taking
<1>8. \A i \in 1 .. Len(toDevice') : FALSE
    BY <1>7
<1>9. ~auth'.assembler.active
    BY <1>4 DEF Taking
<1>10. ~Asking'
    BY <1>8, <1>9 DEF Asking
<1>11. OneRequest'
    BY <1>2, <1>6, <1>8, <1>9, <1>10 DEF OneRequest
<1> QED BY <1>3, <1>11 DEF TransactionInv, Allocating, CurrentRequest, Waiting

(* The last report of an answer leaves nothing behind.                     *)
LEMMA AnsweredKeeps ==
    ASSUME TransactionInv, Taking, client.state \in {"WAITING", "CANCELING"},
           ~Asking, auth.work.channel # client.channel,
           NEW m, NEW k \in Nat, Answering(m, k),
           fromDevice[1].channel = client.channel,
           Rank(fromDevice[1]) = FragmentCount(Len(m.data)),
           FragmentCount(Len(m.data)) \in Nat \ {0},
           IsClient(client'), client'.state = "IDLE", client'.channel = client.channel,
           client'.max_message_size \in Nat,
           DOMAIN client'.assembler = AssemblerFields, ~client'.assembler.active
    PROVE  TransactionInv'
<1>1. client.channel \in Channels
    BY DEF TransactionInv, OneRequest, Talking
<1>2. Shape'
    BY <1>1 DEF Taking, Shape, ClientShape
<1>3. \A j \in 2 .. Len(fromDevice) : fromDevice[j].channel # client.channel
    <2> SUFFICES ASSUME NEW j \in 2 .. Len(fromDevice), fromDevice[j].channel = client.channel
                 PROVE  FALSE
        OBVIOUS
    <2> DEFINE n == FragmentCount(Len(m.data))
    <2>1. 1 \in 1 .. Len(fromDevice) /\ j \in 1 + 1 .. Len(fromDevice) /\ j \in 1 .. Len(fromDevice)
        BY DEF Taking
    <2>2. n < Rank(fromDevice[j])
        BY <2>1 DEF Answering
    <2>3. Rank(fromDevice[j]) = 0 \/ Rank(fromDevice[j]) \in k + 1 .. n
        BY <2>1 DEF Answering
    <2>4. n \in Nat \ {0}
        OBVIOUS
    <2> HIDE DEF n
    <2> QED BY <2>2, <2>3, <2>4
<1>4. \A i \in 1 .. Len(fromDevice') : fromDevice'[i].channel # client'.channel
    BY <1>3 DEF Taking
<1>5. Silent'
    BY <1>4 DEF Silent, Taking
<1>6. ~Asking' /\ ~auth'.assembler.active
    BY DEF Asking, Taking
<1>7. /\ client.channel \in Channels
      /\ \A i \in 1 .. Len(toDevice) : /\ toDevice[i].channel = client.channel
                                       /\ toDevice[i].command # "INIT"
      /\ \A i, j \in 1 .. Len(toDevice) :
            CborInit(toDevice[i]) /\ CborInit(toDevice[j]) => i = j
    BY DEF TransactionInv, OneRequest, Talking
<1>8. OneRequest'
    BY <1>5, <1>6, <1>7 DEF OneRequest, Taking
<1> QED BY <1>2, <1>8 DEF TransactionInv, Allocating, CurrentRequest, Waiting

(* Another report of the answer, and not its last one.                     *)
LEMMA HeldKeeps ==
    ASSUME TransactionInv, Taking, client.state \in {"WAITING", "CANCELING"},
           ~Asking, auth.work.channel # client.channel,
           NEW m \in Answers, NEW k \in Nat, Answering(m, k),
           fromDevice[1].channel = client.channel, Rank(fromDevice[1]) = k + 1,
           k + 1 <= FragmentCount(Len(m.data)), FragmentCount(Len(m.data)) \in Nat,
           IsClient(client'), client'.state = client.state,
           client'.channel = client.channel, client'.max_message_size \in Nat,
           Holding(client'.assembler, client.channel, m.command, m.data, k + 1),
           m.command # "INIT", Got(m.data, k + 1) < Len(m.data)
    PROVE  TransactionInv'
<1>1. client.channel \in Channels
    BY DEF TransactionInv, OneRequest, Talking
<1>2. Shape'
    BY <1>1 DEF Taking, Shape, ClientShape, Holding
<1> DEFINE l == k + 1
<1>3. /\ l \in Nat /\ l # 0 /\ l > 0 /\ l \in 0 .. FragmentCount(Len(m.data))
      /\ Holding(client'.assembler, client'.channel, m.command, m.data, l)
      /\ Got(m.data, l) < Len(m.data)
    OBVIOUS
<1>4. ASSUME NEW i \in 1 .. Len(fromDevice'), fromDevice'[i].channel = client.channel
      PROVE  /\ Rank(fromDevice'[i]) \in l + 1 .. FragmentCount(Len(m.data))
             /\ fromDevice'[i] = Piece(client.channel, m.command, m.data, Rank(fromDevice'[i]))
             /\ \A j \in i + 1 .. Len(fromDevice') :
                    fromDevice'[j].channel = client.channel =>
                        Rank(fromDevice'[i]) < Rank(fromDevice'[j])
    <2> DEFINE n == i + 1
    <2>1. /\ n \in 1 + 1 .. Len(fromDevice) /\ n \in 1 .. Len(fromDevice)
          /\ 1 \in 1 .. Len(fromDevice) /\ fromDevice'[i] = fromDevice[n]
          /\ \A j \in i + 1 .. Len(fromDevice') :
                /\ j \in 1 .. Len(fromDevice')
                /\ j + 1 \in n + 1 .. Len(fromDevice) /\ fromDevice'[j] = fromDevice[j + 1]
        BY DEF Taking
    <2> HIDE DEF n
    <2>2. l < Rank(fromDevice[n])
        <3>1. Rank(fromDevice[1]) = 0 \/ Rank(fromDevice[1]) < Rank(fromDevice[n])
            BY <1>4, <2>1 DEF Answering
        <3> QED BY <1>3, <3>1
    <2>3. /\ Rank(fromDevice[n]) # 0 =>
                /\ Rank(fromDevice[n]) \in k + 1 .. FragmentCount(Len(m.data))
                /\ fromDevice[n] = Piece(client.channel, m.command, m.data,
                                         Rank(fromDevice[n]))
          /\ \A j \in n + 1 .. Len(fromDevice) :
                fromDevice[j].channel = client.channel =>
                    Rank(fromDevice[n]) = 0 \/ Rank(fromDevice[n]) < Rank(fromDevice[j])
        BY <1>4, <2>1 DEF Answering
    <2>4. Rank(fromDevice[n]) # 0
        <3>1. l \in Nat
            BY <1>3
        <3> HIDE DEF l
        <3> QED BY <2>2, <3>1
    <2>5. Rank(fromDevice[n]) \in l + 1 .. FragmentCount(Len(m.data))
        BY <1>3, <2>2, <2>3, <2>4
    <2> QED BY <2>1, <2>3, <2>4, <2>5
<1> HIDE DEF l
<1>5. Answering(m, l)'
    <2>1. ASSUME NEW i \in 1 .. Len(fromDevice'), fromDevice'[i].channel = client'.channel
          PROVE  /\ Rank(fromDevice'[i]) = 0 => l = 0
                 /\ Rank(fromDevice'[i]) # 0 =>
                       /\ Rank(fromDevice'[i]) \in l + 1 .. FragmentCount(Len(m.data))
                       /\ fromDevice'[i] = Piece(client'.channel, m.command, m.data,
                                                 Rank(fromDevice'[i]))
                 /\ \A j \in i + 1 .. Len(fromDevice') :
                       fromDevice'[j].channel = client'.channel =>
                           \/ Rank(fromDevice'[i]) = 0
                           \/ Rank(fromDevice'[i]) < Rank(fromDevice'[j])
        <3>1. fromDevice'[i].channel = client.channel
            BY <2>1
        <3>2. /\ Rank(fromDevice'[i]) \in l + 1 .. FragmentCount(Len(m.data))
              /\ fromDevice'[i] = Piece(client.channel, m.command, m.data, Rank(fromDevice'[i]))
              /\ \A j \in i + 1 .. Len(fromDevice') :
                    fromDevice'[j].channel = client.channel =>
                        Rank(fromDevice'[i]) < Rank(fromDevice'[j])
            BY <1>4, <3>1
        <3>3. Rank(fromDevice'[i]) # 0
            BY <1>3, <3>2
        <3> QED BY <3>2, <3>3
    <2> QED BY <1>3, <2>1 DEF Answering
<1>6. ~Asking' /\ auth'.work.channel # client'.channel
    BY DEF Asking, Taking
<1>7. Answers' = Answers
    BY DEF Answers, Taking
<1>8. Waiting'
    <2>1. m \in Answers' /\ l \in 0 .. FragmentCount(Len(m.data))
        BY <1>3, <1>7
    <2> QED BY <1>5, <1>6, <2>1 DEF Waiting
<1>9. OneRequest' /\ CurrentRequest' /\ Allocating'
    BY <1>6 DEF TransactionInv, OneRequest, Talking, CurrentRequest, Allocating, Taking
<1> QED BY <1>2, <1>8, <1>9 DEF TransactionInv

LEMMA AllocatingFed ==
    ASSUME TransactionInv, Taking, client.state = "ALLOCATING", NEW r, r = fromDevice[1],
           DeviceReport(r), NEW fed, NEW kept, NEW did,
           DOMAIN fed.assembler = AssemblerFields,
           fed.assembler.active => fed.assembler.command # "INIT",
           fed.complete => ~fed.assembler.active,
           fed.complete /\ fed.message.command = "INIT" =>
              /\ r.command = "INIT" /\ Len(fed.message.data) = Len(r.data)
              /\ Len(r.data) = 1 => fed.message.data[1] = r.data[1],
           Remains(kept, client, client.state, fed.assembler),
           \/ ~fed.complete /\ did.client = kept /\ did.event # "RESPONSE"
           \/ fed.complete /\ did = ClientMessage(kept, fed.message),
           client' = did.client
    PROVE  TransactionInv' /\ did.event # "RESPONSE"
<1>1. client.max_message_size \in Nat /\ DefaultMaxMessage \in Nat
    BY ClientAssumption DEF TransactionInv, Shape, ClientShape
<1>2. CASE ~fed.complete
    <2>1. client' = kept /\ did.event # "RESPONSE"
        BY <1>2
    <2>2. TransactionInv'
        BY <1>1, <2>1, StayingKeeps DEF Remains
    <2> QED BY <2>1, <2>2
<1>3. CASE fed.complete
    <2> DEFINE m == fed.message
    <2>1. IsClient(kept) /\ kept.state = "ALLOCATING" /\ kept.nonce = client.nonce
          /\ kept.assembler = fed.assembler
        BY DEF Remains
    <2>2. did = ClientMessage(kept, m)
        BY <1>3
    <2> HIDE DEF m
    <2>3. Allocated(did, kept, m)
        BY <2>1, <2>2, MessageAllocated
    <2>4. CASE did.client = DisconnectedClient /\ did.event # "RESPONSE"
        BY <2>4, DisconnectKeeps DEF Taking
    <2>5. CASE /\ did.event # "RESPONSE"
               /\ m.command = "INIT" /\ Len(m.data) >= 1 /\ m.data[1].nonce = kept.nonce
               /\ m.data[1].channel \notin {NoChannel, BroadcastCid}
               /\ IsClient(did.client) /\ did.client.state = "IDLE"
               /\ did.client.channel = m.data[1].channel
               /\ did.client.assembler = kept.assembler
               /\ did.client.max_message_size = DefaultMaxMessage
        <3>1. r.command = "INIT" /\ Len(m.data) = Len(r.data)
              /\ (Len(r.data) = 1 => m.data[1] = r.data[1])
            BY <1>3, <2>5 DEF m
        <3>2. Len(r.data) = 1
            <4>1. Len(r.data) <= 1 /\ Len(r.data) >= 1
                BY <2>5, <3>1 DEF DeviceReport
            <4>2. 1 \in 1 .. Len(fromDevice) /\ fromDevice \in Seq(ReportsOf(DeviceUnits))
                BY DEF TransactionInv, Shape, DeviceShape, Taking
            <4>3. r \in ReportsOf(DeviceUnits)
                BY <4>2, ElementOfSeq
            <4>4. r.data \in Seq(DeviceUnits)
                BY <4>3 DEF ReportsOf
            <4>5. Len(r.data) \in Nat
                BY <4>4, LenProperties
            <4> DEFINE n == Len(r.data)
            <4>6. n \in Nat /\ n <= 1 /\ n >= 1
                BY <4>1, <4>5
            <4> HIDE DEF n
            <4>7. n = 1
                BY <4>6
            <4> QED BY <4>7 DEF n
        <3>3. m.data[1] = r.data[1]
            BY <3>1, <3>2
        <3>4. /\ IsClient(client') /\ client'.state = "IDLE"
              /\ client'.channel = r.data[1].channel /\ r.data[1].channel # NoChannel
              /\ r.data[1].nonce = client.nonce
              /\ client'.max_message_size \in Nat
              /\ DOMAIN client'.assembler = AssemblerFields /\ ~client'.assembler.active
            BY <1>1, <1>3, <2>1, <2>5, <3>3
        <3>5. TransactionInv'
            BY <3>1, <3>2, <3>4, AllocatedKeeps
        <3> QED BY <2>5, <3>5
    <2> QED BY <2>3, <2>4, <2>5 DEF Allocated
<1> QED BY <1>2, <1>3

(* What a response is, at the step that hands it over.                     *)
Responds(did) ==
    did.event = "RESPONSE" =>
        /\ current \in Requests
        /\ did.message.command = "CBOR"
        /\ \E n \in Nat \ {0} : /\ did.message.data = Answer(current, n)
                                /\ n <= did.client.max_message_size

LEMMA KeepaliveFed ==
    ASSUME TransactionInv, Taking, client.state \in {"WAITING", "CANCELING"},
           ~client.assembler.active, NEW fed, NEW kept, NEW did,
           DOMAIN fed.assembler = AssemblerFields,
           fed.complete, ~fed.assembler.active, fed.message.command = "KEEPALIVE",
           Remains(kept, client, client.state, fed.assembler),
           did = ClientMessage(kept, fed.message), client' = did.client
    PROVE  TransactionInv' /\ did.event # "RESPONSE"
<1> DEFINE m == fed.message
<1>1. IsClient(kept) /\ kept.state \in {"WAITING", "CANCELING"} /\ m.command = "KEEPALIVE"
      /\ did = ClientMessage(kept, m)
    BY DEF Remains
<1> HIDE DEF m
<1>2. Handled(did, kept, m)
    BY <1>1, MessageHandled
<1>3. CASE did.client = DisconnectedClient /\ did.event # "RESPONSE"
    BY <1>3, DisconnectKeeps DEF Taking
<1>4. CASE did.event # "RESPONSE" /\ Remains(did.client, kept, kept.state, kept.assembler)
    <2>1. client.max_message_size \in Nat
        BY DEF TransactionInv, Shape, ClientShape
    <2>2. /\ IsClient(client')
          /\ client'.state = client.state /\ client'.channel = client.channel
          /\ client'.nonce = client.nonce /\ client'.max_message_size \in Nat
          /\ DOMAIN client'.assembler = AssemblerFields
          /\ ~client'.assembler.active /\ ~client.assembler.active
        BY <1>4, <2>1 DEF Remains
    <2>3. TransactionInv'
        BY <2>2, StayingKeeps
    <2> QED BY <1>4, <2>3
<1> QED BY <1>1, <1>2, <1>3, <1>4 DEF Handled

LEMMA AnswerFed ==
    ASSUME TransactionInv, Taking, client.state \in {"WAITING", "CANCELING"},
           ~Asking, auth.work.channel # client.channel,
           NEW m \in Answers, NEW k \in Nat, Answering(m, k),
           fromDevice[1].channel = client.channel,
           Rank(fromDevice[1]) \in k + 1 .. FragmentCount(Len(m.data)),
           NEW fed, NEW kept, NEW did,
           fed = Feed(client.assembler, Piece(client.channel, m.command, m.data,
                                              Rank(fromDevice[1]))),
           fed.result = "OK",
           Remains(kept, client, client.state, fed.assembler),
           \/ ~fed.complete /\ did.client = kept /\ did.event # "RESPONSE"
           \/ fed.complete /\ did = ClientMessage(kept, fed.message),
           client' = did.client
    PROVE  TransactionInv' /\ Responds(did)
<1> DEFINE ch == client.channel
           cmd == m.command
           w == m.data
           i == Rank(fromDevice[1])
           n == FragmentCount(Len(w))
<1>1. /\ DeviceMessage(cmd, w) /\ cmd \in {"ERROR", "CBOR"}
      /\ client.state = "WAITING" /\ cmd = "CBOR" =>
            \E l \in Nat \ {0} : w = Answer(current, l) /\ Len(w) = l
    BY AnswersAre DEF TransactionInv
<1>2. ch # NoChannel
    BY SomeChannels DEF TransactionInv, OneRequest, Talking, ChannelsAre
<1>3. DOMAIN client.assembler = AssemblerFields /\ client.max_message_size \in Nat
      /\ (client.state = "WAITING" => current \in Requests)
    BY DEF TransactionInv, Shape, ClientShape, CurrentRequest
<1>4. /\ k = 0 => ~client.assembler.active
      /\ k > 0 => Holding(client.assembler, ch, cmd, w, k) /\ Got(w, k) < Len(w)
    BY DEF Answering
<1>5. n \in Nat \ {0}
    <2>1. Len(w) \in Nat
        BY <1>1, LenProperties DEF DeviceMessage
    <2>2. n \in Nat /\ 1 <= n
        BY <2>1, CountSome
    <2> HIDE DEF n
    <2> QED BY <2>2
<1>6. /\ i = k + 1
      /\ \/ Got(w, k + 1) < Len(w) /\ ~fed.complete /\ Holding(fed.assembler, ch, cmd, w, k + 1)
         \/ k + 1 = n /\ Whole(fed, ch, cmd, w)
    <2> DEFINE a == client.assembler
               done == Feed(a, Piece(ch, cmd, w, i))
    <2>1. i \in k + 1 .. FragmentCount(Len(w)) /\ fed = done /\ done.result = "OK"
        OBVIOUS
    <2>2. /\ DOMAIN a = AssemblerFields
          /\ k = 0 => ~a.active
          /\ k > 0 => Holding(a, ch, cmd, w, k) /\ Got(w, k) < Len(w)
        BY <1>3, <1>4
    <2>3. Feed(a, Piece(ch, cmd, w, i)).result = "OK"
        BY <2>1
    <2> HIDE DEF a, i, w, cmd, ch
    <2>4. /\ i = k + 1
          /\ \/ /\ Got(w, k + 1) < Len(w) /\ ~done.complete
                /\ Holding(done.assembler, ch, cmd, w, k + 1)
             \/ /\ k + 1 = FragmentCount(Len(w)) /\ Whole(done, ch, cmd, w)
        BY <1>1, <1>2, <2>1, <2>2, <2>3, NextPiece
    <2> HIDE DEF done
    <2> QED BY <2>1, <2>4
<1>7. CASE Got(w, k + 1) < Len(w) /\ ~fed.complete /\ Holding(fed.assembler, ch, cmd, w, k + 1)
    <2>1. client' = kept /\ did.event # "RESPONSE"
        BY <1>7
    <2>2. /\ IsClient(client') /\ client'.state = client.state
          /\ client'.channel = client.channel /\ client'.max_message_size \in Nat
          /\ Holding(client'.assembler, ch, cmd, w, k + 1)
        BY <1>3, <1>7, <2>1 DEF Remains
    <2>3. k + 1 <= n /\ n \in Nat /\ cmd # "INIT" /\ Rank(fromDevice[1]) = k + 1
        BY <1>1, <1>5, <1>6
    <2>4. TransactionInv'
        BY <1>7, <2>2, <2>3, HeldKeeps
    <2> QED BY <2>1, <2>4 DEF Responds
<1>8. CASE k + 1 = n /\ Whole(fed, ch, cmd, w)
    <2> DEFINE msg == fed.message
    <2>1. /\ IsClient(kept) /\ kept.state = client.state
          /\ kept.assembler = EmptyAssembler /\ kept.channel = ch
          /\ kept.max_message_size = client.max_message_size
          /\ msg.command = cmd /\ msg.data = w /\ did = ClientMessage(kept, msg)
        BY <1>8 DEF Remains, Whole
    <2> HIDE DEF msg
    <2>2. Handled(did, kept, msg)
        BY <2>1, MessageHandled
    <2>3. CASE did.client = DisconnectedClient /\ did.event # "RESPONSE"
        BY <2>3, DisconnectKeeps DEF Taking, Responds
    <2>4. CASE did.client # DisconnectedClient \/ did.event = "RESPONSE"
        <3>1. /\ Remains(did.client, kept, "IDLE", kept.assembler)
              /\ did.event = "RESPONSE" =>
                    /\ did.message = msg /\ kept.state # "CANCELING" /\ msg.command # "ERROR"
                    /\ (msg.command = "CBOR" => ~(Len(msg.data) > kept.max_message_size))
            BY <1>1, <2>1, <2>2, <2>4 DEF Handled
        <3>2. /\ IsClient(client') /\ client'.state = "IDLE" /\ client'.channel = client.channel
              /\ client'.max_message_size = client.max_message_size
              /\ client'.assembler = EmptyAssembler
            BY <2>1, <3>1 DEF Remains
        <3>3. Rank(fromDevice[1]) = FragmentCount(Len(m.data))
            BY <1>6, <1>8
        <3>4. TransactionInv'
            BY <1>3, <1>5, <3>2, <3>3, EmptyIsAssembler, AnsweredKeeps
        <3>5. Responds(did)
            <4> SUFFICES ASSUME did.event = "RESPONSE" PROVE Responds(did)
                BY DEF Responds
            <4>1. /\ client.state = "WAITING" /\ cmd = "CBOR" /\ did.message = msg
                  /\ ~(Len(w) > client.max_message_size)
                BY <1>1, <2>1, <3>1
            <4>2. PICK l \in Nat \ {0} : w = Answer(current, l) /\ Len(w) = l
                BY <1>1, <4>1
            <4>3. l <= client.max_message_size
                BY <1>3, <4>1, <4>2
            <4> QED BY <1>3, <2>1, <3>2, <4>1, <4>2, <4>3 DEF Responds
        <3> QED BY <3>4, <3>5
    <2> QED BY <2>3, <2>4
<1> QED BY <1>6, <1>7, <1>8

LEMMA DeliverKeeps ==
    ASSUME TransactionInv, Deliver
    PROVE  TransactionInv' /\ AnswersMatch'
<1>1. Taking
    BY DeliverTakes
<1>2. PICK r : /\ r = fromDevice[1] /\ r \in ReportsOf(DeviceUnits) /\ DeviceReport(r)
               /\ client' = ClientFeed(client, r).client
               /\ outcome' = Outcome(ClientFeed(client, r))
    BY DeliverTakes
<1> DEFINE did == ClientFeed(client, r)
           fed == Feed(client.assembler, r)
           kept == [client EXCEPT !.assembler = fed.assembler]
<1>3. /\ IsClient(client) /\ client.max_message_size \in Nat
      /\ DOMAIN client.assembler = AssemblerFields
      /\ client.assembler.active => client.assembler.command # "INIT"
    BY DEF TransactionInv, Shape, ClientShape
<1>4. /\ client' = did.client
      /\ outcome'.event = did.event /\ outcome'.message = did.message
    BY <1>2 DEF Outcome
<1>5. TransactionInv' /\ Responds(did)
    <2>1. CASE client.state \in {"DISCONNECTED", "IDLE"}
        <3>1. did.client = client /\ did.event # "RESPONSE"
            BY <2>1 DEF ClientFeed, Did
        <3> HIDE DEF did
        <3>2. TransactionInv'
            BY <1>1, <1>3, <1>4, <3>1, StayingKeeps
        <3> QED BY <3>1, <3>2 DEF Responds
    <2>2. CASE client.state \in BusyStates
        <3>1. \/ did.client = DisconnectedClient /\ did.event # "RESPONSE"
              \/ /\ did.client = client /\ did.event # "RESPONSE"
                 /\ r.channel # ExpectedChannel(client)
              \/ /\ r.channel = ExpectedChannel(client) /\ fed.result = "OK"
                 /\ Remains(kept, client, client.state, fed.assembler)
                 /\ \/ ~fed.complete /\ did.client = kept /\ did.event # "RESPONSE"
                    \/ fed.complete /\ did = ClientMessage(kept, fed.message)
            BY <1>3, <2>2, FeedCases
        <3> HIDE DEF did, kept
        <3>2. CASE did.client = DisconnectedClient /\ did.event # "RESPONSE"
            BY <1>1, <1>4, <3>2, DisconnectKeeps DEF Taking, Responds
        <3>3. CASE did.client = client /\ did.event # "RESPONSE"
            <4>1. TransactionInv'
                BY <1>1, <1>3, <1>4, <3>3, StayingKeeps
            <4> QED BY <3>3, <4>1 DEF Responds
        <3>4. CASE /\ r.channel = ExpectedChannel(client) /\ fed.result = "OK"
                   /\ Remains(kept, client, client.state, fed.assembler)
                   /\ \/ ~fed.complete /\ did.client = kept /\ did.event # "RESPONSE"
                      \/ fed.complete /\ did = ClientMessage(kept, fed.message)
            <4>1. /\ DOMAIN fed.assembler = AssemblerFields
                  /\ fed.assembler.active => fed.assembler.command # "INIT"
                  /\ fed.complete => ~fed.assembler.active
                  /\ fed.complete /\ fed.message.command = "INIT" =>
                        /\ r.command = "INIT" /\ Len(fed.message.data) = Len(r.data)
                        /\ Len(r.data) = 1 => fed.message.data[1] = r.data[1]
                  /\ r.command = "KEEPALIVE" =>
                        fed.complete /\ fed.message.command = "KEEPALIVE"
                BY <1>2, <1>3, <3>4, DeviceFed
            <4>2. CASE client.state = "ALLOCATING"
                <5> HIDE DEF fed
                <5>1. TransactionInv' /\ did.event # "RESPONSE"
                    BY <1>1, <1>2, <1>4, <3>4, <4>1, <4>2, AllocatingFed
                <5> QED BY <5>1 DEF Responds
            <4>3. CASE client.state \in {"WAITING", "CANCELING"}
                <5>1. r.channel = client.channel /\ 1 \in 1 .. Len(fromDevice)
                    BY <1>1, <3>4, <4>3 DEF ExpectedChannel, Taking
                <5>2. ~Silent
                    BY <1>2, <5>1 DEF Silent
                <5>3. \/ r.command = "KEEPALIVE" /\ ~client.assembler.active
                      \/ /\ Rank(r) # 0 /\ ~Asking /\ auth.work.channel # client.channel
                         /\ \E m \in Answers : \E k \in 0 .. FragmentCount(Len(m.data)) :
                               Answering(m, k)
                    <6>1. CASE /\ ~client.assembler.active
                               /\ \A i \in 1 .. Len(fromDevice) :
                                     fromDevice[i].channel = client.channel =>
                                         fromDevice[i].command = "KEEPALIVE"
                        BY <1>2, <5>1, <6>1
                    <6>2. CASE /\ ~Asking /\ auth.work.channel # client.channel
                               /\ \E m \in Answers : \E k \in 0 .. FragmentCount(Len(m.data)) :
                                     Answering(m, k)
                        <7>1. \E m, k : Answering(m, k)
                            BY <6>2
                        <7>2. Rank(r) = 0 => ~client.assembler.active
                            BY <1>2, <5>1, <7>1 DEF Answering
                        <7>3. Rank(r) = 0 => r.command = "KEEPALIVE"
                            <8>1. r.sequence \in Nat
                                BY <1>2 DEF ReportsOf
                            <8>2. r.sequence + 2 # 0
                                BY <8>1
                            <8> QED BY <8>2 DEF Rank
                        <7> QED BY <6>2, <7>2, <7>3
                    <6> QED BY <4>3, <5>2, <6>1, <6>2 DEF TransactionInv, Waiting
                <5>4. CASE r.command = "KEEPALIVE" /\ ~client.assembler.active
                    <6>1. /\ fed.complete /\ ~fed.assembler.active
                          /\ fed.message.command = "KEEPALIVE"
                        BY <4>1, <5>4
                    <6> HIDE DEF fed
                    <6>2. TransactionInv' /\ did.event # "RESPONSE"
                        BY <1>1, <1>4, <3>4, <4>1, <4>3, <5>4, <6>1, KeepaliveFed
                    <6> QED BY <6>2 DEF Responds
                <5>5. CASE /\ Rank(r) # 0 /\ ~Asking /\ auth.work.channel # client.channel
                           /\ \E m \in Answers : \E k \in 0 .. FragmentCount(Len(m.data)) :
                                 Answering(m, k)
                    <6>1. PICK m \in Answers : \E k \in 0 .. FragmentCount(Len(m.data)) :
                                                   Answering(m, k)
                        BY <5>5
                    <6>2. PICK k \in 0 .. FragmentCount(Len(m.data)) : Answering(m, k)
                        BY <6>1
                    <6>3. k \in Nat
                        OBVIOUS
                    <6>4. /\ Rank(r) \in k + 1 .. FragmentCount(Len(m.data))
                          /\ r = Piece(client.channel, m.command, m.data, Rank(r))
                        BY <1>2, <5>1, <5>5, <6>2 DEF Answering
                    <6>5. fed = Feed(client.assembler, Piece(client.channel, m.command, m.data,
                                                             Rank(fromDevice[1])))
                        BY <1>2, <6>4
                    <6> HIDE DEF fed
                    <6> QED BY <1>1, <1>2, <1>4, <3>4, <4>3, <5>1, <5>5, <6>2, <6>3, <6>4,
                               <6>5, AnswerFed
                <5> QED BY <5>3, <5>4, <5>5
            <4> QED BY <2>2, <4>2, <4>3 DEF BusyStates
        <3> QED BY <3>1, <3>2, <3>3, <3>4
    <2> QED BY <1>3, <2>1, <2>2 DEF IsClient, ClientStates
<1>6. AnswersMatch'
    <2> HIDE DEF did
    <2> SUFFICES ASSUME did.event = "RESPONSE" PROVE AnswersMatch'
        BY <1>4 DEF AnswersMatch
    <2>1. /\ current \in Requests /\ did.message.command = "CBOR"
          /\ \E n \in Nat \ {0} : /\ did.message.data = Answer(current, n)
                                  /\ n <= did.client.max_message_size
        BY <1>5 DEF Responds
    <2>2. current' = current /\ current # NoRequest /\ client'.max_message_size \in Nat
        BY <1>1, <1>5, <2>1, TransactionAssumption
        DEF Taking, TransactionInv, Shape, ClientShape
    <2>3. PICK n \in Nat \ {0} : /\ did.message.data = Answer(current, n)
                                 /\ n <= did.client.max_message_size
        BY <2>1
    <2>4. n \in 1 .. client'.max_message_size
        BY <1>4, <2>2, <2>3
    <2> QED BY <1>4, <2>1, <2>2, <2>3, <2>4 DEF AnswersMatch
<1> QED BY <1>5, <1>6

------------------------------------------------------------------------------
(* The theorems                                                            *)

LEMMA TransactionInitially == Init => TransactionInv /\ AnswersMatch
<1> SUFFICES ASSUME Init PROVE TransactionInv /\ AnswersMatch
    OBVIOUS
<1>1. /\ client = DisconnectedClient /\ toDevice = << >> /\ fromDevice = << >>
      /\ auth = [assembler |-> EmptyAssembler, work |-> NoWork]
      /\ outcome = Quiet
    BY DEF Init
<1>2. /\ client.state = "DISCONNECTED" /\ client.channel = NoChannel
      /\ client.max_message_size = DefaultMaxMessage /\ client.assembler = EmptyAssembler
    BY <1>1 DEF DisconnectedClient
<1>3. ClientShape
    BY <1>1, <1>2, NewClient, ClientAssumption, EmptyIsAssembler DEF ClientShape
<1>4. HostShape /\ DeviceShape
    BY <1>1 DEF HostShape, DeviceShape
<1>5. AuthShape
    BY <1>1, EmptyIsAssembler DEF AuthShape, Works
<1>6. TransactionInv
    BY <1>2, <1>3, <1>4, <1>5
       DEF TransactionInv, Shape, Allocating, OneRequest, Talking, CurrentRequest, Waiting
<1>7. AnswersMatch
    BY <1>1 DEF AnswersMatch, Quiet
<1> QED BY <1>6, <1>7

LEMMA TransactionStep ==
    TransactionInv /\ AnswersMatch /\ [Next]_vars => TransactionInv' /\ AnswersMatch'
<1> SUFFICES ASSUME TransactionInv, AnswersMatch, [Next]_vars
             PROVE  TransactionInv' /\ AnswersMatch'
    OBVIOUS
<1>1. outcome'.event # "RESPONSE" => AnswersMatch'
    BY DEF AnswersMatch
<1>2. ASSUME NEW nonce \in Nonces, BeginInit(nonce)
      PROVE  TransactionInv' /\ AnswersMatch'
    BY <1>1, <1>2, BeginInitKeeps
<1>3. ASSUME NEW q \in Requests, NEW n \in 1 .. MessageMax, BeginCbor(q, n)
      PROVE  TransactionInv' /\ AnswersMatch'
    BY <1>1, <1>3, BeginCborKeeps
<1>4. ASSUME NEW limit \in Limits, SetMessageLimit(limit)
      PROVE  TransactionInv' /\ AnswersMatch'
    <2>1. outcome'.event # "RESPONSE"
        BY <1>4 DEF SetMessageLimit, Apply, Did, Outcome
    <2> QED BY <1>1, <1>4, <2>1, TickKeeps
<1>5. CASE Cancel
    BY <1>1, <1>5, CancelKeeps
<1>6. CASE PollTimeout
    <2>1. outcome'.event # "RESPONSE"
        BY <1>6 DEF PollTimeout, Apply, ClientPoll, Did, Outcome
    <2> QED BY <1>1, <1>6, <2>1, PollKeeps
<1>7. CASE Deliver
    BY <1>7, DeliverKeeps
<1>8. CASE Tick
    <2>1. outcome'.event # "RESPONSE"
        BY <1>8 DEF Tick, Quiet
    <2> QED BY <1>1, <1>8, <2>1, TickKeeps
<1>9. CASE Lose
    <2>1. outcome'.event # "RESPONSE"
        BY <1>9 DEF Lose, Quiet
    <2> QED BY <1>1, <1>9, <2>1, LoseKeeps
<1>10. CASE Read
    BY <1>1, <1>10, ReadKeeps
<1>11. CASE SendKeepalive \/ SendAnswer \/ SendError
    BY <1>1, <1>11, SendKeeps
<1>12. CASE UNCHANGED vars
    <2>1. TransactionInv'
        BY <1>12, TickKeeps
    <2>2. AnswersMatch'
        BY <1>12 DEF vars, AnswersMatch
    <2> QED BY <2>1, <2>2
<1> QED BY <1>2, <1>3, <1>4, <1>5, <1>6, <1>7, <1>8, <1>9, <1>10, <1>11, <1>12 DEF Next

(* A response that the client hands over is the authenticator's answer to  *)
(* the request the caller waits for, whole and within the limit, whatever  *)
(* was cancelled, lost or still on the way (ctaphid.c:152-413).            *)
THEOREM ResponsesAnswerTheRequest == Spec => []AnswersMatch
<1>1. Spec => [](TransactionInv /\ AnswersMatch)
    BY TransactionInitially, TransactionStep, PTL DEF Spec
<1> QED BY <1>1, PTL

(* No report is on its way to an idle client, and the authenticator does   *)
(* not work for it (ctaphid.c:152-413): a client leaves its transaction by *)
(* the last report of the answer, or by way of DISCONNECTED.               *)
THEOREM IdleClientIsQuiet == Spec => []IdleMeansQuiet
<1>1. TransactionInv => IdleMeansQuiet
    <2> SUFFICES ASSUME TransactionInv, client.state = "IDLE" PROVE IdleMeansQuiet
        BY DEF IdleMeansQuiet
    <2>1. Silent
        BY DEF TransactionInv, OneRequest, Talking
    <2>2. \A r \in ToSet(fromDevice) : r.channel # client.channel
        <3>1. ToSet(fromDevice) = {fromDevice[i] : i \in DOMAIN fromDevice}
            BY DEF ToSet
        <3>2. DOMAIN fromDevice = 1 .. Len(fromDevice)
            BY LenProperties DEF TransactionInv, Shape, DeviceShape
        <3> QED BY <2>1, <3>1, <3>2 DEF Silent
    <2> QED BY <2>1, <2>2 DEF IdleMeansQuiet, Silent
<1>2. Spec => [](TransactionInv /\ AnswersMatch)
    BY TransactionInitially, TransactionStep, PTL DEF Spec
<1> QED BY <1>1, <1>2, PTL

==============================================================================
