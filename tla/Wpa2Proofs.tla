----------------------------- MODULE Wpa2Proofs -----------------------------
(***************************************************************************)
(* Proofs about the WPA2 supplicant and its access point (Wpa2Handshake),  *)
(* for every number of associations, retries and packet numbers.           *)
(***************************************************************************)
EXTENDS Wpa2Handshake, SequenceTheorems, TLAPS

-----------------------------------------------------------------------------
(* The inductive invariant                                                  *)

Keys == Passphrases \X Nat \X Nat
Anonce(key) == key[2]
Snonce(key) == key[3]

States == {Uninitialized, WaitMessage1, WaitMessage3, Completed, Failed}
Waiting == {WaitMessage1, WaitMessage3}

SessionType ==
  [state : States, generation : Nat, keys_installed : BOOLEAN, rc1 : Nat, rc3 : Nat,
   anonce : Nat, pmk : Passphrases \cup {NoKey}, ptk : Keys \cup {NoKey}]
DriverType == [key : Keys \cup {NoKey}, next : [Tids -> Nat], last : [Tids -> Nat]]
ApType ==
  [state : {"idle", "m1", "m3", "done"}, generation : Nat, pmk : Passphrases \cup {NoKey},
   rc : Nat, anonce : Nat, ptk : Keys \cup {NoKey}, pn : Nat]
AnswerType == [kind : {"m2", "m4"}, rc : Nat, nonce : Nat, key : Keys]
FrameType ==
  [kind : {"m1", "m3", "group"}, rc : Nat, nonce : Nat, key : Keys \cup {NoKey}, gtk : BOOLEAN]
DataType == [dir : {"up", "down"}, key : Keys, tid : Tids, pn : Nat]

HandshakeTypes ==
  /\ s \in SessionType /\ driver \in DriverType /\ ap \in ApType /\ fresh \in Nat
  /\ toAp \in SUBSET AnswerType /\ toStation \in SUBSET FrameType
  /\ air \in SUBSET DataType /\ delivered \in Seq(DataType)

\* The session is of the association under way, and a key it waits to install
\* was derived in it: its nonce was drawn after the authenticator's.
SessionMatches ==
  /\ s.state = Uninitialized => s.generation = 0
  /\ s.state # Uninitialized => s.generation = ap.generation /\ ap.generation > 0
  /\ s.state \in {Uninitialized} \cup Waiting => ~s.keys_installed
  /\ s.state \in Waiting \cup {Completed} => s.pmk \in Passphrases
  /\ s.state \in {WaitMessage3, Completed} =>
       /\ s.ptk \in Keys /\ s.ptk[1] = s.pmk /\ Snonce(s.ptk) > ap.anonce
       /\ Anonce(s.ptk) < Snonce(s.ptk)
  /\ s.state = Completed => driver.key = s.ptk /\ s.ptk = ap.ptk

AuthenticatorMatches ==
  /\ ap.anonce < fresh
  /\ ap.state # "idle" => ap.generation > 0 /\ ap.pmk \in Passphrases
  /\ ap.state \in {"idle", "m1"} => ap.ptk = NoKey
  /\ ap.state \in {"m3", "done"} =>
       /\ ap.ptk \in Keys /\ ap.ptk[1] = ap.pmk /\ Anonce(ap.ptk) = ap.anonce
       /\ Snonce(ap.ptk) > ap.anonce
  /\ ap.state = "done" => s.state \notin Waiting

\* Every nonce was drawn, and drawn once: a key on its way is of the association
\* under way exactly if its nonce is newer than the authenticator's.
NoncesDrawn ==
  /\ s.ptk # NoKey => Snonce(s.ptk) < fresh
  /\ driver.key # NoKey => Snonce(driver.key) < fresh
  /\ ap.ptk # NoKey => Snonce(ap.ptk) < fresh
  /\ \A f \in toAp : Anonce(f.key) < Snonce(f.key) /\ Snonce(f.key) < fresh
  /\ \A f \in toStation : f.nonce < fresh
  /\ \A f \in air : f.dir = "up" => Snonce(f.key) < fresh
  /\ \A i \in DOMAIN delivered : Snonce(delivered[i].key) < fresh

FramesMatch ==
  /\ \A f \in toStation : f.kind = "m3" =>
       f.key \in Keys /\ (f.key = ap.ptk \/ Snonce(f.key) < ap.anonce)
  /\ \A f \in toAp : (f.kind = "m4" /\ Snonce(f.key) > ap.anonce) => s.state \notin Waiting

\* A key that is still to be installed was never used, and the packet numbers
\* of the one that is installed are beyond every one used.
NumbersMatch ==
  /\ s.state = WaitMessage3 =>
       /\ \A f \in air : f.dir = "up" => f.key # s.ptk
       /\ \A i \in DOMAIN delivered : delivered[i].key # s.ptk
  /\ \A i \in DOMAIN delivered :
       delivered[i].key = driver.key => delivered[i].pn <= driver.last[delivered[i].tid]

HandshakeInv ==
  /\ HandshakeTypes
  /\ SessionMatches /\ AuthenticatorMatches /\ NoncesDrawn /\ FramesMatch /\ NumbersMatch
  /\ KeysAccountedFor /\ NoPacketNumberReuse /\ DeliveredInOrder

-----------------------------------------------------------------------------
(* Keys and records                                                         *)

LEMMA KeyParts ==
  ASSUME NEW k \in Keys
  PROVE  Anonce(k) \in Nat /\ Snonce(k) \in Nat /\ k[1] \in Passphrases
  BY DEF Keys, Anonce, Snonce

LEMMA KeyOf ==
  ASSUME NEW p \in Passphrases, NEW a \in Nat, NEW b \in Nat
  PROVE  /\ PairwiseKey(p, a, b) \in Keys /\ PairwiseKey(p, a, b)[1] = p
         /\ Anonce(PairwiseKey(p, a, b)) = a /\ Snonce(PairwiseKey(p, a, b)) = b
  BY DEF PairwiseKey, Keys, Anonce, Snonce

LEMMA NoKeyIsNone == NoKey \notin Keys
  BY NoKeyAssumption DEF Keys

LEMMA DriverStates ==
  /\ NoKeys \in DriverType /\ NoKeys.key = NoKey
  /\ \A k \in Keys : /\ CcmpStateInit(k) \in DriverType /\ CcmpStateInit(k).key = k
                     /\ \A t \in Tids : CcmpStateInit(k).next[t] = 1
  BY DEF NoKeys, CcmpStateInit, DriverType

LEMMA ZeroSessionType ==
  /\ ZeroSession \in SessionType /\ ZeroSession.state = Uninitialized
  /\ ZeroSession.generation = 0 /\ ~ZeroSession.keys_installed
  /\ ZeroSession.ptk = NoKey
  BY DEF ZeroSession, SessionType, States

LEMMA StatesDiffer ==
  /\ Uninitialized # WaitMessage1 /\ Uninitialized # WaitMessage3
  /\ Uninitialized # Completed /\ Uninitialized # Failed
  /\ WaitMessage1 # WaitMessage3 /\ WaitMessage1 # Completed /\ WaitMessage1 # Failed
  /\ WaitMessage3 # Completed /\ WaitMessage3 # Failed /\ Completed # Failed
  BY DEF Uninitialized, WaitMessage1, WaitMessage3, Completed, Failed

-----------------------------------------------------------------------------
(* What the station may do in one step                                      *)

\* The driver keeps its key, loses it, or gets the key that waits to be installed.
DriverFollows ==
  \/ driver' = driver
  \/ driver' = NoKeys
  \/ s.state = WaitMessage3 /\ driver' = CcmpStateInit(s.ptk)

\* The station's key stays, is forgotten, or is derived from a nonce just drawn.
KeyFollows ==
  \/ s'.ptk = s.ptk /\ (s'.state = WaitMessage3 => s.state = WaitMessage3)
  \/ s'.ptk = NoKey
  \/ /\ s'.ptk \in Keys /\ Snonce(s'.ptk) = fresh
     /\ fresh' = fresh + 1

\* A message 4 is sent only by a session that leaves the handshake.
AnswerFollows ==
  \A f \in toAp' : \/ f \in toAp
                   \/ /\ f \in AnswerType
                      /\ Anonce(f.key) < Snonce(f.key) /\ Snonce(f.key) < fresh'
                      /\ f.kind = "m4" => s'.state \notin Waiting

StationStep ==
  /\ UNCHANGED <<ap, toStation, air, delivered>>
  /\ s' \in SessionType /\ driver' \in DriverType /\ fresh' \in {fresh, fresh + 1}
  /\ s.state # Uninitialized /\ s'.state # Uninitialized
  /\ s'.generation = s.generation
  /\ s'.state \in Waiting => s.state \in Waiting
  /\ s'.state \in Waiting => ~s'.keys_installed
  /\ s'.state \in Waiting \cup {Completed} => s'.pmk \in Passphrases
  /\ s'.state \in {WaitMessage3, Completed} =>
       /\ s'.ptk \in Keys /\ s'.ptk[1] = s'.pmk /\ Snonce(s'.ptk) > ap.anonce
       /\ Anonce(s'.ptk) < Snonce(s'.ptk)
  /\ s'.state = Completed => driver'.key = s'.ptk /\ s'.ptk = ap.ptk
  /\ driver'.key # NoKey => s'.keys_installed
  /\ DriverFollows /\ KeyFollows /\ AnswerFollows

\* Whatever the station does in a step keeps the invariant.
LEMMA StationKeeps == HandshakeInv /\ StationStep => HandshakeInv'
<1> SUFFICES ASSUME HandshakeInv, StationStep PROVE HandshakeInv'
  OBVIOUS
<1> USE DEF HandshakeInv
<1>1. /\ UNCHANGED <<ap, toStation, air, delivered>>
      /\ fresh \in Nat /\ fresh' \in Nat /\ fresh' >= fresh
      /\ s \in SessionType /\ s' \in SessionType /\ driver \in DriverType /\ driver' \in DriverType
      /\ ap \in ApType /\ ap.anonce \in Nat
  BY DEF HandshakeTypes, StationStep, ApType
<1>2. /\ \A f \in toAp : f \in AnswerType
      /\ \A f \in air : f \in DataType
      /\ \A i \in DOMAIN delivered : delivered[i] \in DataType
  BY ElementOfSeq, LenProperties DEF HandshakeTypes
<1>3. HandshakeTypes'
  <2>1. toAp' \in SUBSET AnswerType
    BY <1>2 DEF StationStep, AnswerFollows
  <2> QED BY <1>1, <2>1 DEF HandshakeTypes
<1>4. SessionMatches'
  BY <1>1, StatesDiffer DEF SessionMatches, StationStep, Waiting
<1>5. AuthenticatorMatches'
  BY <1>1, StatesDiffer DEF AuthenticatorMatches, StationStep, Waiting
<1>6. \A k \in Keys : Snonce(k) < fresh => Snonce(k) < fresh'
  BY <1>1, KeyParts
<1>7. NoncesDrawn'
  <2>1. s'.ptk # NoKey => Snonce(s'.ptk) < fresh'
    BY <1>1, <1>6 DEF NoncesDrawn, StationStep, KeyFollows, SessionType
  <2>2. driver'.key # NoKey => Snonce(driver'.key) < fresh'
    <3>1. CASE driver' = driver
      BY <1>1, <1>6, <3>1 DEF NoncesDrawn, DriverType
    <3>2. CASE driver' = NoKeys
      BY <3>2, DriverStates
    <3>3. CASE s.state = WaitMessage3 /\ driver' = CcmpStateInit(s.ptk)
      <4>1. s.ptk \in Keys /\ driver'.key = s.ptk
        BY <3>3, DriverStates DEF SessionMatches
      <4> QED BY <1>6, <4>1, NoKeyIsNone DEF NoncesDrawn
    <3> QED BY <3>1, <3>2, <3>3 DEF StationStep, DriverFollows
  <2>3. ap'.ptk # NoKey => Snonce(ap'.ptk) < fresh'
    BY <1>1, <1>6 DEF NoncesDrawn, ApType
  <2>4. \A f \in toAp' : Anonce(f.key) < Snonce(f.key) /\ Snonce(f.key) < fresh'
    BY <1>2, <1>6 DEF NoncesDrawn, StationStep, AnswerFollows, AnswerType
  <2>5. \A f \in toStation' : f.nonce < fresh'
    <3>1. \A f \in toStation : f.nonce \in Nat
      BY DEF HandshakeTypes, FrameType
    <3> QED BY <1>1, <3>1 DEF NoncesDrawn
  <2>6. \A f \in air' : f.dir = "up" => Snonce(f.key) < fresh'
    BY <1>1, <1>2, <1>6 DEF NoncesDrawn, DataType
  <2>7. \A i \in DOMAIN delivered' : Snonce(delivered'[i].key) < fresh'
    BY <1>1, <1>2, <1>6 DEF NoncesDrawn, DataType
  <2> QED BY <2>1, <2>2, <2>3, <2>4, <2>5, <2>6, <2>7 DEF NoncesDrawn
<1>8. FramesMatch'
  <2>1. \A f \in toStation' : f.kind = "m3" =>
          f.key \in Keys /\ (f.key = ap'.ptk \/ Snonce(f.key) < ap'.anonce)
    BY <1>1 DEF FramesMatch
  <2>2. \A f \in toAp' : (f.kind = "m4" /\ Snonce(f.key) > ap'.anonce) => s'.state \notin Waiting
    BY <1>1 DEF FramesMatch, StationStep, AnswerFollows
  <2> QED BY <2>1, <2>2 DEF FramesMatch
<1>9. NumbersMatch' /\ NoPacketNumberReuse'
  <2>1. ASSUME s'.state = WaitMessage3
        PROVE  /\ \A f \in air : f.dir = "up" => f.key # s'.ptk
               /\ \A i \in DOMAIN delivered : delivered[i].key # s'.ptk
    <3>1. CASE s'.ptk = s.ptk /\ s.state = WaitMessage3
      BY <3>1 DEF NumbersMatch
    <3>2. CASE Snonce(s'.ptk) = fresh
      <4>1. \A k \in Keys : Snonce(k) < fresh => k # s'.ptk
        BY <1>1, <3>2
      <4> QED BY <1>2, <4>1 DEF NoncesDrawn, DataType
    <3>3. s'.ptk # NoKey
      BY <2>1, NoKeyIsNone DEF StationStep
    <3> QED BY <2>1, <3>1, <3>2, <3>3 DEF StationStep, KeyFollows
  <2>2. /\ \A i \in DOMAIN delivered :
             delivered[i].key = driver'.key => delivered[i].pn <= driver'.last[delivered[i].tid]
        /\ \A f \in air :
             (f.dir = "up" /\ f.key = driver'.key) =>
               (driver'.next[f.tid] = 0 \/ f.pn < driver'.next[f.tid])
    <3>1. CASE driver' = driver
      BY <3>1 DEF NumbersMatch, NoPacketNumberReuse
    <3>2. CASE driver' = NoKeys
      <4>1. driver'.key \notin Keys
        BY <3>2, DriverStates, NoKeyIsNone
      <4> QED BY <1>2, <4>1 DEF DataType
    <3>3. CASE s.state = WaitMessage3 /\ driver' = CcmpStateInit(s.ptk)
      <4>1. driver'.key = s.ptk
        BY <3>3, DriverStates DEF SessionMatches
      <4> QED BY <3>3, <4>1 DEF NumbersMatch
    <3> QED BY <3>1, <3>2, <3>3 DEF StationStep, DriverFollows
  <2>3. NumbersMatch'
    BY <1>1, <2>1, <2>2 DEF NumbersMatch
  <2> QED BY <1>1, <2>2, <2>3 DEF NoPacketNumberReuse
<1>10. KeysAccountedFor'
  BY DEF KeysAccountedFor, StationStep
<1>11. DeliveredInOrder'
  BY <1>1 DEF DeliveredInOrder
<1> QED BY <1>3, <1>4, <1>5, <1>7, <1>8, <1>9, <1>10, <1>11

-----------------------------------------------------------------------------
(* The handlers                                                             *)

\* A failure or forget: the keys are asked to be removed if they may be at the
\* driver, and the record remembers them until a removal reports success.
LEMMA Removal ==
  ASSUME NEW k \in SessionType, NEW d \in DriverType, d.key # NoKey => k.keys_installed,
         RemoveAndForget(k, d)
  PROVE  /\ s' \in SessionType /\ driver' \in DriverType
         /\ s'.state = Failed /\ s'.generation = k.generation /\ s'.ptk = NoKey
         /\ driver' = d \/ driver' = NoKeys
         /\ driver'.key # NoKey => s'.keys_installed
<1> DEFINE g == ForgetSecrets(k)
<1>1. /\ g \in SessionType /\ g.state = Failed /\ g.generation = k.generation
      /\ g.ptk = NoKey /\ g.keys_installed = k.keys_installed
  BY DEF ForgetSecrets, SessionType, States
<1> HIDE DEF g
<1>2. CASE k.keys_installed
  <2>1. PICK r \in Results :
          /\ s' = [g EXCEPT !.keys_installed = StillInstalled(r)]
          /\ driver' = IF Acted(r) THEN NoKeys ELSE d
    BY <1>2 DEF RemoveAndForget, g
  <2>2. StillInstalled(r) \in BOOLEAN /\ (~Acted(r) => StillInstalled(r))
    BY DEF StillInstalled, Acted
  <2>3. /\ s' \in SessionType /\ s'.state = Failed /\ s'.generation = k.generation
        /\ s'.ptk = NoKey /\ s'.keys_installed = StillInstalled(r)
    BY <1>1, <2>1, <2>2 DEF SessionType
  <2> QED BY <2>1, <2>2, <2>3, DriverStates
<1>3. CASE ~k.keys_installed
  <2>1. s' = g /\ driver' = d
    BY <1>3 DEF RemoveAndForget, g
  <2> QED BY <1>1, <1>3, <2>1
<1> QED BY <1>2, <1>3

LEMMA Sent ==
  ASSUME NEW r, NEW f, Send(r, f)
  PROVE  \A g \in toAp' : g \in toAp \/ g = f
  BY DEF Send

\* The two answers that a record with a key makes.
LEMMA Answers ==
  ASSUME NEW k \in SessionType, k.ptk \in Keys
  PROVE  /\ Message2(k) \in AnswerType /\ Message2(k).key = k.ptk /\ Message2(k).kind = "m2"
         /\ Message4(k) \in AnswerType /\ Message4(k).key = k.ptk /\ Message4(k).kind = "m4"
  BY KeyParts DEF Message2, Message4, AnswerType, SessionType, Snonce

\* The facts about the state that every handler needs.
LEMMA StationFacts ==
  ASSUME HandshakeInv
  PROVE  /\ s \in SessionType /\ driver \in DriverType /\ ap \in ApType /\ fresh \in Nat
         /\ driver.key # NoKey => s.keys_installed
         /\ s.state \in Waiting => ~s.keys_installed /\ driver.key = NoKey
         /\ s.state \in {WaitMessage3, Completed} =>
              /\ s.ptk \in Keys /\ s.ptk[1] = s.pmk /\ Snonce(s.ptk) > ap.anonce
              /\ s.pmk \in Passphrases /\ Snonce(s.ptk) < fresh
              /\ Anonce(s.ptk) < Snonce(s.ptk)
         /\ ap.anonce \in Nat /\ ap.anonce < fresh
         /\ \A f \in toStation : f \in FrameType /\ f.nonce \in Nat /\ f.nonce < fresh
  BY NoKeyIsNone DEF HandshakeInv, HandshakeTypes, SessionMatches, KeysAccountedFor, Waiting,
     NoncesDrawn, AuthenticatorMatches, ApType, FrameType

\* The session ends with the record k, which is s but for what a handler wrote.
LEMMA Ends ==
  ASSUME HandshakeInv, NEW k \in SessionType, NEW d \in DriverType,
         RemoveAndForget(k, d), d.key # NoKey => k.keys_installed,
         d = driver \/ (s.state = WaitMessage3 /\ d = CcmpStateInit(s.ptk)),
         k.generation = s.generation, s.state # Uninitialized,
         UNCHANGED <<ap, toStation, air, delivered>>,
         fresh' \in {fresh, fresh + 1},
         \A f \in toAp' : \/ f \in toAp
                          \/ /\ f \in AnswerType
                             /\ Anonce(f.key) < Snonce(f.key) /\ Snonce(f.key) < fresh'
  PROVE  StationStep
<1>1. /\ s' \in SessionType /\ driver' \in DriverType
      /\ s'.state = Failed /\ s'.generation = k.generation /\ s'.ptk = NoKey
      /\ driver' = d \/ driver' = NoKeys
      /\ driver'.key # NoKey => s'.keys_installed
  BY Removal
<1>2. s'.state \notin Waiting /\ s'.state # Completed /\ s'.state # Uninitialized
  BY <1>1, StatesDiffer DEF Waiting
<1>3. DriverFollows /\ KeyFollows
  BY <1>1 DEF DriverFollows, KeyFollows
<1>4. AnswerFollows
  BY <1>2 DEF AnswerFollows
<1> QED BY <1>1, <1>2, <1>3, <1>4, StatesDiffer DEF StationStep, Waiting

\* The session ends without a frame.
LEMMA EndsAtOnce ==
  ASSUME HandshakeInv, RemoveAndForget(s, driver), s.state # Uninitialized,
         UNCHANGED <<toAp, fresh, ap, toStation, air, delivered>>
  PROVE  StationStep
  BY StationFacts, Ends

\* A frame is sent again, and the session stays as it is or ends.
LEMMA SendsAgain ==
  ASSUME HandshakeInv, s.state \in {WaitMessage3, Completed},
         NEW g \in AnswerType, g.key = s.ptk, g.kind = "m4" => s.state = Completed,
         UNCHANGED <<fresh, ap, toStation, air, delivered>>,
         NEW r, Send(r, g),
         UNCHANGED <<s, driver>> \/ RemoveAndForget(s, driver)
  PROVE  StationStep
<1>1. \A f \in toAp' : f \in toAp \/ f = g
  BY Sent
<1>2. /\ s.state # Uninitialized /\ s.ptk \in Keys
      /\ Anonce(s.ptk) < Snonce(s.ptk) /\ Snonce(s.ptk) < fresh
  BY StationFacts, StatesDiffer
<1>3. CASE RemoveAndForget(s, driver)
  BY <1>1, <1>2, <1>3, StationFacts, Ends
<1>4. CASE UNCHANGED <<s, driver>>
  <2>1. DriverFollows /\ KeyFollows
    BY <1>4 DEF DriverFollows, KeyFollows
  <2>2. s.state = Completed => s.state \notin Waiting
    BY StatesDiffer DEF Waiting
  <2>3. AnswerFollows
    BY <1>1, <1>2, <1>4, <2>2 DEF AnswerFollows
  <2>4. s.state = Completed => driver.key = s.ptk /\ s.ptk = ap.ptk
    BY DEF HandshakeInv, SessionMatches
  <2> QED BY <1>2, <1>4, <2>1, <2>3, <2>4, StationFacts, StatesDiffer DEF StationStep
<1> QED BY <1>3, <1>4

LEMMA Message1Steps ==
  ASSUME HandshakeInv, NEW f \in toStation, ProcessMessage1(f),
         UNCHANGED <<ap, toStation, air, delivered>>
  PROVE  StationStep
<1>1. /\ s.state = WaitMessage1 /\ s.state # Uninitialized /\ s.state \in Waiting
      /\ f \in FrameType /\ f.nonce \in Nat /\ f.nonce < fresh
  BY StationFacts, StatesDiffer DEF ProcessMessage1, Waiting
<1>2. CASE RemoveAndForget(s, driver) /\ UNCHANGED <<toAp, fresh>>
  BY <1>1, <1>2, EndsAtOnce
<1> DEFINE key == PairwiseKey(s.pmk, f.nonce, fresh)
           k == [s EXCEPT !.anonce = f.nonce, !.rc1 = f.rc, !.ptk = key]
<1>3. /\ key \in Keys /\ key[1] = s.pmk /\ Anonce(key) = f.nonce /\ Snonce(key) = fresh
      /\ s.pmk \in Passphrases
  <2>1. s.pmk \in Passphrases
    BY <1>1 DEF HandshakeInv, SessionMatches
  <2> QED BY <1>1, <2>1, StationFacts, KeyOf
<1> HIDE DEF key
<1>4. /\ k \in SessionType /\ k.ptk = key /\ k.pmk = s.pmk /\ k.generation = s.generation
      /\ k.keys_installed = s.keys_installed
  BY <1>1, <1>3, StationFacts DEF SessionType, FrameType
<1>5. [k EXCEPT !.state = WaitMessage3] \in SessionType
  BY <1>4 DEF SessionType, States
<1>6. CASE /\ fresh' = fresh + 1
           /\ \E r \in Results :
                /\ Send(r, Message2(k))
                /\ IF r = "ok"
                     THEN s' = [k EXCEPT !.state = WaitMessage3] /\ UNCHANGED driver
                     ELSE RemoveAndForget(k, driver)
  <2>1. PICK r \in Results :
          /\ Send(r, Message2(k))
          /\ IF r = "ok"
               THEN s' = [k EXCEPT !.state = WaitMessage3] /\ UNCHANGED driver
               ELSE RemoveAndForget(k, driver)
    BY <1>6
  <2>2. Message2(k) \in AnswerType /\ Message2(k).key = key /\ Message2(k).kind = "m2"
    BY <1>3, <1>4, Answers
  <2>3. \A g \in toAp' : g \in toAp \/ g = Message2(k)
    BY <2>1, Sent
  <2>4. fresh \in Nat /\ fresh < fresh' /\ fresh' = fresh + 1
    BY <1>6, StationFacts
  <2> DEFINE g == Message2(k)
  <2>5. CASE RemoveAndForget(k, driver)
    BY <1>1, <1>3, <1>4, <2>2, <2>3, <2>4, <2>5, StationFacts, Ends
  <2>6. CASE s' = [k EXCEPT !.state = WaitMessage3] /\ UNCHANGED driver
    <3>1. /\ s' \in SessionType /\ s'.state = WaitMessage3 /\ s'.ptk = key /\ s'.pmk = s.pmk
          /\ s'.generation = s.generation /\ s'.keys_installed = s.keys_installed
      BY <1>4, <1>5, <2>6 DEF SessionType
    <3> HIDE DEF k
    <3>2. DriverFollows /\ KeyFollows
      BY <1>3, <2>4, <2>6, <3>1 DEF DriverFollows, KeyFollows
    <3>3. AnswerFollows
      BY <1>1, <1>3, <2>2, <2>3, <2>4 DEF AnswerFollows
    <3>4. Snonce(s'.ptk) > ap.anonce /\ Anonce(s'.ptk) < Snonce(s'.ptk)
      BY <1>1, <1>3, <3>1, StationFacts
    <3>5. /\ driver' = driver /\ driver' \in DriverType /\ fresh' \in {fresh, fresh + 1}
          /\ driver.key # NoKey => s.keys_installed
          /\ ~s.keys_installed
      BY <1>1, <2>4, <2>6, StationFacts
    <3>6. /\ s'.state \in Waiting /\ s'.state # Uninitialized /\ s'.state # Completed
      BY <3>1, StatesDiffer DEF Waiting
    <3>7. s'.pmk \in Passphrases /\ s'.ptk \in Keys /\ s'.ptk[1] = s'.pmk /\ ~s'.keys_installed
      BY <1>3, <3>1, <3>5
    <3>8. driver'.key # NoKey => s'.keys_installed
      BY <3>1, <3>5
    <3> QED BY <1>1, <3>1, <3>2, <3>3, <3>4, <3>5, <3>6, <3>7, <3>8 DEF StationStep
  <2> QED BY <2>1, <2>5, <2>6
<1> QED BY <1>2, <1>6 DEF ProcessMessage1, key

\* A message 3 under the session's own key is of the association under way: its
\* authenticator holds that key.
LEMMA Message3IsOurs ==
  ASSUME HandshakeInv, s.state = WaitMessage3, NEW f \in toStation, f.kind = "m3", f.key = s.ptk
  PROVE  s.ptk = ap.ptk
<1>1. s.ptk \in Keys /\ Snonce(s.ptk) > ap.anonce /\ ap.anonce \in Nat
  BY StationFacts
<1>2. f.key = ap.ptk \/ Snonce(f.key) < ap.anonce
  BY DEF HandshakeInv, FramesMatch
<1> QED BY <1>1, <1>2, KeyParts

LEMMA InstallSteps ==
  ASSUME HandshakeInv, NEW f \in toStation, s.state = WaitMessage3, f.kind = "m3",
         f.key = s.ptk, InstallAndConfirm(f),
         UNCHANGED <<fresh, ap, toStation, air, delivered>>
  PROVE  StationStep
<1> DEFINE k == BeforeInstall(f)
<1>1. /\ s \in SessionType /\ s.ptk \in Keys /\ s.ptk[1] = s.pmk /\ Snonce(s.ptk) > ap.anonce
      /\ Anonce(s.ptk) < Snonce(s.ptk) /\ Snonce(s.ptk) < fresh /\ s.pmk \in Passphrases
      /\ driver \in DriverType /\ f \in FrameType /\ s.state # Uninitialized
      /\ s.ptk = ap.ptk
  BY StationFacts, StatesDiffer, Message3IsOurs
<1>2. /\ k \in SessionType /\ k.ptk = s.ptk /\ k.pmk = s.pmk /\ k.generation = s.generation
      /\ k.keys_installed
  BY <1>1 DEF BeforeInstall, SessionType, FrameType
<1>3. [k EXCEPT !.state = Completed] \in SessionType
  BY <1>2 DEF SessionType, States
<1>4. PICK r \in Results :
        IF r = "ok"
          THEN \E q \in Results :
                 /\ Send(q, Message4(k))
                 /\ IF q = "ok"
                      THEN /\ s' = [k EXCEPT !.state = Completed]
                           /\ driver' = AfterInstall(r, k.ptk)
                      ELSE RemoveAndForget(k, AfterInstall(r, k.ptk))
          ELSE /\ RemoveAndForget(k, AfterInstall(r, k.ptk))
               /\ UNCHANGED toAp
  BY DEF InstallAndConfirm
<1> DEFINE d == AfterInstall(r, k.ptk)
<1>5. d = driver \/ d = CcmpStateInit(s.ptk)
  BY <1>2 DEF AfterInstall
<1>6. d \in DriverType
  BY <1>1, <1>5, DriverStates
<1> HIDE DEF k, d
<1>7. CASE RemoveAndForget(k, d) /\ UNCHANGED toAp
  BY <1>1, <1>2, <1>5, <1>6, <1>7, Ends
<1>8. CASE \E q \in Results : Send(q, Message4(k)) /\ r = "ok"
                              /\ (\/ s' = [k EXCEPT !.state = Completed] /\ driver' = d
                                  \/ RemoveAndForget(k, d))
  <2>1. PICK q \in Results : Send(q, Message4(k))
    BY <1>8
  <2>2. Message4(k) \in AnswerType /\ Message4(k).key = s.ptk
    BY <1>1, <1>2, Answers
  <2>3. \A g \in toAp' : g \in toAp \/ g = Message4(k)
    BY <2>1, Sent
  <2>4. CASE RemoveAndForget(k, d)
    BY <1>1, <1>2, <1>5, <1>6, <2>2, <2>3, <2>4, Ends
  <2>5. CASE s' = [k EXCEPT !.state = Completed] /\ driver' = d
    <3>1. /\ s' \in SessionType /\ s'.state = Completed /\ s'.ptk = s.ptk /\ s'.pmk = s.pmk
          /\ s'.generation = s.generation /\ s'.keys_installed
      BY <1>2, <1>3, <2>5 DEF SessionType
    <3>2. d = CcmpStateInit(s.ptk) /\ d.key = s.ptk
      BY <1>1, <1>2, <1>8, DriverStates DEF d, AfterInstall, Acted
    <3>3. DriverFollows /\ KeyFollows
      BY <2>5, <3>1, <3>2, StatesDiffer DEF DriverFollows, KeyFollows
    <3>4. s'.state \notin Waiting /\ s'.state # Uninitialized
      BY <3>1, StatesDiffer DEF Waiting
    <3>5. AnswerFollows
      BY <1>1, <2>2, <2>3, <3>4 DEF AnswerFollows
    <3> QED BY <1>1, <1>6, <2>5, <3>1, <3>2, <3>3, <3>4, <3>5 DEF StationStep
  <2> QED BY <1>8, <2>4, <2>5
<1> QED BY <1>4, <1>7, <1>8 DEF d

LEMMA ProcessSteps ==
  ASSUME HandshakeInv, NEW f \in toStation, Process(f),
         UNCHANGED <<ap, toStation, air, delivered>>
  PROVE  StationStep
<1>1. CASE ProcessMessage1(f)
  BY <1>1, Message1Steps
<1>2. s.state \in {WaitMessage3, Completed} =>
        /\ s.state # Uninitialized
        /\ Message2(s) \in AnswerType /\ Message2(s).key = s.ptk /\ Message2(s).kind = "m2"
        /\ Message4(s) \in AnswerType /\ Message4(s).key = s.ptk /\ Message4(s).kind = "m4"
  BY StationFacts, StatesDiffer, Answers
<1>3. CASE ResendMessage2(f)
  <2>1. s.state = WaitMessage3 /\ UNCHANGED fresh
    BY <1>3 DEF ResendMessage2, SameMessage1
  <2>2. PICK r \in Results :
          Send(r, Message2(s)) /\ (UNCHANGED <<s, driver>> \/ RemoveAndForget(s, driver))
    BY <1>3 DEF ResendMessage2
  <2> QED BY <1>2, <2>1, <2>2, SendsAgain
<1>4. CASE ProcessMessage3(f)
  <2>1. s.state = WaitMessage3 /\ UNCHANGED fresh /\ f.kind = "m3" /\ s.state # Uninitialized
    BY <1>4, StatesDiffer DEF ProcessMessage3, Message3Valid
  <2>2. \/ f.key = s.ptk /\ InstallAndConfirm(f)
        \/ RemoveAndForget(s, driver) /\ UNCHANGED toAp
    BY <1>4 DEF ProcessMessage3
  <2> QED BY <2>1, <2>2, InstallSteps, EndsAtOnce
<1>5. CASE RetransmittedMessage3(f)
  <2>1. s.state = Completed /\ UNCHANGED fresh
    BY <1>5 DEF RetransmittedMessage3
  <2>2. \/ ConfirmAgain(f)
        \/ RemoveAndForget(s, driver) /\ UNCHANGED toAp
    BY <1>5 DEF RetransmittedMessage3
  <2>3. CASE ConfirmAgain(f)
    <3>1. PICK r \in Results :
            Send(r, Message4(s)) /\ (UNCHANGED <<s, driver>> \/ RemoveAndForget(s, driver))
      BY <2>3 DEF ConfirmAgain
    <3> QED BY <1>2, <2>1, <3>1, SendsAgain
  <2> QED BY <1>2, <2>1, <2>2, <2>3, EndsAtOnce
<1>6. CASE UnexpectedFrame(f)
  BY <1>6, EndsAtOnce DEF UnexpectedFrame
<1> QED BY <1>1, <1>3, <1>4, <1>5, <1>6 DEF Process

LEMMA StationSteps ==
  ASSUME HandshakeInv, StationProcesses \/ OwnerForgets
  PROVE  HandshakeInv'
<1>1. CASE StationProcesses
  BY <1>1, ProcessSteps, StationKeeps DEF StationProcesses
<1>2. CASE OwnerForgets
  <2>1. StationStep
    BY <1>2, EndsAtOnce DEF OwnerForgets, Forget
  <2> QED BY <2>1, StationKeeps
<1> QED BY <1>1, <1>2

-----------------------------------------------------------------------------
(* The authenticator and the data frames                                    *)

\* The authenticator stays where it is, takes the key of a message 2, or takes a
\* message 4 for its key.
KeyAgreed ==
  \/ ap'.state = ap.state /\ ap'.ptk = ap.ptk
  \/ /\ ap.state = "m1" /\ ap'.state = "m3"
     /\ ap'.ptk \in Keys /\ ap'.ptk[1] = ap.pmk /\ Anonce(ap'.ptk) = ap.anonce
     /\ Snonce(ap'.ptk) > ap.anonce /\ Snonce(ap'.ptk) < fresh
  \/ ap.state = "m3" /\ ap'.state = "done" /\ ap'.ptk = ap.ptk /\ s.state \notin Waiting

ApStep ==
  /\ UNCHANGED <<s, driver, toAp, fresh, delivered>>
  /\ ap' \in ApType
  /\ ap'.generation = ap.generation /\ ap'.pmk = ap.pmk /\ ap'.anonce = ap.anonce
  /\ KeyAgreed
  /\ \A f \in toStation' : \/ f \in toStation
                           \/ /\ f \in FrameType /\ f.nonce < fresh
                              /\ f.kind = "m3" => f.key = ap'.ptk /\ f.key \in Keys
  /\ \A f \in air' : f \in air \/ (f \in DataType /\ f.dir = "down")

LEMMA ApKeeps == HandshakeInv /\ ApStep => HandshakeInv'
<1> SUFFICES ASSUME HandshakeInv, ApStep PROVE HandshakeInv'
  OBVIOUS
<1> USE DEF HandshakeInv
<1>1. /\ UNCHANGED <<s, driver, toAp, fresh, delivered>>
      /\ ap' \in ApType /\ ap'.generation = ap.generation /\ ap'.pmk = ap.pmk
      /\ ap'.anonce = ap.anonce /\ KeyAgreed
  BY DEF ApStep
<1>2. ap.ptk # ap'.ptk => ap.state = "m1" /\ ap.ptk = NoKey /\ NoKey \notin Keys
  BY <1>1, NoKeyIsNone DEF KeyAgreed, AuthenticatorMatches
<1>3. HandshakeTypes'
  <2>1. toStation' \in SUBSET FrameType
    BY DEF ApStep, HandshakeTypes
  <2>2. air' \in SUBSET DataType
    BY DEF ApStep, HandshakeTypes
  <2> QED BY <1>1, <2>1, <2>2 DEF HandshakeTypes
<1>4. SessionMatches'
  <2>1. s.state = Completed => ap'.ptk = ap.ptk
    BY <1>2 DEF SessionMatches
  <2> QED BY <1>1, <2>1 DEF SessionMatches
<1>5. AuthenticatorMatches'
  BY <1>1 DEF AuthenticatorMatches, KeyAgreed
<1>6. NoncesDrawn'
  <2>1. ap'.ptk # NoKey => Snonce(ap'.ptk) < fresh
    BY <1>1 DEF NoncesDrawn, KeyAgreed
  <2>2. \A f \in toStation' : f.nonce < fresh
    BY DEF NoncesDrawn, ApStep
  <2>3. \A f \in air' : f.dir = "up" => Snonce(f.key) < fresh
    BY DEF NoncesDrawn, ApStep
  <2> QED BY <1>1, <2>1, <2>2, <2>3 DEF NoncesDrawn
<1>7. FramesMatch'
  <2>1. \A f \in toStation' : f.kind = "m3" =>
          f.key \in Keys /\ (f.key = ap'.ptk \/ Snonce(f.key) < ap.anonce)
    BY <1>2 DEF FramesMatch, ApStep
  <2> QED BY <1>1, <2>1 DEF FramesMatch
<1>8. NumbersMatch'
  BY <1>1 DEF NumbersMatch, ApStep
<1>9. NoPacketNumberReuse'
  BY <1>1 DEF NoPacketNumberReuse, ApStep
<1>10. KeysAccountedFor' /\ DeliveredInOrder'
  BY <1>1 DEF KeysAccountedFor, DeliveredInOrder
<1> QED BY <1>3, <1>4, <1>5, <1>6, <1>7, <1>8, <1>9, <1>10

LEMMA ApFacts ==
  ASSUME HandshakeInv
  PROVE  /\ ap \in ApType /\ ap.rc \in Nat /\ ap.anonce \in Nat /\ ap.anonce < fresh /\ fresh \in Nat
         /\ fresh > 0
         /\ \A f \in toAp : f \in AnswerType /\ Anonce(f.key) < Snonce(f.key) /\ Snonce(f.key) < fresh
         /\ ap.state \in {"m3", "done"} => ap.ptk \in Keys
<1>1. ap \in ApType /\ fresh \in Nat /\ \A f \in toAp : f \in AnswerType
  BY DEF HandshakeInv, HandshakeTypes
<1>2. ap.rc \in Nat /\ ap.anonce \in Nat /\ ap.anonce < fresh
  BY <1>1 DEF HandshakeInv, AuthenticatorMatches, ApType
<1> QED BY <1>1, <1>2 DEF HandshakeInv, NoncesDrawn, AuthenticatorMatches

\* The frame that ApSends adds.
LEMMA FrameSent ==
  ASSUME HandshakeInv, NEW kind \in {"m1", "m3", "group"}, ApSends(kind),
         ap'.ptk \in Keys \cup {NoKey}, kind = "m3" => ap'.ptk \in Keys
  PROVE  \A f \in toStation' : \/ f \in toStation
                               \/ /\ f \in FrameType /\ f.nonce < fresh
                                  /\ f.kind = "m3" => f.key = ap'.ptk /\ f.key \in Keys
<1>1. PICK gtk \in BOOLEAN :
        toStation' = toStation \cup
          {Frame(kind, ap.rc + 1, IF kind = "group" THEN 0 ELSE ap.anonce, ap'.ptk, gtk)}
  BY DEF ApSends
<1> DEFINE nonce == IF kind = "group" THEN 0 ELSE ap.anonce
           g == Frame(kind, ap.rc + 1, nonce, ap'.ptk, gtk)
<1>2. nonce \in Nat /\ nonce < fresh /\ ap.rc + 1 \in Nat
  BY ApFacts
<1> HIDE DEF nonce
<1>3. g \in FrameType /\ g.nonce = nonce /\ g.kind = kind /\ g.key = ap'.ptk
  BY <1>2 DEF Frame, FrameType
<1> HIDE DEF g
<1>4. \A f \in toStation' : f \in toStation \/ f = g
  BY <1>1 DEF g, nonce
<1> QED BY <1>2, <1>3, <1>4

LEMMA ApSteps ==
  ASSUME HandshakeInv, ApRetries \/ ApReceivesMessage2 \/ ApReceivesMessage4 \/ ApRenewsGroupKey
  PROVE  ApStep
<1>1. CASE ApRetries \/ ApRenewsGroupKey
  <2>1. PICK kind \in {"m1", "m3", "group"} :
          /\ ApSends(kind) /\ ap' = [ap EXCEPT !.rc = @ + 1]
          /\ kind = "m3" => ap.state = "m3"
    BY <1>1 DEF ApRetries, ApRenewsGroupKey
  <2>2. /\ ap' \in ApType /\ ap'.generation = ap.generation /\ ap'.pmk = ap.pmk
        /\ ap'.anonce = ap.anonce /\ ap'.state = ap.state /\ ap'.ptk = ap.ptk
    BY <2>1, ApFacts DEF ApType
  <2>3. KeyAgreed /\ ap'.ptk \in Keys \cup {NoKey} /\ (kind = "m3" => ap'.ptk \in Keys)
    BY <2>1, <2>2, ApFacts DEF KeyAgreed, ApType
  <2>4. UNCHANGED <<s, driver, toAp, fresh, delivered, air>>
    BY <2>1 DEF ApSends, supVars
  <2> QED BY <2>1, <2>2, <2>3, <2>4, FrameSent DEF ApStep
<1>2. CASE ApReceivesMessage2
  <2>1. PICK f \in toAp :
          /\ f.key = PairwiseKey(ap.pmk, ap.anonce, f.nonce)
          /\ ap' = [ap EXCEPT !.state = "m3", !.rc = @ + 1, !.ptk = f.key]
    BY <1>2 DEF ApReceivesMessage2
  <2>2. /\ ap.state = "m1" /\ ApSends("m3")
        /\ f \in AnswerType /\ f.key \in Keys /\ f.nonce \in Nat
    BY <1>2, <2>1, ApFacts DEF ApReceivesMessage2, AnswerType
  <2>3. ap.pmk \in Passphrases
    BY <2>2 DEF HandshakeInv, AuthenticatorMatches
  <2>4. /\ f.key[1] = ap.pmk /\ Anonce(f.key) = ap.anonce
        /\ Snonce(f.key) > ap.anonce /\ Snonce(f.key) < fresh
    BY <2>1, <2>2, <2>3, ApFacts, KeyOf
  <2>5. /\ ap' \in ApType /\ ap'.generation = ap.generation /\ ap'.pmk = ap.pmk
        /\ ap'.anonce = ap.anonce /\ ap'.state = "m3" /\ ap'.ptk = f.key
    <3>1. \A key \in Keys, rc \in Nat :
            LET n == [ap EXCEPT !.state = "m3", !.rc = rc, !.ptk = key]
            IN  /\ n \in ApType /\ n.generation = ap.generation /\ n.pmk = ap.pmk
                /\ n.anonce = ap.anonce /\ n.state = "m3" /\ n.ptk = key
      BY ApFacts DEF ApType
    <3>2. ap.rc + 1 \in Nat
      BY ApFacts
    <3> QED BY <2>1, <2>2, <3>1, <3>2
  <2>6. KeyAgreed
    BY <2>2, <2>4, <2>5 DEF KeyAgreed
  <2>7. UNCHANGED <<s, driver, toAp, fresh, delivered, air>>
    BY <2>2 DEF ApSends, supVars
  <2> QED BY <2>2, <2>5, <2>6, <2>7, FrameSent DEF ApStep
<1>3. CASE ApReceivesMessage4
  <2>1. PICK f \in toAp : f.kind = "m4" /\ f.key = ap.ptk
    BY <1>3 DEF ApReceivesMessage4
  <2>2. /\ ap.state = "m3" /\ ap' = [ap EXCEPT !.state = "done"]
        /\ UNCHANGED <<s, driver, toAp, fresh, delivered, air, toStation>>
    BY <1>3 DEF ApReceivesMessage4, supVars
  <2>3. Snonce(ap.ptk) > ap.anonce
    BY <2>2 DEF HandshakeInv, AuthenticatorMatches
  <2>4. s.state \notin Waiting
    BY <2>1, <2>3 DEF HandshakeInv, FramesMatch
  <2>5. /\ ap' \in ApType /\ ap'.generation = ap.generation /\ ap'.pmk = ap.pmk
        /\ ap'.anonce = ap.anonce /\ ap'.state = "done" /\ ap'.ptk = ap.ptk
    BY <2>2, ApFacts DEF ApType
  <2>6. KeyAgreed
    BY <2>2, <2>4, <2>5 DEF KeyAgreed
  <2> QED BY <2>2, <2>5, <2>6 DEF ApStep
<1> QED BY <1>1, <1>2, <1>3

LEMMA ApEncryptsStep ==
  ASSUME HandshakeInv, NEW t \in Tids, ApEncrypts(t)
  PROVE  ApStep
<1>1. /\ ap.state = "done" /\ ap' = [ap EXCEPT !.pn = @ + 1]
      /\ air' = air \cup {DataFrame("down", ap.ptk, t, ap.pn + 1)}
      /\ UNCHANGED <<s, driver, toAp, fresh, delivered, toStation>>
  BY DEF ApEncrypts, supVars
<1>2. ap \in ApType /\ ap.pn + 1 \in Nat /\ ap.ptk \in Keys
  BY <1>1, ApFacts DEF ApType
<1>3. /\ ap' \in ApType /\ ap'.generation = ap.generation /\ ap'.pmk = ap.pmk
      /\ ap'.anonce = ap.anonce /\ ap'.state = ap.state /\ ap'.ptk = ap.ptk
  BY <1>1, <1>2 DEF ApType
<1>4. /\ DataFrame("down", ap.ptk, t, ap.pn + 1) \in DataType
      /\ DataFrame("down", ap.ptk, t, ap.pn + 1).dir = "down"
  BY <1>2 DEF DataFrame, DataType
<1> QED BY <1>1, <1>3, <1>4 DEF ApStep, KeyAgreed

\* A data frame from the station takes the next packet number of its key.
LEMMA StationEncryptsKeeps ==
  ASSUME HandshakeInv, NEW t \in Tids, StationEncrypts(t)
  PROVE  HandshakeInv'
<1> USE DEF HandshakeInv
<1>1. /\ driver.key # NoKey /\ driver.next[t] # 0
      /\ driver' = [driver EXCEPT !.next[t] = NextPn(@)]
      /\ air' = air \cup {DataFrame("up", driver.key, t, driver.next[t])}
      /\ UNCHANGED <<s, toAp, fresh, ap, toStation, delivered>>
  BY DEF StationEncrypts, CcmpEncryptNext
<1> DEFINE n == driver.next[t]
           g == DataFrame("up", driver.key, t, n)
<1>2. driver \in DriverType /\ driver.key \in Keys /\ n \in Nat
  BY <1>1 DEF HandshakeTypes, DriverType
<1>3. NextPn(n) \in Nat /\ (NextPn(n) = 0 \/ NextPn(n) = n + 1)
  BY <1>2 DEF NextPn
<1>4. /\ driver' \in DriverType /\ driver'.key = driver.key /\ driver'.last = driver.last
      /\ driver'.next[t] = NextPn(n)
      /\ \A u \in Tids : u # t => driver'.next[u] = driver.next[u]
  BY <1>1, <1>2, <1>3 DEF DriverType
<1>5. /\ g \in DataType /\ g.dir = "up" /\ g.key = driver.key /\ g.tid = t /\ g.pn = n
  BY <1>2 DEF DataFrame, DataType
<1> HIDE DEF g
<1>6. \A f \in air' : f \in air \/ f = g
  BY <1>1 DEF g
<1>7. HandshakeTypes'
  <2>1. air' \in SUBSET DataType
    BY <1>5, <1>6 DEF HandshakeTypes
  <2> QED BY <1>1, <1>4, <2>1 DEF HandshakeTypes
<1>8. SessionMatches'
  BY <1>1, <1>4 DEF SessionMatches
<1>9. AuthenticatorMatches'
  BY <1>1 DEF AuthenticatorMatches
<1>10. NoncesDrawn'
  <2>1. Snonce(driver.key) < fresh
    BY <1>1 DEF NoncesDrawn
  <2>2. \A f \in air' : f.dir = "up" => Snonce(f.key) < fresh
    BY <1>5, <1>6, <2>1 DEF NoncesDrawn
  <2> QED BY <1>1, <1>4, <2>1, <2>2 DEF NoncesDrawn
<1>11. FramesMatch'
  BY <1>1 DEF FramesMatch
<1>12. NumbersMatch'
  <2>1. s.state # WaitMessage3
    BY <1>1, StationFacts DEF Waiting
  <2> QED BY <1>1, <1>4, <2>1 DEF NumbersMatch
<1>13. NoPacketNumberReuse'
  <2> SUFFICES ASSUME NEW f \in air', f.dir = "up", f.key = driver.key
               PROVE  driver'.next[f.tid] = 0 \/ f.pn < driver'.next[f.tid]
    BY <1>4 DEF NoPacketNumberReuse
  <2>1. f \in DataType /\ f.tid \in Tids /\ f.pn \in Nat
    BY <1>5, <1>6 DEF HandshakeTypes, DataType
  <2>2. CASE f = g
    BY <1>2, <1>3, <1>4, <1>5, <2>2
  <2>3. CASE f \in air /\ f.tid = t
    <3>1. f.pn < n
      BY <1>1, <2>3 DEF NoPacketNumberReuse
    <3> QED BY <1>2, <1>3, <1>4, <2>1, <2>3, <3>1
  <2>4. CASE f \in air /\ f.tid # t
    BY <1>4, <2>1, <2>4 DEF NoPacketNumberReuse
  <2> QED BY <1>6, <2>2, <2>3, <2>4
<1>14. KeysAccountedFor' /\ DeliveredInOrder'
  BY <1>1, <1>4 DEF KeysAccountedFor, DeliveredInOrder
<1> QED BY <1>7, <1>8, <1>9, <1>10, <1>11, <1>12, <1>13, <1>14

\* A data frame is handed up only with a packet number beyond the last one.
LEMMA StationDecryptsKeeps ==
  ASSUME HandshakeInv, StationDecrypts
  PROVE  HandshakeInv'
<1> USE DEF HandshakeInv
<1>1. PICK g \in air : g.dir = "down" /\ CcmpDecryptNext(g) /\ delivered' = Append(delivered, g)
  BY DEF StationDecrypts
<1>2. /\ driver.key # NoKey /\ g.key = driver.key /\ g.pn > driver.last[g.tid]
      /\ driver' = [driver EXCEPT !.last[g.tid] = g.pn]
      /\ UNCHANGED <<s, toAp, fresh, ap, toStation, air>>
  BY <1>1 DEF StationDecrypts, CcmpDecryptNext, CcmpAccepts
<1>3. /\ driver \in DriverType /\ delivered \in Seq(DataType) /\ g \in DataType
      /\ g.tid \in Tids /\ g.pn \in Nat
  BY DEF HandshakeTypes, DataType
<1>4. /\ driver' \in DriverType /\ driver'.key = driver.key /\ driver'.next = driver.next
      /\ driver'.last[g.tid] = g.pn
      /\ \A u \in Tids : u # g.tid => driver'.last[u] = driver.last[u]
  BY <1>2, <1>3 DEF DriverType
<1> DEFINE last == Len(delivered) + 1
<1>5. /\ Len(delivered) \in Nat /\ DOMAIN delivered = 1..Len(delivered)
      /\ delivered' \in Seq(DataType) /\ Len(delivered') = last
      /\ \A i \in 1..Len(delivered) : delivered'[i] = delivered[i] /\ delivered[i] \in DataType
      /\ delivered'[last] = g
  BY <1>1, <1>3, AppendProperties, LenProperties, ElementOfSeq
<1>6. /\ DOMAIN delivered' = 1..last
      /\ \A i \in 1..last : i \in 1..Len(delivered) \/ i = last
  BY <1>5, LenProperties
<1>7. HandshakeTypes'
  BY <1>2, <1>4, <1>5 DEF HandshakeTypes
<1>8. SessionMatches'
  BY <1>2, <1>4 DEF SessionMatches
<1>9. AuthenticatorMatches'
  BY <1>2 DEF AuthenticatorMatches
<1>10. Snonce(driver.key) < fresh
  BY <1>2 DEF NoncesDrawn
<1>11. NoncesDrawn'
  <2>1. \A i \in DOMAIN delivered' : Snonce(delivered'[i].key) < fresh
    BY <1>2, <1>5, <1>6, <1>10 DEF NoncesDrawn
  <2> QED BY <1>2, <1>4, <2>1 DEF NoncesDrawn
<1>12. FramesMatch'
  BY <1>2 DEF FramesMatch
<1>13. \A i \in 1..Len(delivered) :
         delivered[i].key = driver.key => delivered[i].pn <= driver.last[delivered[i].tid]
  BY <1>5 DEF NumbersMatch
<1>14. NumbersMatch'
  <2>1. s.state # WaitMessage3
    BY <1>2, StationFacts DEF Waiting
  <2>2. ASSUME NEW i \in 1..last, delivered'[i].key = driver.key
        PROVE  delivered'[i].pn <= driver'.last[delivered'[i].tid]
    <3>1. CASE i = last
      BY <1>3, <1>4, <1>5, <3>1
    <3>2. CASE i \in 1..Len(delivered)
      <4>1. /\ delivered'[i] = delivered[i] /\ delivered[i].tid \in Tids /\ delivered[i].pn \in Nat
            /\ delivered[i].pn <= driver.last[delivered[i].tid]
        BY <1>5, <1>13, <2>2, <3>2 DEF DataType
      <4>2. driver.last[delivered[i].tid] \in Nat
        BY <1>3, <4>1 DEF DriverType
      <4>3. driver.last[delivered[i].tid] <= driver'.last[delivered[i].tid]
        BY <1>2, <1>3, <1>4, <4>1, <4>2
      <4>4. driver'.last[delivered[i].tid] \in Nat
        BY <1>4, <4>1 DEF DriverType
      <4> QED BY <4>1, <4>2, <4>3, <4>4
    <3> QED BY <1>6, <3>1, <3>2
  <2> QED BY <1>2, <1>4, <1>6, <2>1, <2>2 DEF NumbersMatch
<1>15. NoPacketNumberReuse' /\ KeysAccountedFor'
  BY <1>2, <1>4 DEF NoPacketNumberReuse, KeysAccountedFor
<1>16. DeliveredInOrder'
  <2> SUFFICES ASSUME NEW i \in 1..last, NEW j \in 1..last, i < j,
                      delivered'[i].key = delivered'[j].key,
                      delivered'[i].tid = delivered'[j].tid
               PROVE  delivered'[i].pn < delivered'[j].pn
    BY <1>5 DEF DeliveredInOrder
  <2>1. i \in 1..Len(delivered)
    BY <1>5
  <2>2. CASE j \in 1..Len(delivered)
    BY <1>5, <2>1, <2>2 DEF DeliveredInOrder
  <2>3. CASE j = last
    <3>1. /\ delivered[i].key = driver.key /\ delivered[i].tid = g.tid
          /\ delivered[i].pn \in Nat /\ delivered'[i] = delivered[i] /\ delivered'[j] = g
      BY <1>2, <1>5, <2>1, <2>3 DEF DataType
    <3>2. delivered[i].pn <= driver.last[g.tid] /\ driver.last[g.tid] \in Nat
      BY <1>3, <1>13, <2>1, <3>1 DEF DriverType
    <3> QED BY <1>2, <1>3, <3>1, <3>2
  <2> QED BY <1>6, <2>2, <2>3
<1> QED BY <1>7, <1>8, <1>9, <1>11, <1>12, <1>14, <1>15, <1>16

-----------------------------------------------------------------------------
(* The owner                                                                *)

\* An association begins when the record is free: no key is at the driver, and
\* every nonce on its way is older than the authenticator's new one.
LEMMA AssociateKeeps == HandshakeInv /\ Associate => HandshakeInv'
<1> SUFFICES ASSUME HandshakeInv, Associate PROVE HandshakeInv'
  OBVIOUS
<1> USE DEF HandshakeInv
<1>1. PICK p \in Passphrases, q \in Passphrases :
        /\ SupplicantInit(ap.generation + 1, p)
        /\ ap' = [state |-> "m1", generation |-> ap.generation + 1, pmk |-> q,
                  rc |-> 1, anonce |-> fresh, ptk |-> NoKey, pn |-> 0]
  BY DEF Associate
<1>2. /\ ~s.keys_installed /\ fresh' = fresh + 1
      /\ toStation' = toStation \cup {Frame("m1", 1, fresh, NoKey, FALSE)}
      /\ UNCHANGED <<driver, toAp, air, delivered>>
  BY DEF Associate, OwnerMayInit
<1>3. ap \in ApType /\ fresh \in Nat /\ ap.generation \in Nat /\ ap.anonce < fresh
      /\ ap.anonce \in Nat
  BY ApFacts DEF ApType
<1>4. /\ s' \in SessionType /\ s'.state = WaitMessage1 /\ s'.generation = ap.generation + 1
      /\ s'.pmk = p /\ ~s'.keys_installed /\ s'.ptk = NoKey
  <2>1. WaitMessage1 \in States /\ ap.generation + 1 \in Nat
    BY <1>3 DEF States
  <2> QED BY <1>1, <2>1, ZeroSessionType DEF SupplicantInit, SessionType
<1>5. /\ ap' \in ApType /\ ap'.state = "m1" /\ ap'.generation = ap.generation + 1
      /\ ap'.pmk = q /\ ap'.anonce = fresh /\ ap'.ptk = NoKey
  BY <1>1, <1>3 DEF ApType
<1> DEFINE g == Frame("m1", 1, fresh, NoKey, FALSE)
<1>6. g \in FrameType /\ g.kind = "m1" /\ g.nonce = fresh
  BY <1>3 DEF Frame, FrameType
<1> HIDE DEF g
<1>7. \A f \in toStation' : f \in toStation \/ f = g
  BY <1>2 DEF g
<1>8. HandshakeTypes'
  <2>1. toStation' \in SUBSET FrameType
    BY <1>6, <1>7 DEF HandshakeTypes
  <2>2. fresh' \in Nat
    BY <1>2, <1>3
  <2> QED BY <1>2, <1>4, <1>5, <2>1, <2>2 DEF HandshakeTypes
<1>9. SessionMatches'
  BY <1>3, <1>4, <1>5, StatesDiffer DEF SessionMatches
<1>10. AuthenticatorMatches'
  BY <1>2, <1>3, <1>5 DEF AuthenticatorMatches
<1>11. \A k \in Keys : Snonce(k) < fresh => Snonce(k) < fresh' /\ ~(Snonce(k) > fresh)
  BY <1>2, <1>3, KeyParts
<1>12. NoncesDrawn'
  <2>1. \A f \in toStation' : f.nonce < fresh'
    <3>1. \A f \in toStation : f.nonce \in Nat /\ f.nonce < fresh
      BY StationFacts
    <3>2. \A n \in Nat : n < fresh => n < fresh'
      BY <1>2, <1>3
    <3>3. g.nonce < fresh'
      BY <1>2, <1>3, <1>6
    <3> QED BY <1>7, <3>1, <3>2, <3>3
  <2>2. driver'.key # NoKey => Snonce(driver'.key) < fresh'
    BY <1>2, <1>11 DEF NoncesDrawn, HandshakeTypes, DriverType
  <2>3. \A f \in toAp' : Anonce(f.key) < Snonce(f.key) /\ Snonce(f.key) < fresh'
    BY <1>2, <1>11 DEF NoncesDrawn, HandshakeTypes, AnswerType
  <2>4. \A f \in air' : f.dir = "up" => Snonce(f.key) < fresh'
    BY <1>2, <1>11 DEF NoncesDrawn, HandshakeTypes, DataType
  <2>5. \A i \in DOMAIN delivered' : Snonce(delivered'[i].key) < fresh'
    <3>1. \A i \in DOMAIN delivered : delivered[i] \in DataType
      BY ElementOfSeq, LenProperties DEF HandshakeTypes
    <3> QED BY <1>2, <1>11, <3>1 DEF NoncesDrawn, DataType
  <2> QED BY <1>4, <1>5, <2>1, <2>2, <2>3, <2>4, <2>5 DEF NoncesDrawn
<1>13. FramesMatch'
  <2>1. \A f \in toStation' : f.kind = "m3" => f.key \in Keys /\ Snonce(f.key) < ap'.anonce
    <3> SUFFICES ASSUME NEW f \in toStation, f.kind = "m3"
                 PROVE  f.key \in Keys /\ Snonce(f.key) < fresh
      BY <1>5, <1>6, <1>7
    <3>1. f.key \in Keys /\ (f.key = ap.ptk \/ Snonce(f.key) < ap.anonce)
      BY DEF FramesMatch
    <3>2. CASE f.key = ap.ptk
      BY <3>1, <3>2, NoKeyIsNone DEF NoncesDrawn
    <3>3. CASE Snonce(f.key) < ap.anonce
      BY <1>3, <3>1, <3>3, KeyParts
    <3> QED BY <3>1, <3>2, <3>3
  <2>2. \A f \in toAp' : ~(Snonce(f.key) > ap'.anonce)
    BY <1>2, <1>5, <1>11 DEF NoncesDrawn, HandshakeTypes, AnswerType
  <2> QED BY <2>1, <2>2 DEF FramesMatch
<1>14. NumbersMatch'
  <2>1. s'.state # WaitMessage3
    BY <1>4, StatesDiffer
  <2> QED BY <1>2, <2>1 DEF NumbersMatch
<1>15. KeysAccountedFor' /\ NoPacketNumberReuse' /\ DeliveredInOrder'
  BY <1>2 DEF KeysAccountedFor, NoPacketNumberReuse, DeliveredInOrder
<1> QED BY <1>8, <1>9, <1>10, <1>12, <1>13, <1>14, <1>15

LEMMA RefusalKeeps == HandshakeInv /\ OwnerInitRefused => HandshakeInv'
<1> SUFFICES ASSUME HandshakeInv, OwnerInitRefused PROVE HandshakeInv'
  OBVIOUS
<1> USE DEF HandshakeInv
<1>1. /\ ~s.keys_installed /\ s' = ZeroSession
      /\ UNCHANGED <<driver, toAp, fresh, ap, toStation, air, delivered>>
  BY DEF OwnerInitRefused, OwnerMayInit, SupplicantInitRefused
<1>2. /\ s' \in SessionType /\ s'.state = Uninitialized /\ s'.state \notin Waiting
      /\ s'.state # WaitMessage3 /\ s'.state # Completed
      /\ s'.generation = 0 /\ ~s'.keys_installed /\ s'.ptk = NoKey
  BY <1>1, ZeroSessionType, StatesDiffer DEF Waiting
<1>3. HandshakeTypes'
  BY <1>1, <1>2 DEF HandshakeTypes
<1>4. SessionMatches'
  BY <1>1, <1>2 DEF SessionMatches
<1>5. AuthenticatorMatches'
  BY <1>1, <1>2 DEF AuthenticatorMatches
<1>6. NoncesDrawn'
  BY <1>1, <1>2 DEF NoncesDrawn
<1>7. FramesMatch'
  BY <1>1, <1>2 DEF FramesMatch
<1>8. NumbersMatch'
  BY <1>1, <1>2 DEF NumbersMatch
<1>9. KeysAccountedFor' /\ NoPacketNumberReuse' /\ DeliveredInOrder'
  BY <1>1 DEF KeysAccountedFor, NoPacketNumberReuse, DeliveredInOrder
<1> QED BY <1>3, <1>4, <1>5, <1>6, <1>7, <1>8, <1>9

-----------------------------------------------------------------------------
(* The theorems                                                             *)

LEMMA HandshakeBegins == HandshakeInit => HandshakeInv
<1> SUFFICES ASSUME HandshakeInit PROVE HandshakeInv
  OBVIOUS
<1>1. /\ s = ZeroSession /\ driver = NoKeys /\ toAp = {} /\ fresh = 1
      /\ toStation = {} /\ air = {} /\ delivered = <<>>
      /\ ap = [state |-> "idle", generation |-> 0, pmk |-> NoKey, rc |-> 0,
               anonce |-> 0, ptk |-> NoKey, pn |-> 0]
  BY DEF HandshakeInit
<1>2. ap \in ApType /\ ap.state = "idle" /\ ap.ptk = NoKey /\ ap.anonce = 0
  BY <1>1 DEF ApType
<1>3. delivered \in Seq(DataType) /\ Len(delivered) = 0 /\ DOMAIN delivered = {}
  BY <1>1, EmptySeq
<1>4. HandshakeTypes
  BY <1>1, <1>2, <1>3, ZeroSessionType, DriverStates DEF HandshakeTypes
<1>5. SessionMatches
  BY <1>1, ZeroSessionType, StatesDiffer DEF SessionMatches, Waiting
<1>6. AuthenticatorMatches
  BY <1>1, <1>2 DEF AuthenticatorMatches
<1>7. NoncesDrawn
  BY <1>1, <1>2, <1>3, ZeroSessionType, DriverStates DEF NoncesDrawn
<1>8. FramesMatch
  BY <1>1 DEF FramesMatch
<1>9. NumbersMatch
  BY <1>1, <1>3 DEF NumbersMatch
<1>10. KeysAccountedFor /\ NoPacketNumberReuse
  BY <1>1, DriverStates DEF KeysAccountedFor, NoPacketNumberReuse
<1>11. DeliveredInOrder
  BY <1>3 DEF DeliveredInOrder
<1> QED BY <1>4, <1>5, <1>6, <1>7, <1>8, <1>9, <1>10, <1>11 DEF HandshakeInv

LEMMA HandshakeNextKeeps == HandshakeInv /\ [HandshakeNext]_handshakeVars => HandshakeInv'
<1> SUFFICES ASSUME HandshakeInv, [HandshakeNext]_handshakeVars PROVE HandshakeInv'
  OBVIOUS
<1>1. CASE UNCHANGED handshakeVars
  BY <1>1 DEF handshakeVars, HandshakeInv, HandshakeTypes, SessionMatches, AuthenticatorMatches,
     NoncesDrawn, FramesMatch, NumbersMatch, KeysAccountedFor, NoPacketNumberReuse, DeliveredInOrder
<1>2. CASE Associate \/ OwnerInitRefused
  BY <1>2, AssociateKeeps, RefusalKeeps
<1>3. CASE ApRetries \/ ApReceivesMessage2 \/ ApReceivesMessage4 \/ ApRenewsGroupKey
  BY <1>3, ApSteps, ApKeeps
<1>4. CASE StationProcesses \/ OwnerForgets
  BY <1>4, StationSteps
<1>5. CASE \E t \in Tids : StationEncrypts(t) \/ ApEncrypts(t)
  BY <1>5, StationEncryptsKeeps, ApEncryptsStep, ApKeeps
<1>6. CASE StationDecrypts
  BY <1>6, StationDecryptsKeeps
<1> QED BY <1>1, <1>2, <1>3, <1>4, <1>5, <1>6 DEF HandshakeNext

LEMMA HandshakeStays == HandshakeSpec => []HandshakeInv
  BY HandshakeBegins, HandshakeNextKeeps, PTL DEF HandshakeSpec

LEMMA HandshakeAgrees == HandshakeInv => BothEndsAgree
<1> SUFFICES ASSUME HandshakeInv, s.generation = ap.generation PROVE BothEndsAgree
  BY DEF BothEndsAgree
<1> USE DEF HandshakeInv
<1>1. ASSUME s.state = Completed
      PROVE  s.ptk = ap.ptk /\ s.pmk = ap.pmk /\ driver.key = s.ptk
  <2>1. /\ s.ptk = ap.ptk /\ driver.key = s.ptk /\ s.ptk \in Keys /\ s.ptk[1] = s.pmk
    BY <1>1 DEF SessionMatches
  <2>2. ap.state \in {"m3", "done"}
    BY <2>1, NoKeyIsNone DEF AuthenticatorMatches, HandshakeTypes, ApType
  <2>3. ap.ptk[1] = ap.pmk
    BY <2>2 DEF AuthenticatorMatches
  <2> QED BY <2>1, <2>3
<1>2. ASSUME ap.state = "done" PROVE s.state \in {Completed, Failed}
  <2>1. s.state \notin Waiting /\ ap.generation > 0 /\ ap.generation \in Nat
    BY <1>2 DEF AuthenticatorMatches, HandshakeTypes, ApType
  <2>2. s.state # Uninitialized
    BY <2>1 DEF SessionMatches
  <2> QED BY <2>1, <2>2 DEF HandshakeTypes, SessionType, States, Waiting
<1> QED BY <1>1, <1>2 DEF BothEndsAgree

\* Whatever the three callbacks do and report (wpa2_supplicant.c), keys are at the
\* driver only while the session knows that they may be.
THEOREM KeysAreAccounted == HandshakeSpec => []KeysAccountedFor
<1>1. HandshakeInv => KeysAccountedFor
  BY DEF HandshakeInv
<1> QED BY <1>1, HandshakeStays, PTL

\* No packet number is used twice under one key, however often the air repeats
\* messages 1 and 3, also those of an association that is over.
THEOREM PacketNumbersFresh == HandshakeSpec => []NoPacketNumberReuse
<1>1. HandshakeInv => NoPacketNumberReuse
  BY DEF HandshakeInv
<1> QED BY <1>1, HandshakeStays, PTL

\* The window of wpa2.c hands up the frames of a key and priority in order, each
\* once, for every number of associations.
THEOREM DeliveryInOrder == HandshakeSpec => []DeliveredInOrder
<1>1. HandshakeInv => DeliveredInOrder
  BY DEF HandshakeInv
<1> QED BY <1>1, HandshakeStays, PTL

\* A completed session holds the key that the authenticator of the association
\* holds, from the same passphrase, and the authenticator is done only with a
\* station that installed it.
THEOREM EndsAgree == HandshakeSpec => []BothEndsAgree
  BY HandshakeStays, HandshakeAgrees, PTL

==============================================================================
