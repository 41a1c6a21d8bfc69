---------------------------- MODULE Wpa2Handshake ---------------------------
(***************************************************************************)
(* The supplicant with an authenticator and the air between them.  The     *)
(* authenticator and the air are external: frames may be lost, delivered   *)
(* late, out of order and more than once, also those of an association     *)
(* that is over, and the authenticator sends its messages again with a     *)
(* higher replay counter when it gets no answer.                           *)
(***************************************************************************)
EXTENDS Wpa2Supplicant

CONSTANTS
  MaxAssociations, \* bound: associations
  MaxCounter      \* bound: replay counters of one association

VARIABLES
  ap,             \* the authenticator
  toStation,      \* EAPOL frames to the station
  air,            \* protected data frames
  delivered       \* history: data frames the station accepted, in order

handshakeVars == <<s, driver, toAp, fresh, ap, toStation, air, delivered>>

\* Every frame has all fields; key is NoKey where there is no MIC.
Frame(kind, rc, nonce, key, gtk) ==
  [kind |-> kind, rc |-> rc, nonce |-> nonce, key |-> key, gtk |-> gtk]

HandshakeInit ==
  /\ s = ZeroSession
  /\ driver = NoKeys
  /\ toAp = {}
  /\ fresh = 1
  /\ ap = [state |-> "idle", generation |-> 0, pmk |-> NoKey, rc |-> 0,
           anonce |-> 0, ptk |-> NoKey, pn |-> 0]
  /\ toStation = {}
  /\ air = {}
  /\ delivered = <<>>

-----------------------------------------------------------------------------
(* The owner and the authenticator associate.  The owner reuses a record
   only when no key of it is left to remove, as the header asks.            *)

OwnerMayInit == s.state \in {Uninitialized, Failed} /\ ~s.keys_installed

Associate ==
  /\ OwnerMayInit
  /\ ap.generation < MaxAssociations
  /\ \E p, q \in Passphrases :
       /\ SupplicantInit(ap.generation + 1, p)
       /\ ap' = [state |-> "m1", generation |-> ap.generation + 1, pmk |-> q,
                 rc |-> 1, anonce |-> fresh, ptk |-> NoKey, pn |-> 0]
  /\ toStation' = toStation \cup {Frame("m1", 1, fresh, NoKey, FALSE)}
  /\ fresh' = fresh + 1
  /\ UNCHANGED <<driver, toAp, air, delivered>>

OwnerInitRefused ==
  /\ OwnerMayInit
  /\ SupplicantInitRefused
  /\ UNCHANGED <<driver, toAp, fresh, ap, toStation, air, delivered>>

ApSends(kind) ==
  /\ ap.rc < MaxCounter
  /\ \E gtk \in (IF kind = "m3" THEN BOOLEAN ELSE {FALSE}) :
       toStation' = toStation \cup
         {Frame(kind, ap.rc + 1, IF kind = "group" THEN 0 ELSE ap.anonce, ap'.ptk, gtk)}
  /\ UNCHANGED <<supVars, air, delivered>>

\* No answer came: the same message with the next replay counter.
ApRetries ==
  /\ ap.state \in {"m1", "m3"}
  /\ ap' = [ap EXCEPT !.rc = @ + 1]
  /\ ApSends(ap.state)

ApReceivesMessage2 ==
  /\ ap.state = "m1"
  /\ \E f \in toAp :
       /\ f.kind = "m2"
       /\ f.rc = ap.rc
       /\ f.key = PairwiseKey(ap.pmk, ap.anonce, f.nonce)
       /\ ap' = [ap EXCEPT !.state = "m3", !.rc = @ + 1, !.ptk = f.key]
  /\ ApSends("m3")

ApReceivesMessage4 ==
  /\ ap.state = "m3"
  /\ \E f \in toAp : f.kind = "m4" /\ f.rc = ap.rc /\ f.key = ap.ptk
  /\ ap' = [ap EXCEPT !.state = "done"]
  /\ UNCHANGED <<supVars, toStation, air, delivered>>

\* A new group key: a handshake of its own, which the supplicant lacks.
ApRenewsGroupKey ==
  /\ ap.state = "done"
  /\ ap' = [ap EXCEPT !.rc = @ + 1]
  /\ ApSends("group")

-----------------------------------------------------------------------------
StationProcesses ==
  /\ \E f \in toStation : Process(f)
  /\ UNCHANGED <<ap, toStation, air, delivered>>

OwnerForgets ==
  /\ Forget
  /\ UNCHANGED <<ap, toStation, air, delivered>>

DataFrame(dir, key, t, pn) == [dir |-> dir, key |-> key, tid |-> t, pn |-> pn]

StationEncrypts(t) ==
  /\ CcmpEncryptNext(t)
  /\ air' = air \cup {DataFrame("up", driver.key, t, driver.next[t])}
  /\ UNCHANGED <<s, toAp, fresh, ap, toStation, delivered>>

ApEncrypts(t) ==
  /\ ap.state = "done"
  /\ ap.pn < PnMax
  /\ ap' = [ap EXCEPT !.pn = @ + 1]
  /\ air' = air \cup {DataFrame("down", ap.ptk, t, ap.pn + 1)}
  /\ UNCHANGED <<supVars, toStation, delivered>>

StationDecrypts ==
  /\ \E f \in {g \in air : g.dir = "down"} :
       /\ CcmpDecryptNext(f)
       /\ delivered' = Append(delivered, f)
  /\ UNCHANGED <<s, toAp, fresh, ap, toStation, air>>

HandshakeNext ==
  \/ Associate
  \/ OwnerInitRefused
  \/ ApRetries
  \/ ApReceivesMessage2
  \/ ApReceivesMessage4
  \/ ApRenewsGroupKey
  \/ StationProcesses
  \/ OwnerForgets
  \/ \E t \in Tids : StationEncrypts(t) \/ ApEncrypts(t)
  \/ StationDecrypts

HandshakeSpec == HandshakeInit /\ [][HandshakeNext]_handshakeVars

-----------------------------------------------------------------------------
(* Properties.                                                              *)

\* No packet number is used twice with one temporal key, whatever handshake
\* messages come again: the number the driver uses next is above every one on
\* the air under the key it holds.
NoPacketNumberReuse ==
  \A f \in air :
    (f.dir = "up" /\ f.key = driver.key) =>
      (driver.next[f.tid] = 0 \/ f.pn < driver.next[f.tid])

\* A protected frame that comes again, or after a later one of its priority, is
\* not handed up, although the air repeats everything, also across associations.
DeliveredInOrder ==
  \A i, j \in 1..Len(delivered) :
    LET f == delivered[i] g == delivered[j]
    IN  (i < j /\ f.key = g.key /\ f.tid = g.tid) => f.pn < g.pn

\* Keys are at the driver only while the session knows that they may be, so
\* that the owner's next removal reaches them, whichever callback failed and
\* whatever it did before it failed.
KeysAccountedFor == driver.key # NoKey => s.keys_installed

\* A completed session and the authenticator of the same association hold the
\* same key, from the same passphrase and nonces, and it is the installed one;
\* and the authenticator is done only with a station that got there.
BothEndsAgree ==
  s.generation = ap.generation =>
    /\ s.state = Completed =>
         /\ s.ptk = ap.ptk
         /\ s.pmk = ap.pmk
         /\ driver.key = s.ptk
    /\ ap.state = "done" => s.state \in {Completed, Failed}
=============================================================================
