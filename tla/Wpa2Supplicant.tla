--------------------------- MODULE Wpa2Supplicant ---------------------------
(***************************************************************************)
(* The WPA2 four-way supplicant (wpa2_supplicant.c) and the packet-number  *)
(* window of the CCMP keys it installs (wpa2.c).                           *)
(*                                                                         *)
(* A pairwise key is the pair of nonces it was derived from, together with *)
(* the passphrase; two parties hold the same key exactly when the three    *)
(* agree, which is what a MIC tests.  The owner serializes the calls, so a *)
(* call is one step; the three callbacks may refuse, or act and yet report *)
(* a failure.                                                              *)
(***************************************************************************)
EXTENDS Integers, Sequences, FiniteSets

CONSTANTS
  Passphrases,   \* what an association may have been configured with
  Tids,          \* QoS priorities, each with packet numbers of its own
  PnMax,         \* RIN_WIFI_WPA2_CCMP_PN_MAX
  NoKey          \* a zeroed key

ASSUME PnMaxAssumption == PnMax \in Nat \ {0}
ASSUME NoKeyAssumption == NoKey \notin Passphrases \X Nat \X Nat

VARIABLES
  s,             \* the session record
  driver,        \* the pairwise CCMP state the station's driver owns
  toAp,          \* EAPOL frames handed to send_eapol
  fresh          \* the next nonce no one has drawn yet

supVars == <<s, driver, toAp, fresh>>

Uninitialized == "UNINITIALIZED"
WaitMessage1 == "WAIT_MESSAGE_1"
WaitMessage3 == "WAIT_MESSAGE_3"
Completed == "COMPLETE"
Failed == "FAILED"

\* What a callback does: it acts and says so, it refuses, or it acts and
\* reports a failure (or is caught modifying its inputs, which is undone).
Results == {"ok", "refused", "ambiguous"}
Acted(r) == r # "refused"

PairwiseKey(pmk, anonce, snonce) == <<pmk, anonce, snonce>>

-----------------------------------------------------------------------------
(* The driver: rin_wifi_wpa2_supplicant_prepare_pairwise_ccmp in its INSTALL
   handling, forget_pairwise_ccmp in its REMOVE handling.                   *)

NoKeys == [key |-> NoKey, next |-> [t \in Tids |-> 0], last |-> [t \in Tids |-> 0]]

CcmpStateInit(key) ==
  [key |-> key, next |-> [t \in Tids |-> 1], last |-> [t \in Tids |-> 0]]

AfterInstall(r, key) == IF Acted(r) THEN CcmpStateInit(key) ELSE driver

\* The packet number encrypt_next uses, and the one after it (0: exhausted).
NextPn(pn) == IF pn = PnMax THEN 0 ELSE pn + 1

CcmpEncryptNext(t) ==
  /\ driver.key # NoKey
  /\ driver.next[t] # 0
  /\ driver' = [driver EXCEPT !.next[t] = NextPn(@)]

\* Mutant: only the frame just before is taken for a repeat.
CcmpAcceptsUnlessLast(f) == f.key = driver.key /\ f.pn # driver.last[f.tid]

\* A frame of another key fails its MIC and moves nothing.
CcmpAccepts(f) == f.key = driver.key /\ f.pn > driver.last[f.tid]

CcmpDecryptNext(f) ==
  /\ driver.key # NoKey
  /\ CcmpAccepts(f)
  /\ driver' = [driver EXCEPT !.last[f.tid] = f.pn]

-----------------------------------------------------------------------------
(* The session.                                                             *)

ZeroSession ==
  [state |-> Uninitialized, generation |-> 0, keys_installed |-> FALSE,
   rc1 |-> 0, rc3 |-> 0, anonce |-> 0, pmk |-> NoKey, ptk |-> NoKey]

SupplicantInit(generation, passphrase) ==
  s' = [ZeroSession EXCEPT !.state = WaitMessage1,
                           !.generation = generation,
                           !.pmk = passphrase]

\* An address, the RSN element or the derivation is refused: all is zeroed.
SupplicantInitRefused == s' = ZeroSession

\* Mutant: the state is left as it was.
ForgetSecretsOnly(k) == [k EXCEPT !.pmk = NoKey, !.ptk = NoKey, !.anonce = 0]

ForgetSecrets(k) ==
  [k EXCEPT !.state = Failed, !.pmk = NoKey, !.ptk = NoKey, !.anonce = 0]

\* Mutant: one request to remove is enough.
StillInstalledNever(r) == FALSE

\* A removal that did not report success is asked for again.
StillInstalled(r) == r # "ok"

\* supplicant_fail and supplicant_forget on a record k and a driver state d:
\* remove_keys if they may be installed, then forget everything.
RemoveAndForget(k, d) ==
  IF k.keys_installed
    THEN \E r \in Results :
           /\ s' = [ForgetSecrets(k) EXCEPT !.keys_installed = StillInstalled(r)]
           /\ driver' = IF Acted(r) THEN NoKeys ELSE d
    ELSE s' = ForgetSecrets(k) /\ driver' = d

Send(r, frame) == toAp' = IF Acted(r) THEN toAp \cup {frame} ELSE toAp

Message2(k) == [kind |-> "m2", rc |-> k.rc1, nonce |-> k.ptk[3], key |-> k.ptk]
Message4(k) == [kind |-> "m4", rc |-> k.rc3, nonce |-> 0, key |-> k.ptk]

Message1Valid(f) == f.kind = "m1" /\ f.nonce # 0
Message3Valid(f) == f.kind = "m3" /\ f.nonce = s.anonce /\ f.rc > s.rc1

\* The first message 1: a nonce is drawn, the key derived, message 2 sent.
ProcessMessage1(f) ==
  /\ s.state = WaitMessage1
  /\ Message1Valid(f)
  /\ \/ \* random_bytes fails or gives the authenticator's own nonce
        RemoveAndForget(s, driver) /\ UNCHANGED <<toAp, fresh>>
     \/ LET k == [s EXCEPT !.anonce = f.nonce, !.rc1 = f.rc,
                           !.ptk = PairwiseKey(s.pmk, f.nonce, fresh)]
        IN  /\ fresh' = fresh + 1
            /\ \E r \in Results :
                 /\ Send(r, Message2(k))
                 /\ IF r = "ok"
                      THEN s' = [k EXCEPT !.state = WaitMessage3] /\ UNCHANGED driver
                      ELSE RemoveAndForget(k, driver)

SameMessage1(f) ==
  /\ s.state = WaitMessage3
  /\ Message1Valid(f)
  /\ f.rc = s.rc1
  /\ f.nonce = s.anonce

ResendMessage2(f) ==
  /\ SameMessage1(f)
  /\ \E r \in Results :
       /\ Send(r, Message2(s))
       /\ IF r = "ok" THEN UNCHANGED <<s, driver>> ELSE RemoveAndForget(s, driver)
  /\ UNCHANGED fresh

\* keys_installed is set before set_keys runs, so that any failure from here
\* on asks for the removal.
BeforeInstall(f) == [s EXCEPT !.rc3 = f.rc, !.keys_installed = TRUE]

InstallAndConfirm(f) ==
  LET k == BeforeInstall(f)
  IN  \E r \in Results :
        IF r = "ok"
          THEN \E q \in Results :
                 /\ Send(q, Message4(k))
                 /\ IF q = "ok"
                      THEN /\ s' = [k EXCEPT !.state = Completed]
                           /\ driver' = AfterInstall(r, k.ptk)
                      ELSE RemoveAndForget(k, AfterInstall(r, k.ptk))
          ELSE /\ RemoveAndForget(k, AfterInstall(r, k.ptk))
               /\ UNCHANGED toAp

\* The first message 3: MIC, key data and GTK are checked, the keys are
\* installed, message 4 confirms them.
ProcessMessage3(f) ==
  /\ s.state = WaitMessage3
  /\ ~SameMessage1(f)
  /\ Message3Valid(f)
  /\ IF f.key = s.ptk /\ f.gtk
       THEN InstallAndConfirm(f)
       ELSE RemoveAndForget(s, driver) /\ UNCHANGED toAp
  /\ UNCHANGED fresh

\* Mutant: the keys are installed again.
ConfirmAndReinstall(f) ==
  \E r \in Results :
    /\ Send(r, Message4(s))
    /\ IF r = "ok"
         THEN UNCHANGED s /\ driver' = CcmpStateInit(s.ptk)
         ELSE RemoveAndForget(s, driver)

\* Message 3 again: only message 4 is sent again, the keys stay as they are.
ConfirmAgain(f) ==
  \E r \in Results :
    /\ Send(r, Message4(s))
    /\ IF r = "ok" THEN UNCHANGED <<s, driver>> ELSE RemoveAndForget(s, driver)

RetransmittedMessage3(f) ==
  /\ s.state = Completed
  /\ Message3Valid(f)
  /\ IF f.rc = s.rc3 /\ f.key = s.ptk
       THEN ConfirmAgain(f)
       ELSE RemoveAndForget(s, driver) /\ UNCHANGED toAp
  /\ UNCHANGED fresh

\* Any other frame ends the session.
UnexpectedFrame(f) ==
  /\ s.state \notin {Uninitialized, Failed}
  /\ ~(s.state = WaitMessage1 /\ Message1Valid(f))
  /\ ~SameMessage1(f)
  /\ ~(s.state \in {WaitMessage3, Completed} /\ Message3Valid(f))
  /\ RemoveAndForget(s, driver)
  /\ UNCHANGED <<toAp, fresh>>

Process(f) ==
  \/ ProcessMessage1(f)
  \/ ResendMessage2(f)
  \/ ProcessMessage3(f)
  \/ RetransmittedMessage3(f)
  \/ UnexpectedFrame(f)

Forget ==
  /\ s.state # Uninitialized
  /\ RemoveAndForget(s, driver)
  /\ UNCHANGED <<toAp, fresh>>
=============================================================================
