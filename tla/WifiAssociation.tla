--------------------------- MODULE WifiAssociation ---------------------------
(***************************************************************************)
(* The Wi-Fi association controller                                        *)
(* (src/src/rin/driver/wifi/association.c): authentication, association,   *)
(* key installation, roaming, suspend and resume of one station, driven by *)
(* its owner, by a monotonic clock and by the events of a driver.          *)
(*                                                                         *)
(* The owner serializes its calls and a callback that re-enters the        *)
(* controller is refused (association.h:117-118), so every call is one     *)
(* step.  A call that returns before it changes anything is a guard that   *)
(* fails.  Commands reach the driver in order; its events reach the        *)
(* controller in any order, late, or more than once.                       *)
(*                                                                         *)
(* Left out: last_status, which is written and never read, and the events  *)
(* that are dropped because a field their type does not use is not zero.   *)
(***************************************************************************)
EXTENDS Naturals, Sequences, FiniteSets

CONSTANTS
    Networks,           \* discovered networks the owner may pass
    None,               \* a zeroed network
    MinTimeout,         \* RIN_WIFI_ASSOCIATION_MIN_TIMEOUT_MS
    MaxTimeout,         \* RIN_WIFI_ASSOCIATION_MAX_TIMEOUT_MS
    MaxRoamAge,         \* RIN_WIFI_ASSOCIATION_MAX_ROAM_AGE_MS
    RoamGains,          \* minimum_signal_gain_db values the owner may pass
    MaxAttempts,        \* UINT64_MAX for controller->generation
    MaxTime,            \* UINT64_MAX for the clock
    MaxScan,            \* bound: scan generations
    MaxCommands,        \* commands the driver can hold
    MaxEvents           \* bound: driver events under way

Securities == {"open", "wpa2", "sae", "transition"}

ASSUME AssociationAssumption ==
    /\ MinTimeout \in Nat \ {0} /\ MaxTimeout \in Nat
    /\ MaxRoamAge \in Nat
    /\ RoamGains \subseteq Nat \ {0}
    /\ MaxAttempts \in Nat /\ MaxTime \in Nat /\ MaxScan \in Nat
    /\ MaxCommands \in Nat \ {0} /\ MaxEvents \in Nat \ {0}
    /\ None \notin Networks

(* wifi_assoc_network_valid refuses any other network.                     *)
ASSUME NetworksAssumption ==
    \A n \in Networks : n.security \in Securities /\ n.pmfRequired \in BOOLEAN

VARIABLES
    c,          \* the controller
    cmds,       \* commands submitted and not yet taken by the driver
    events,     \* events the driver raised
    d,          \* the driver's link
    now,        \* the clock
    barredScan  \* history: the scan a start after the last suspend must beat

associationVars == << c, cmds, events, d, now, barredScan >>

ControllerStates ==
    {"IDLE", "AUTHENTICATING", "ASSOCIATING", "KEY_EXCHANGE", "CONNECTED",
     "DISCONNECTING", "FAILED", "SUSPENDING", "SUSPENDED"}

(* A zeroed selected_security is RIN_WIFI_SECURITY_OPEN.                   *)
IdleController ==
    [state |-> "IDLE", generation |-> 0, deadline |-> 0, replay |-> 0,
     security |-> "open", aid |-> 0, network |-> None, roam |-> None,
     resumeRequired |-> FALSE, resumeTarget |-> None, floor |-> 0]

DriverDown ==
    [generation |-> 0, security |-> "open", network |-> None,
     link |-> "down", aid |-> 0, keys |-> {}]

AssociationInit ==
    /\ c = IdleController
    /\ cmds = << >>
    /\ events = {}
    /\ d = DriverDown
    /\ now = 0
    /\ barredScan = 0

-----------------------------------------------------------------------------
(* Helpers of association.c.                                               *)

(* wifi_assoc_network_valid, as far as the properties tell networks apart. *)
NetworkValid(n) ==
    /\ n.pmfRequired => n.pmfCapable
    /\ n.security \in {"sae", "transition"} => n.pmfCapable

(* wifi_assoc_controller_valid.                                            *)
AssociationValid ==
    /\ c.roam # None => c.state = "DISCONNECTING" /\ NetworkValid(c.roam)
    /\ c.resumeTarget # None => NetworkValid(c.resumeTarget)
    /\ c.resumeRequired => c.state \in {"IDLE", "SUSPENDED"}
    /\ c.state = "SUSPENDED" =>
          /\ c.resumeRequired
          /\ c.resumeTarget # None
          /\ c.deadline = 0
          /\ c.security = "open"
          /\ c.aid = 0
          /\ c.network = None

ClearSelection(k) ==
    [k EXCEPT !.deadline = 0, !.replay = 0, !.security = "open", !.aid = 0,
              !.network = None, !.roam = None]

ClearResumeTarget(k) == [k EXCEPT !.resumeTarget = None]

ClearRoam(k) == [k EXCEPT !.roam = None]

(* Mutant: a failure keeps the roam and resume targets.                    *)
FailKeepsTargets(k) == [k EXCEPT !.state = "FAILED"]

Fail(k) == [ClearResumeTarget(ClearRoam(k)) EXCEPT !.state = "FAILED"]

SelectedSecurity(n) ==
    IF n.security = "transition" THEN "sae" ELSE n.security

(* Mutant: SAE alone does not ask for management frame protection.         *)
PmfNeededOnlyRequired == c.network.pmfRequired

PmfNeeded == c.security = "sae" \/ c.network.pmfRequired

TimeoutValid(t) == t \in MinTimeout .. MaxTimeout

GenerationLeft(k) == k.generation < MaxAttempts

Command(k, op) ==
    [op |-> op, generation |-> k.generation, security |-> k.security,
     network |-> k.network]

(* wifi_assoc_submit: the driver takes the command, refuses it, or is      *)
(* caught changing it, whether or not it also keeps it.                    *)
AssociationSubmit(k, op) ==
    \/ /\ Len(cmds) < MaxCommands
       /\ cmds' = Append(cmds, Command(k, op))
       /\ c' \in {k, Fail(k)}
    \/ /\ cmds' = cmds
       /\ c' = Fail(k)

(* wifi_assoc_now_ms finds that the clock callback changed the controller. *)
ClockFault == c' = Fail(c) /\ UNCHANGED cmds

-----------------------------------------------------------------------------
(* Operations of the owner.                                                *)

(* Mutant: the scan bound is only applied to start_from_scan.              *)
StartRefusedOnlyScan(k, bound, scan) ==
    \/ k.state # "IDLE"
    \/ ~k.resumeRequired /\ k.resumeTarget # None
    \/ bound /\ scan <= k.floor
    \/ bound /\ scan < 1

(* The controller k, IDLE, starts an attempt (wifi_assoc_start).           *)
StartRefused(k, bound, scan) ==
    \/ k.state # "IDLE"
    \/ ~k.resumeRequired /\ k.resumeTarget # None
    \/ k.resumeRequired /\ (~bound \/ scan <= k.floor)
    \/ bound /\ scan < 1

StartFrom(k, n, bound, scan, timeout) ==
    /\ ~StartRefused(k, bound, scan)
    /\ TimeoutValid(timeout) /\ NetworkValid(n)
    /\ GenerationLeft(k)
    /\ \/ /\ c' = Fail(k)
          /\ UNCHANGED << cmds, barredScan >>
       \/ /\ now + timeout <= MaxTime
          /\ AssociationSubmit([ClearResumeTarget(ClearSelection(k)) EXCEPT
                        !.generation = @ + 1,
                        !.deadline = now + timeout,
                        !.floor = IF bound THEN scan ELSE @,
                        !.resumeRequired = FALSE,
                        !.security = SelectedSecurity(n),
                        !.network = n,
                        !.state = "AUTHENTICATING"],
                    "AUTHENTICATE")
          /\ barredScan' = 0

AssociationStart(n, timeout) ==
    /\ AssociationValid
    /\ StartFrom(c, n, FALSE, 0, timeout)
    /\ UNCHANGED << events, d, now >>

StartFromScan(n, scan, timeout) ==
    /\ AssociationValid
    /\ StartFrom(c, n, TRUE, scan, timeout)
    /\ UNCHANGED << events, d, now >>

AssociationDisconnect ==
    /\ AssociationValid
    /\ c.state = "CONNECTED"
    /\ AssociationSubmit([c EXCEPT !.state = "DISCONNECTING"], "DISCONNECT")
    /\ UNCHANGED << events, d, now, barredScan >>

Suspend(scan, timeout) ==
    /\ AssociationValid
    /\ c.state = "CONNECTED"
    /\ scan >= 1 /\ scan >= c.floor /\ TimeoutValid(timeout)
    /\ \/ ClockFault
       \/ /\ now + timeout <= MaxTime
          /\ AssociationSubmit([c EXCEPT !.resumeTarget = c.network,
                              !.floor = scan,
                              !.deadline = now + timeout,
                              !.state = "SUSPENDING"],
                    "QUIESCE")
    /\ UNCHANGED << events, d, now, barredScan >>

CanResume ==
    c.state = "SUSPENDED" /\ c.resumeRequired /\ c.floor # 0

Resumed == [c EXCEPT !.state = "IDLE"]

Resume ==
    /\ AssociationValid
    /\ CanResume
    /\ c' = Resumed
    /\ UNCHANGED << cmds, events, d, now, barredScan >>

(* wifi_assoc_resume_candidate_better                                      *)
Better(m, n) ==
    \/ m.signal > n.signal
    \/ m.signal = n.signal /\ m.bssid < n.bssid

Candidates(scanned) ==
    {n \in scanned :
        /\ n.ssid = c.resumeTarget.ssid
        /\ SelectedSecurity(n) = SelectedSecurity(c.resumeTarget)}

(* The resume stays done when the start that follows it is refused.        *)
ResumeFromScan(scanned, scan, timeout) ==
    /\ AssociationValid
    /\ CanResume /\ c.resumeTarget # None
    /\ scan >= 1 /\ scan > c.floor
    /\ \A n \in scanned : NetworkValid(n)
    /\ \E n \in Candidates(scanned) :
          /\ \A m \in Candidates(scanned) \ {n} : Better(n, m)
          /\ \/ StartFrom(Resumed, n, TRUE, scan, timeout)
             \/ /\ \/ ~TimeoutValid(timeout)
                   \/ ~GenerationLeft(c)
                   \/ now + timeout > MaxTime
                /\ c' = Resumed
                /\ UNCHANGED << cmds, barredScan >>
    /\ UNCHANGED << events, d, now >>

(* Mutant: a roam may leave SAE for WPA2.                                  *)
RoamAllowedAnySecurity(n, gain) ==
    /\ n.bssid # c.network.bssid
    /\ n.ssid = c.network.ssid
    /\ c.network.pmfRequired => n.pmfRequired
    /\ c.network.h2e => n.h2e
    /\ n.signal >= c.network.signal + gain

RoamAllowed(n, gain) ==
    /\ n.bssid # c.network.bssid
    /\ n.ssid = c.network.ssid
    /\ SelectedSecurity(n) = c.security
    /\ c.network.pmfRequired => n.pmfRequired
    /\ c.network.h2e => n.h2e
    /\ n.signal >= c.network.signal + gain

Roam(n, seen, age, gain, timeout) ==
    /\ AssociationValid
    /\ c.state = "CONNECTED"
    /\ NetworkValid(c.network) /\ SelectedSecurity(c.network) = c.security
    /\ c.aid # 0 /\ c.deadline = 0
    /\ age <= MaxRoamAge /\ TimeoutValid(timeout) /\ NetworkValid(n)
    /\ GenerationLeft(c)
    /\ \/ ClockFault
       \/ /\ seen <= now /\ now - seen <= age
          /\ now + timeout <= MaxTime
          /\ RoamAllowed(n, gain)
          /\ AssociationSubmit([c EXCEPT !.roam = n, !.deadline = now + timeout,
                              !.state = "DISCONNECTING"],
                    "DISCONNECT")
    /\ UNCHANGED << events, d, now, barredScan >>

Invalidated ==
    LET k == ClearResumeTarget(ClearSelection(c))
    IN  IF c.generation = MaxAttempts
        THEN [k EXCEPT !.state = "FAILED"]
        ELSE [k EXCEPT !.generation = @ + 1, !.floor = 0,
                       !.resumeRequired = FALSE, !.state = "IDLE"]

(* The device restarts, forgets its link and the commands it held, and the *)
(* owner reports it before it makes any other call.                        *)
InvalidateForDeviceReset ==
    /\ AssociationValid
    /\ c' = Invalidated
    /\ cmds' = << >>
    /\ d' = DriverDown
    /\ barredScan' = 0
    /\ UNCHANGED << events, now >>

-----------------------------------------------------------------------------
(* Time.                                                                   *)

Attempting == {"AUTHENTICATING", "ASSOCIATING", "KEY_EXCHANGE"}

(* The states whose deadline poll watches.                                 *)
Timed ==
    \/ c.state \in Attempting
    \/ c.state = "SUSPENDING"
    \/ c.state = "DISCONNECTING" /\ c.roam # None

Expired == Timed /\ now >= c.deadline

(* Mutant: poll only watches the attempts.                                 *)
ExpireAttempts ==
    IF c.state \in Attempting
    THEN AssociationSubmit([c EXCEPT !.state = "DISCONNECTING"], "DISCONNECT")
    ELSE UNCHANGED << c, cmds >>

Expire ==
    IF c.state \in Attempting
    THEN AssociationSubmit([c EXCEPT !.state = "DISCONNECTING"], "DISCONNECT")
    ELSE c' = Fail(c) /\ UNCHANGED cmds

(* What poll does when it does not return OK.                              *)
PollBody ==
    \/ Timed /\ ClockFault
    \/ Expired /\ Expire

Poll ==
    /\ AssociationValid
    /\ PollBody
    /\ UNCHANGED << events, d, now, barredScan >>

(* A poll, with a clock that keeps its hands off, at or after the deadline.*)
PollTimeout == Poll /\ Expired /\ Expire

Tick ==
    /\ now < MaxTime
    /\ now' = now + 1
    /\ UNCHANGED << c, cmds, events, d, barredScan >>

-----------------------------------------------------------------------------
(* Events (rin_wifi_association_process_event).                            *)

(* Mutant: the generation of an event is not compared.                     *)
EventBaseValidAnyGeneration(e) ==
    /\ c.network # None
    /\ e.security = c.security
    /\ e.bssid = c.network.bssid

EventBaseValid(e) ==
    /\ c.network # None
    /\ e.generation = c.generation
    /\ e.security = c.security
    /\ e.bssid = c.network.bssid

(* The states in which an event of a type is looked at.                    *)
StatesOf(type) ==
    CASE type = "FAILED" -> ControllerStates \ {"IDLE", "SUSPENDED", "FAILED"}
      [] type = "QUIESCED" -> {"SUSPENDING"}
      [] type = "DISCONNECTED" ->
            ControllerStates \ {"IDLE", "SUSPENDED", "SUSPENDING"}
      [] type = "AUTHENTICATED" -> {"AUTHENTICATING"}
      [] type = "ASSOCIATED" -> {"ASSOCIATING"}
      [] type = "KEYS_INSTALLED" -> {"KEY_EXCHANGE"}

Disconnected ==
    IF c.roam = None
    THEN /\ c' = [ClearSelection(c) EXCEPT !.state = "IDLE"]
         /\ UNCHANGED cmds
    ELSE IF c.generation = MaxAttempts
    THEN c' = Fail(ClearRoam(c)) /\ UNCHANGED cmds
    ELSE AssociationSubmit([ClearRoam(c) EXCEPT
                    !.generation = @ + 1, !.replay = 0, !.aid = 0,
                    !.security = SelectedSecurity(c.roam),
                    !.network = c.roam,
                    !.state = "AUTHENTICATING"],
                "AUTHENTICATE")

Quiesced ==
    /\ c' = [ClearSelection(c) EXCEPT !.resumeRequired = TRUE,
                                      !.state = "SUSPENDED"]
    /\ UNCHANGED cmds

Authenticated == AssociationSubmit([c EXCEPT !.state = "ASSOCIATING"], "ASSOCIATE")

AssociationRefused(e) ==
    \/ e.flags \cap {"pairwise", "group"} # {}
    \/ e.aid = 0
    \/ PmfNeeded /\ "pmf" \notin e.flags

Associated(e) ==
    IF AssociationRefused(e)
    THEN c' = Fail(c) /\ UNCHANGED cmds
    ELSE IF c.security = "open"
    THEN /\ c' = [c EXCEPT !.aid = e.aid, !.state = "CONNECTED",
                           !.deadline = 0]
         /\ UNCHANGED cmds
    ELSE AssociationSubmit([c EXCEPT !.aid = e.aid, !.state = "KEY_EXCHANGE"],
                "KEY_EXCHANGE")

RequiredFlags ==
    {"pairwise", "group"} \cup (IF PmfNeeded THEN {"pmf"} ELSE {})

KeysInstalled(e) ==
    /\ c' = IF /\ RequiredFlags \subseteq e.flags
               /\ e.aid = c.aid
               /\ e.replay > c.replay
            THEN [c EXCEPT !.replay = e.replay, !.deadline = 0,
                           !.state = "CONNECTED"]
            ELSE Fail(c)
    /\ UNCHANGED cmds

EventEffect(e) ==
    \/ e.type = "FAILED" /\ c' = Fail(c) /\ UNCHANGED cmds
    \/ e.type = "QUIESCED" /\ Quiesced
    \/ e.type = "DISCONNECTED" /\ Disconnected
    \/ e.type = "AUTHENTICATED" /\ Authenticated
    \/ e.type = "ASSOCIATED" /\ Associated(e)
    \/ e.type = "KEYS_INSTALLED" /\ KeysInstalled(e)

Accepted(e) ==
    /\ AssociationValid
    /\ c.state \in StatesOf(e.type)
    /\ EventBaseValid(e)

(* process_event looks at the deadline before it looks at the event; an    *)
(* event that is not accepted changes nothing else.                        *)
ProcessEvent(e) ==
    \/ AssociationValid /\ PollBody
    \/ ~Expired /\ Accepted(e) /\ EventEffect(e)
    \/ ~Expired /\ ~Accepted(e) /\ UNCHANGED << c, cmds >>

(* An event reaches the controller, and may reach it again later.          *)
Deliver ==
    /\ \E e \in events :
          /\ events' \in {events, events \ {e}}
          /\ ProcessEvent(e)
    /\ barredScan' = IF c.state = "SUSPENDING" /\ c'.state = "SUSPENDED"
                     THEN c.floor ELSE barredScan
    /\ UNCHANGED << d, now >>

-----------------------------------------------------------------------------
(* The driver, external: it acts on the commands in order, may fail one or *)
(* stay silent, and may lose its link at any time.                         *)

Event(x, type, flags, aid, replay) ==
    [type |-> type, generation |-> x.generation, security |-> x.security,
     bssid |-> x.network.bssid, flags |-> flags, aid |-> aid,
     replay |-> replay]

Raise(e) ==
    /\ Cardinality(events) < MaxEvents
    /\ events' = events \cup {e}

Silent == UNCHANGED events

DropLink == [d EXCEPT !.link = "down", !.keys = {}]

DriverAuthenticate(x) ==
    /\ x.op = "AUTHENTICATE"
    /\ d' = [DriverDown EXCEPT !.generation = x.generation,
                !.security = x.security, !.network = x.network,
                !.link = "authenticated"]
    /\ Silent \/ Raise(Event(x, "AUTHENTICATED", {}, 0, 0))

DriverAssociate(x) ==
    /\ x.op = "ASSOCIATE"
    /\ d.generation = x.generation /\ d.link = "authenticated"
    /\ \E aid \in 0 .. 1, flags \in SUBSET {"pmf"} :
          /\ x.network.pmfCapable \/ flags = {}
          /\ d' = [d EXCEPT !.link = "associated", !.aid = aid,
                            !.keys = flags]
          /\ Silent \/ Raise(Event(x, "ASSOCIATED", flags, aid, 0))

DriverKeyExchange(x) ==
    /\ x.op = "KEY_EXCHANGE"
    /\ d.generation = x.generation /\ d.link = "associated"
    /\ \E keys \in {{"pairwise"}, {"pairwise", "group"}}, replay \in 0 .. 1 :
          /\ d' = [d EXCEPT !.keys = @ \cup keys]
          /\ Silent \/ Raise(Event(x, "KEYS_INSTALLED", d'.keys, d.aid,
                                   replay))

DriverStop(x) ==
    /\ x.op \in {"DISCONNECT", "QUIESCE"}
    /\ d' = IF d.generation = x.generation THEN DropLink ELSE d
    /\ \/ Silent
       \/ Raise(Event(x, IF x.op = "QUIESCE" THEN "QUIESCED"
                         ELSE "DISCONNECTED", {}, 0, 0))

DriverRefuse(x) ==
    /\ x.op \notin {"DISCONNECT", "QUIESCE"}
    /\ UNCHANGED d
    /\ Silent \/ Raise(Event(x, "FAILED", {}, 0, 0))

DriverTake ==
    /\ cmds # << >>
    /\ LET x == Head(cmds)
       IN  \/ DriverAuthenticate(x)
           \/ DriverAssociate(x)
           \/ DriverKeyExchange(x)
           \/ DriverStop(x)
           \/ DriverRefuse(x)
    /\ cmds' = Tail(cmds)
    /\ UNCHANGED << c, now, barredScan >>

DriverLosesLink ==
    /\ d.link # "down"
    /\ Raise(Event(d, "DISCONNECTED", {}, 0, 0))
    /\ d' = DropLink
    /\ UNCHANGED << c, cmds, now, barredScan >>

-----------------------------------------------------------------------------

(* Timeouts the owner passes, refused ones included.                       *)
Timeouts == 0 .. MaxTimeout

(* A call that its state refuses changes nothing, so the arguments of one  *)
(* are only drawn in the state that admits it.                             *)
Owner ==
    \/ /\ c.state = "IDLE"
       /\ \E n \in Networks, t \in Timeouts :
             \/ AssociationStart(n, t)
             \/ \E s \in 0 .. MaxScan : StartFromScan(n, s, t)
    \/ AssociationDisconnect
    \/ \E s \in 0 .. MaxScan, t \in Timeouts : Suspend(s, t)
    \/ Resume
    \/ /\ c.state = "SUSPENDED"
       /\ \E S \in SUBSET Networks, s \in 0 .. MaxScan, t \in Timeouts :
             ResumeFromScan(S, s, t)
    \/ /\ c.state = "CONNECTED"
       /\ \E n \in Networks, seen \in 0 .. now, age \in 0 .. MaxRoamAge,
             gain \in RoamGains, t \in Timeouts : Roam(n, seen, age, gain, t)
    \/ InvalidateForDeviceReset

AssociationNext ==
    \/ Owner
    \/ Poll
    \/ Tick
    \/ Deliver
    \/ DriverTake
    \/ DriverLosesLink

AssociationSpec == AssociationInit /\ [][AssociationNext]_associationVars

(* The clock runs and the owner keeps polling; the driver owes nothing.    *)
FairSpec == AssociationSpec /\ WF_associationVars(Tick) /\ WF_associationVars(PollTimeout)

-----------------------------------------------------------------------------
(* Properties.                                                             *)

Flags == {"pairwise", "group", "pmf"}

NetworkOrNone == Networks \cup {None}

(* Type invariant: the fields of RinWifiAssociationControllerV1 and of the *)
(* driver; generations and deadlines never pass the largest integer.       *)
AssociationTypeOK ==
    /\ c \in [state : ControllerStates, generation : 0 .. MaxAttempts,
               deadline : 0 .. MaxTime, replay : 0 .. 1,
               security : Securities \ {"transition"}, aid : 0 .. 1,
               network : NetworkOrNone, roam : NetworkOrNone,
               resumeRequired : BOOLEAN, resumeTarget : NetworkOrNone,
               floor : 0 .. MaxScan]
    /\ d \in [generation : 0 .. MaxAttempts, security : Securities,
               network : NetworkOrNone,
               link : {"down", "authenticated", "associated"},
               aid : 0 .. 1, keys : SUBSET Flags]
    /\ now \in 0 .. MaxTime
    /\ barredScan \in 0 .. MaxScan

(* The keys a link of the controller must have in the driver.              *)
LinkFlags ==
    CASE c.security = "open" -> {}
      [] c.security = "sae" -> Flags
      [] c.security = "wpa2" ->
            IF c.network.pmfRequired THEN Flags ELSE {"pairwise", "group"}

(* A CONNECTED controller is right about its link: the driver has the link *)
(* of this attempt, to this network, with pairwise and group keys and      *)
(* management frame protection where they are needed, unless a report that *)
(* the link of this attempt is gone is under way (process_event's checks   *)
(* of generation, BSSID, state order and flags, association.c:466-569).    *)
(* Before the key exchange of an attempt, when IDLE and when SUSPENDED,    *)
(* the driver holds no traffic key of any attempt: DISCONNECTED and        *)
(* QUIESCED are only accepted for the attempt they are about               *)
(* (association.h:162-164, association.c:466-519).                         *)
KeysMatchState ==
    /\ c.state = "CONNECTED" =>
          \/ /\ d.link = "associated"
             /\ d.generation = c.generation
             /\ d.network = c.network
             /\ LinkFlags \subseteq d.keys
          \/ \E e \in events :
                e.type = "DISCONNECTED" /\ e.generation = c.generation
    /\ c.state \in {"IDLE", "SUSPENDED", "AUTHENTICATING", "ASSOCIATING"} =>
          d.keys \cap {"pairwise", "group"} = {}

(* controller_valid without its clause on resume_required, and the saved   *)
(* networks are only kept while they are wanted: a roam target while the   *)
(* old link is being closed, a resume target from the suspend to the next  *)
(* start (association.c:184-214, 387-389).                                 *)
SavedTargets ==
    /\ c.roam # None =>
          /\ c.state = "DISCONNECTING"
          /\ NetworkValid(c.roam)
          /\ c.deadline # 0
          /\ c.generation < MaxAttempts
    /\ c.resumeTarget # None =>
          /\ c.state = "SUSPENDING" \/ c.resumeRequired
          /\ NetworkValid(c.resumeTarget)
    /\ c.state = "SUSPENDED" =>
          /\ c.resumeRequired
          /\ c.resumeTarget # None
          /\ c.floor # 0
          /\ c.network = None

(* What wifi_assoc_controller_valid demands of every controller holds of   *)
(* every controller the operations leave behind: otherwise every later     *)
(* call returns INVALID_ARGUMENT, invalidate_for_device_reset included.    *)
ControllerStaysValid == AssociationValid

(* A roam never lowers the protection of the link: the network an attempt  *)
(* goes on with after the old link is closed has the SSID and the selected *)
(* security of the old one and does not drop required management frame     *)
(* protection or hash-to-element (association.c:801-813, 496-515).         *)
RoamKeepsProtection ==
    [][c.state = "DISCONNECTING" /\ c'.state = "AUTHENTICATING" =>
          /\ c'.network.ssid = c.network.ssid
          /\ c'.security = c.security
          /\ c.network.pmfRequired => c'.network.pmfRequired
          /\ c.network.h2e => c'.network.h2e]_associationVars

(* After a suspend an attempt starts only from a scan newer than the one   *)
(* that was current at the suspend, however the owner resumes              *)
(* (association.h:150-151, 168-169).                                       *)
ResumeNeedsNewScan ==
    [][c.state \in {"IDLE", "SUSPENDED"} /\ c'.state = "AUTHENTICATING"
          => barredScan = 0 \/ c'.floor > barredScan]_associationVars

(* Every attempt, every suspend and every roam ends, in time, whatever the *)
(* driver does: association.c:573-609 watches one deadline over all the    *)
(* phases and no phase extends it.                                         *)
TimedStatesEnd == Timed ~> ~Timed

==============================================================================
