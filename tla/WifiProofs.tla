------------------------------ MODULE WifiProofs -----------------------------
(***************************************************************************)
(* Proofs about the Wi-Fi association controller (WifiAssociation), for    *)
(* every set of networks and every bound on time, scans, generations,      *)
(* commands and events.                                                    *)
(***************************************************************************)
EXTENDS WifiAssociation, SequenceTheorems, TLAPS

-----------------------------------------------------------------------------
(* The inductive invariant *)

ControllerType ==
    [state : ControllerStates, generation : 0 .. MaxAttempts,
     deadline : 0 .. MaxTime, replay : 0 .. 1,
     security : Securities \ {"transition"}, aid : 0 .. 1,
     network : NetworkOrNone, roam : NetworkOrNone,
     resumeRequired : BOOLEAN, resumeTarget : NetworkOrNone,
     floor : 0 .. MaxScan]

LinkType ==
    [generation : 0 .. MaxAttempts, security : Securities,
     network : NetworkOrNone, link : {"down", "authenticated", "associated"},
     aid : 0 .. 1, keys : SUBSET Flags]

Ops == {"AUTHENTICATE", "ASSOCIATE", "KEY_EXCHANGE", "DISCONNECT", "QUIESCE"}

EventTypes ==
    {"FAILED", "QUIESCED", "DISCONNECTED", "AUTHENTICATED", "ASSOCIATED",
     "KEYS_INSTALLED"}

CommandType ==
    [op : Ops, generation : 0 .. MaxAttempts,
     security : Securities \ {"transition"}, network : Networks]

Types ==
    /\ AssociationTypeOK
    /\ cmds \in Seq(CommandType)
    /\ \A e \in events :
          /\ e.type \in EventTypes
          /\ e.generation \in 0 .. MaxAttempts
          /\ e.flags \subseteq Flags
          /\ e.aid \in 0 .. 1 /\ e.replay \in 0 .. 1

Busy == Attempting \cup {"CONNECTED", "SUSPENDING", "DISCONNECTING"}

(* A controller that is at work has a network whose description is valid,  *)
(* and only one that was suspended still owes the newer scan.              *)
NetworkKept ==
    /\ c.state \in Busy => c.network # None
    /\ c.network # None => NetworkValid(c.network)
    /\ c.resumeRequired => c.state \in {"IDLE", "SUSPENDED", "FAILED"}
    /\ c.state = "SUSPENDING" => c.resumeTarget # None /\ c.floor # 0

(* A roam target protects the link as the network it is left for.          *)
RoamProtects ==
    c.roam # None =>
        /\ c.roam.ssid = c.network.ssid
        /\ SelectedSecurity(c.roam) = c.security
        /\ c.network.pmfRequired => c.roam.pmfRequired
        /\ c.network.h2e => c.roam.h2e

(* The scan that was current at the suspend is the one a start must beat.  *)
ScanBarred == barredScan # 0 => c.resumeRequired /\ c.floor = barredScan

Targets == SavedTargets /\ NetworkKept /\ RoamProtects /\ ScanBarred

Queued(op, g) ==
    \E i \in DOMAIN cmds : cmds[i].op = op /\ cmds[i].generation = g

(* The link of generation g is gone for good.                              *)
Closed(g) ==
    /\ d.generation = g => d.link = "down" /\ d.keys = {}
    /\ ~Queued("AUTHENTICATE", g)

(* The states of an attempt whose link nobody has asked the driver to end. *)
Live == Attempting \cup {"CONNECTED"}

Lost ==
    \E e \in events :
        e.type = "DISCONNECTED" /\ e.generation = c.generation

(* Nothing is of a generation to come, and an authentication begins one.   *)
GenerationsOrdered ==
    /\ d.generation <= c.generation
    /\ \A e \in events : e.generation <= c.generation
    /\ \A i \in DOMAIN cmds :
          /\ cmds[i].generation <= c.generation
          /\ cmds[i].op = "AUTHENTICATE" =>
                /\ cmds[i].generation = c.generation
                /\ d.generation < cmds[i].generation
                /\ \A j \in DOMAIN cmds :
                      j < i => cmds[j].generation < cmds[i].generation

(* What is of this generation is of its network and its security.          *)
GenerationsMatch ==
    c.network # None =>
        /\ d.generation = c.generation =>
              d.network = c.network /\ d.security = c.security
        /\ \A e \in events : e.generation = c.generation =>
              e.security = c.security /\ e.bssid = c.network.bssid
        /\ \A i \in DOMAIN cmds : cmds[i].generation = c.generation =>
              /\ cmds[i].security = c.security
              /\ cmds[i].network = c.network

(* A report that the link is gone is right, an idle or suspended           *)
(* controller has no link, and neither has an earlier generation.          *)
LinksClosed ==
    /\ d.generation < c.generation => d.link = "down" /\ d.keys = {}
    /\ \A e \in events :
          e.type \in {"DISCONNECTED", "QUIESCED"} => Closed(e.generation)
    /\ c.state \in {"IDLE", "SUSPENDED"} => Closed(c.generation)

(* The keys of an attempt are not asked for before its association.        *)
KeysNotYet ==
    c.state \in {"AUTHENTICATING", "ASSOCIATING"} =>
        /\ ~Queued("KEY_EXCHANGE", c.generation)
        /\ d.keys \cap {"pairwise", "group"} = {}

(* In an attempt the driver has what it reported, or has reported the loss.*)
ReportsHold ==
    c.state \in Live =>
        /\ ~Queued("DISCONNECT", c.generation)
        /\ ~Queued("QUIESCE", c.generation)
        /\ \A e \in events :
              /\ e.generation = c.generation
              /\ e.type \in {"ASSOCIATED", "KEYS_INSTALLED"}
              => \/ /\ d.link = "associated"
                    /\ d.generation = c.generation
                    /\ e.flags \subseteq d.keys
                 \/ Lost

(* The state of a link that a connected controller relies on.              *)
ConnectedHolds ==
    c.state = "CONNECTED" =>
        \/ /\ d.link = "associated"
           /\ d.generation = c.generation
           /\ LinkFlags \subseteq d.keys
        \/ Lost

LinkInv ==
    /\ GenerationsOrdered /\ GenerationsMatch /\ LinksClosed
    /\ KeysNotYet /\ ReportsHold /\ ConnectedHolds

IInv == Types /\ Targets /\ LinkInv

-----------------------------------------------------------------------------
(* Steps of the controller, as far as its link can tell them apart.        *)

Asks ==
    \/ cmds' = cmds
    \/ \E x \in CommandType :
          /\ cmds' = Append(cmds, x)
          /\ x.generation = c.generation
          /\ x.security = c.security /\ x.network = c.network
          /\ x.op # "AUTHENTICATE"
          /\ x.op = "KEY_EXCHANGE" =>
                c'.state \notin {"AUTHENTICATING", "ASSOCIATING"}
          /\ x.op \in {"DISCONNECT", "QUIESCE"} => c'.state \notin Live

(* The controller goes on with its generation, or gives it up.             *)
Advance ==
    /\ c'.generation = c.generation
    /\ \/ c'.network = c.network /\ c'.security = c.security
       \/ c'.network = None
    /\ Asks
    /\ c'.state \in {"AUTHENTICATING", "ASSOCIATING"} =>
          c.state \in {"AUTHENTICATING", "ASSOCIATING"}
    /\ c'.state \in Live => c.state \in Live /\ (Lost => Lost')
    /\ c'.state = "CONNECTED" =>
          \/ c.state = "CONNECTED"
          \/ \E e \in events :
                /\ e.generation = c.generation
                /\ e.type \in {"ASSOCIATED", "KEYS_INSTALLED"}
                /\ LinkFlags' \subseteq e.flags
    /\ c'.state \in {"IDLE", "SUSPENDED"} => Closed(c.generation)
    /\ events' \subseteq events
    /\ d' = d

(* The controller begins a generation.                                     *)
Fresh ==
    /\ c'.generation = c.generation + 1
    /\ Closed(c.generation)
    /\ c'.state \in {"AUTHENTICATING", "FAILED"}
    /\ \/ cmds' = cmds /\ c'.state = "FAILED"
       \/ \E x \in CommandType :
             /\ cmds' = Append(cmds, x)
             /\ x.generation = c'.generation
             /\ x.security = c'.security /\ x.network = c'.network
             /\ x.op = "AUTHENTICATE"
    /\ events' \subseteq events
    /\ d' = d

(* What a step of the controller keeps besides.                            *)
RoamStep ==
    c.state = "DISCONNECTING" /\ c'.state = "AUTHENTICATING" =>
        /\ c'.network.ssid = c.network.ssid
        /\ c'.security = c.security
        /\ c.network.pmfRequired => c'.network.pmfRequired
        /\ c.network.h2e => c'.network.h2e

ScanStep ==
    c.state \in {"IDLE", "SUSPENDED"} /\ c'.state = "AUTHENTICATING" =>
        barredScan = 0 \/ c'.floor > barredScan

Kept == Types' /\ Targets' /\ RoamStep /\ ScanStep

-----------------------------------------------------------------------------
(* The helpers of association.c *)

\* The type invariant, with its parts named.
LEMMA TypesParts ==
  ASSUME Types
  PROVE  /\ c \in ControllerType /\ d \in LinkType
         /\ now \in 0 .. MaxTime /\ barredScan \in 0 .. MaxScan
  BY DEF Types, AssociationTypeOK, ControllerType, LinkType

\* The security an attempt selects is never that of transition mode.
LEMMA SelectedIsSecurity ==
  ASSUME NEW n \in Networks
  PROVE  SelectedSecurity(n) \in Securities \ {"transition"}
  BY NetworksAssumption DEF SelectedSecurity, Securities

\* wifi_assoc_fail.
LEMMA FailFacts ==
  ASSUME NEW k \in ControllerType
  PROVE  /\ Fail(k) \in ControllerType
         /\ Fail(k).state = "FAILED" /\ Fail(k).generation = k.generation
         /\ Fail(k).network = k.network /\ Fail(k).security = k.security
         /\ Fail(k).roam = None /\ Fail(k).resumeTarget = None
         /\ Fail(k).resumeRequired = k.resumeRequired /\ Fail(k).floor = k.floor
  BY DEF Fail, ClearRoam, ClearResumeTarget, ControllerType, ControllerStates, NetworkOrNone

\* wifi_assoc_clear_selection.
LEMMA ClearFacts ==
  ASSUME NEW k \in ControllerType
  PROVE  /\ ClearSelection(k) \in ControllerType
         /\ ClearSelection(k).state = k.state
         /\ ClearSelection(k).generation = k.generation
         /\ ClearSelection(k).network = None /\ ClearSelection(k).roam = None
         /\ ClearSelection(k).resumeTarget = k.resumeTarget
         /\ ClearSelection(k).resumeRequired = k.resumeRequired
         /\ ClearSelection(k).floor = k.floor
<1>1. 0 \in 0 .. MaxTime /\ 0 \in 0 .. 1
  BY AssociationAssumption
<1> QED BY <1>1 DEF ClearSelection, ControllerType, NetworkOrNone, Securities

\* wifi_assoc_submit: the command is queued or the controller has failed.
LEMMA SubmitFacts ==
  ASSUME Types, NEW k \in ControllerType, k.network # None,
         NEW op \in Ops, AssociationSubmit(k, op)
  PROVE  /\ c' \in ControllerType
         /\ c' \in {k, Fail(k)}
         /\ cmds' \in Seq(CommandType)
         /\ \/ cmds' = cmds /\ c' = Fail(k)
            \/ \E x \in CommandType :
                  /\ cmds' = Append(cmds, x)
                  /\ x.op = op /\ x.generation = k.generation
                  /\ x.security = k.security /\ x.network = k.network
<1>1. cmds \in Seq(CommandType)
  BY DEF Types
<1>2. k.network \in Networks /\ Fail(k) \in ControllerType
  BY FailFacts DEF ControllerType, NetworkOrNone
<1> DEFINE x == Command(k, op)
<1>3. /\ x \in CommandType
      /\ x.op = op /\ x.generation = k.generation
      /\ x.security = k.security /\ x.network = k.network
  BY <1>2 DEF Command, CommandType, ControllerType
<1>4. Append(cmds, x) \in Seq(CommandType)
  BY <1>1, <1>3, AppendProperties
<1>5. \/ cmds' = Append(cmds, x) /\ c' \in {k, Fail(k)}
      \/ cmds' = cmds /\ c' = Fail(k)
  BY DEF AssociationSubmit
<1> HIDE DEF x
<1> QED BY <1>1, <1>2, <1>3, <1>4, <1>5

\* What the events are stays known when none is added.
LEMMA TypesKept ==
  ASSUME Types, c' \in ControllerType, d' = d, events' \subseteq events,
         now' \in 0 .. MaxTime, barredScan' \in 0 .. MaxScan, cmds' \in Seq(CommandType)
  PROVE  Types'
<1>1. d' \in LinkType
  BY TypesParts
<1>2. AssociationTypeOK'
  BY <1>1 DEF AssociationTypeOK, ControllerType, LinkType
<1> QED BY <1>2 DEF Types

\* A failure drops the saved networks and keeps the scan that is barred.
LEMMA FailureKeeps ==
  ASSUME NEW k \in ControllerType, c' = Fail(k),
         k.network # None => NetworkValid(k.network),
         barredScan' # 0 => k.resumeRequired /\ k.floor = barredScan'
  PROVE  Targets' /\ RoamStep /\ ScanStep
<1>1. /\ c'.state = "FAILED" /\ c'.network = k.network
      /\ c'.roam = None /\ c'.resumeTarget = None
      /\ c'.resumeRequired = k.resumeRequired /\ c'.floor = k.floor
  BY FailFacts
<1>2. SavedTargets'
  BY <1>1 DEF SavedTargets
<1>3. NetworkKept'
  BY <1>1 DEF NetworkKept, Busy, Attempting
<1>4. RoamProtects' /\ ScanBarred'
  BY <1>1 DEF RoamProtects, ScanBarred
<1> QED BY <1>1, <1>2, <1>3, <1>4 DEF Targets, RoamStep, ScanStep

-----------------------------------------------------------------------------
(* Operations of the owner *)

\* A started attempt: a new generation, with its authentication queued.
LEMMA StartFromStep ==
  ASSUME IInv, NEW k \in ControllerType, c.state \in {"IDLE", "SUSPENDED"},
         k.generation = c.generation, k.network = c.network, k.security = c.security,
         k.resumeRequired = c.resumeRequired, k.floor = c.floor,
         NEW n \in Networks, NEW bound \in BOOLEAN, NEW scan \in 0 .. MaxScan,
         NEW timeout \in Timeouts, StartFrom(k, n, bound, scan, timeout),
         UNCHANGED << events, d, now >>
  PROVE  Kept /\ (Advance \/ Fresh)
<1>1. /\ Types /\ now \in 0 .. MaxTime /\ barredScan \in 0 .. MaxScan
      /\ cmds \in Seq(CommandType)
  BY TypesParts DEF IInv, Types
<1>2. Closed(c.generation)
  BY DEF IInv, LinkInv, LinksClosed
<1>3. /\ ~StartRefused(k, bound, scan) /\ NetworkValid(n) /\ timeout \in Nat
      /\ k.generation < MaxAttempts
  BY AssociationAssumption DEF StartFrom, GenerationLeft, Timeouts
<1>4. barredScan # 0 => k.resumeRequired /\ k.floor = barredScan
  BY DEF IInv, Targets, ScanBarred
<1>5. k.network # None => NetworkValid(k.network)
  BY DEF IInv, Targets, NetworkKept
<1>6. CASE c' = Fail(k) /\ UNCHANGED << cmds, barredScan >>
  <2>1. Targets' /\ RoamStep /\ ScanStep
    BY <1>4, <1>5, <1>6, FailureKeeps
  <2>2. /\ c' \in ControllerType /\ c'.state = "FAILED"
        /\ c'.generation = c.generation /\ c'.network = c.network
        /\ c'.security = c.security
    BY <1>6, FailFacts
  <2>3. Types'
    BY <1>1, <1>6, <2>2, TypesKept
  <2>4. Advance
    BY <1>6, <2>2 DEF Advance, Asks, Live, Attempting
  <2> QED BY <2>1, <2>3, <2>4 DEF Kept
<1>7. CASE c' # Fail(k) \/ ~UNCHANGED << cmds, barredScan >>
  <2> DEFINE k2 == [ClearResumeTarget(ClearSelection(k)) EXCEPT
                        !.generation = @ + 1,
                        !.deadline = now + timeout,
                        !.floor = IF bound THEN scan ELSE @,
                        !.resumeRequired = FALSE,
                        !.security = SelectedSecurity(n),
                        !.network = n,
                        !.state = "AUTHENTICATING"]
  <2>1. now + timeout <= MaxTime /\ AssociationSubmit(k2, "AUTHENTICATE") /\ barredScan' = 0
    BY <1>7 DEF StartFrom
  <2> HIDE DEF k2
  <2>2. /\ now + timeout \in 0 .. MaxTime /\ k.generation + 1 \in 0 .. MaxAttempts
        /\ n \in NetworkOrNone /\ None \in NetworkOrNone
        /\ SelectedSecurity(n) \in Securities \ {"transition"}
    <3>1. now + timeout \in 0 .. MaxTime
      BY <1>1, <1>3, <2>1, AssociationAssumption
    <3>2. k.generation \in 0 .. MaxAttempts
      BY DEF ControllerType
    <3>3. k.generation + 1 \in 0 .. MaxAttempts
      BY <1>3, <3>2, AssociationAssumption
    <3> QED BY <3>1, <3>3, SelectedIsSecurity DEF NetworkOrNone
  <2> USE DEF k2
  <2> DEFINE k1 == ClearSelection(k)
  <2>3. /\ k1 \in ControllerType /\ k1.generation = k.generation /\ k1.roam = None
        /\ k1.floor = k.floor
    BY ClearFacts
  <2>4. /\ k2 \in ControllerType /\ k2.state = "AUTHENTICATING"
        /\ k2.generation = c.generation + 1 /\ k2.network = n
        /\ k2.security = SelectedSecurity(n) /\ k2.roam = None /\ k2.resumeTarget = None
        /\ k2.resumeRequired = FALSE
        /\ k2.floor = IF bound THEN scan ELSE c.floor
    BY <2>2, <2>3 DEF ControllerType, ClearResumeTarget, ControllerStates
  <2> HIDE DEF k2
  <2>5. n # None /\ "AUTHENTICATE" \in Ops
    BY AssociationAssumption DEF Ops
  <2>6. /\ c' \in ControllerType
        /\ c' = k2 \/ c' = Fail(k2)
        /\ cmds' \in Seq(CommandType)
        /\ \/ cmds' = cmds /\ c' = Fail(k2)
           \/ \E x \in CommandType :
                 /\ cmds' = Append(cmds, x)
                 /\ x.op = "AUTHENTICATE" /\ x.generation = k2.generation
                 /\ x.security = k2.security /\ x.network = k2.network
    BY <1>1, <2>1, <2>4, <2>5, SubmitFacts
  <2>7. /\ c'.generation = k2.generation /\ c'.network = k2.network
        /\ c'.security = k2.security
        /\ c' = k2 \/ c'.state = "FAILED"
    BY <2>4, <2>6, FailFacts
  <2>8. Types'
    BY <1>1, <2>1, <2>6, TypesKept, AssociationAssumption
  <2>9. Fresh
    BY <1>2, <2>4, <2>6, <2>7, FailFacts DEF Fresh
  <2>10. Targets' /\ RoamStep /\ ScanStep
    <3>1. CASE c' = Fail(k2)
      BY <1>3, <2>1, <2>4, <3>1, FailureKeeps
    <3>2. CASE c' = k2
      <4>1. SavedTargets'
        BY <2>4, <3>2 DEF SavedTargets
      <4>2. NetworkKept'
        BY <1>3, <2>4, <2>5, <3>2 DEF NetworkKept
      <4>3. RoamProtects' /\ ScanBarred'
        BY <2>1, <2>4, <3>2 DEF RoamProtects, ScanBarred
      <4>4. RoamStep
        BY DEF RoamStep
      <4>5. ScanStep
        <5>1. barredScan # 0 => bound /\ scan > barredScan
          BY <1>1, <1>3, <1>4, AssociationAssumption DEF StartRefused, ControllerType
        <5> QED BY <1>1, <2>4, <3>2, <5>1 DEF ScanStep
      <4> QED BY <4>1, <4>2, <4>3, <4>4, <4>5 DEF Targets
    <3> QED BY <2>6, <3>1, <3>2
  <2> QED BY <2>8, <2>9, <2>10 DEF Kept
<1> QED BY <1>6, <1>7

\* start and start_from_scan.
LEMMA StartStep ==
  ASSUME IInv, NEW n \in Networks, NEW t \in Timeouts, NEW scan \in 0 .. MaxScan,
         AssociationStart(n, t) \/ StartFromScan(n, scan, t)
  PROVE  Kept /\ (Advance \/ Fresh)
<1>1. c \in ControllerType
  BY TypesParts DEF IInv
<1>2. c.state = "IDLE"
  BY DEF AssociationStart, StartFromScan, StartFrom, StartRefused
<1>3. 0 \in 0 .. MaxScan
  BY AssociationAssumption
<1>4. CASE AssociationStart(n, t)
  BY <1>1, <1>2, <1>3, <1>4, StartFromStep DEF AssociationStart
<1>5. CASE StartFromScan(n, scan, t)
  BY <1>1, <1>2, <1>5, StartFromStep DEF StartFromScan
<1> QED BY <1>4, <1>5

-----------------------------------------------------------------------------
(* Steps shared by several operations *)

\* The clock callback changed the controller, or a check failed.
LEMMA FaultStep ==
  ASSUME IInv, c' = Fail(c), cmds' = cmds, events' \subseteq events,
         UNCHANGED << d, now, barredScan >>
  PROVE  Kept /\ Advance
<1>1. /\ Types /\ c \in ControllerType /\ cmds \in Seq(CommandType)
      /\ now \in 0 .. MaxTime /\ barredScan \in 0 .. MaxScan
  BY TypesParts DEF IInv, Types
<1>2. /\ c' \in ControllerType /\ c'.state = "FAILED"
      /\ c'.generation = c.generation /\ c'.network = c.network
      /\ c'.security = c.security
  BY <1>1, FailFacts
<1>3. Targets' /\ RoamStep /\ ScanStep
  BY <1>1, FailureKeeps DEF IInv, Targets, NetworkKept, ScanBarred
<1>4. Types'
  BY <1>1, <1>2, TypesKept
<1>5. Advance
  BY <1>2 DEF Advance, Asks, Live, Attempting
<1> QED BY <1>3, <1>4, <1>5 DEF Kept

\* The next phase of the attempt is asked for, or its end.
LEMMA AskStep ==
  ASSUME IInv, NEW k \in ControllerType, c.network # None,
         k.generation = c.generation, k.network = c.network, k.security = c.security,
         barredScan # 0 => k.resumeRequired /\ k.floor = barredScan,
         NEW op \in Ops, AssociationSubmit(k, op), op # "AUTHENTICATE",
         op = "KEY_EXCHANGE" => k.state \notin {"AUTHENTICATING", "ASSOCIATING"},
         op \in {"DISCONNECT", "QUIESCE"} => k.state \notin Live,
         k.state \in {"AUTHENTICATING", "ASSOCIATING"} =>
            c.state \in {"AUTHENTICATING", "ASSOCIATING"},
         k.state \in Live => c.state \in Live /\ (Lost => Lost'),
         k.state \notin {"CONNECTED", "IDLE", "SUSPENDED"},
         events' \subseteq events, UNCHANGED << d, now, barredScan >>
  PROVE  /\ Types' /\ Advance
         /\ c' \in {k, Fail(k)}
         /\ c' = Fail(k) => Targets' /\ RoamStep /\ ScanStep
<1>1. /\ Types /\ c \in ControllerType /\ cmds \in Seq(CommandType)
      /\ now \in 0 .. MaxTime /\ barredScan \in 0 .. MaxScan
  BY TypesParts DEF IInv, Types
<1>2. /\ c' \in ControllerType /\ c' \in {k, Fail(k)}
      /\ cmds' \in Seq(CommandType)
      /\ \/ cmds' = cmds
         \/ \E x \in CommandType :
               /\ cmds' = Append(cmds, x)
               /\ x.op = op /\ x.generation = c.generation
               /\ x.security = c.security /\ x.network = c.network
  BY <1>1, SubmitFacts
<1>3. /\ c'.generation = c.generation /\ c'.network = c.network
      /\ c'.security = c.security /\ c'.state \in {k.state, "FAILED"}
  BY <1>2, FailFacts
<1>4. Types'
  BY <1>1, <1>2, TypesKept
<1>5. Asks
  <2>1. CASE cmds' = cmds
    BY <2>1 DEF Asks
  <2>2. CASE cmds' # cmds
    <3>1. PICK x \in CommandType :
            /\ cmds' = Append(cmds, x)
            /\ x.op = op /\ x.generation = c.generation
            /\ x.security = c.security /\ x.network = c.network
      BY <1>2, <2>2
    <3>2. /\ x.op = "KEY_EXCHANGE" => c'.state \notin {"AUTHENTICATING", "ASSOCIATING"}
          /\ x.op \in {"DISCONNECT", "QUIESCE"} => c'.state \notin Live
      BY <1>3, <3>1 DEF Live, Attempting
    <3> QED BY <3>1, <3>2 DEF Asks
  <2> QED BY <2>1, <2>2
<1>6. Advance
  BY <1>3, <1>5 DEF Advance, Live, Attempting
<1>7. ASSUME c' = Fail(k) PROVE Targets' /\ RoamStep /\ ScanStep
  <2>1. NetworkValid(k.network)
    BY DEF IInv, Targets, NetworkKept
  <2> QED BY <1>7, <2>1, FailureKeeps
<1> QED BY <1>2, <1>4, <1>6, <1>7

-----------------------------------------------------------------------------
(* The other operations of the owner *)

\* disconnect.
LEMMA DisconnectStep ==
  ASSUME IInv, AssociationDisconnect
  PROVE  Kept /\ Advance
<1>1. /\ Types /\ c \in ControllerType /\ cmds \in Seq(CommandType)
      /\ now \in 0 .. MaxTime /\ barredScan \in 0 .. MaxScan
  BY TypesParts DEF IInv, Types
<1>2. c.state = "CONNECTED" /\ UNCHANGED << events, d, now, barredScan >>
  BY DEF AssociationDisconnect
<1> DEFINE k == [c EXCEPT !.state = "DISCONNECTING"]
<1>3. AssociationSubmit(k, "DISCONNECT")
  BY DEF AssociationDisconnect
<1>4. /\ k \in ControllerType /\ k.state = "DISCONNECTING"
      /\ k.generation = c.generation /\ k.network = c.network /\ k.security = c.security
      /\ k.roam = c.roam /\ k.resumeTarget = c.resumeTarget
      /\ k.resumeRequired = c.resumeRequired /\ k.floor = c.floor
  BY <1>1 DEF ControllerType, ControllerStates
<1> HIDE DEF k
<1>5. /\ c.network # None /\ NetworkValid(c.network) /\ c.roam = None
      /\ c.resumeTarget = None /\ ~c.resumeRequired /\ barredScan = 0
  BY <1>2 DEF IInv, Targets, NetworkKept, SavedTargets, ScanBarred, Busy
<1>6. /\ Types' /\ Advance /\ c' \in {k, Fail(k)}
      /\ c' = Fail(k) => Targets' /\ RoamStep /\ ScanStep
  BY <1>2, <1>3, <1>4, <1>5, AskStep DEF Ops, Live, Attempting
<1>7. c' = k => Targets' /\ RoamStep /\ ScanStep
  BY <1>2, <1>4, <1>5
     DEF Targets, SavedTargets, NetworkKept, RoamProtects, ScanBarred, RoamStep, ScanStep
<1> QED BY <1>6, <1>7 DEF Kept

\* suspend.
LEMMA SuspendStep ==
  ASSUME IInv, NEW scan \in 0 .. MaxScan, NEW t \in Timeouts, Suspend(scan, t)
  PROVE  Kept /\ Advance
<1>1. /\ Types /\ c \in ControllerType /\ cmds \in Seq(CommandType)
      /\ now \in 0 .. MaxTime /\ barredScan \in 0 .. MaxScan
  BY TypesParts DEF IInv, Types
<1>2. c.state = "CONNECTED" /\ UNCHANGED << events, d, now, barredScan >>
  BY DEF Suspend
<1>3. /\ c.network # None /\ NetworkValid(c.network) /\ c.roam = None
      /\ c.resumeTarget = None /\ ~c.resumeRequired /\ barredScan = 0
  BY <1>2 DEF IInv, Targets, NetworkKept, SavedTargets, ScanBarred, Busy
<1>4. CASE ClockFault
  BY <1>2, <1>4, FaultStep DEF ClockFault
<1>5. CASE ~ClockFault
  <2> DEFINE k == [c EXCEPT !.resumeTarget = c.network, !.floor = scan,
                            !.deadline = now + t, !.state = "SUSPENDING"]
  <2>1. now + t <= MaxTime /\ AssociationSubmit(k, "QUIESCE") /\ scan >= 1
    BY <1>5 DEF Suspend
  <2>2. now + t \in 0 .. MaxTime
    BY <1>1, <2>1, AssociationAssumption DEF Timeouts
  <2>3. /\ k \in ControllerType /\ k.state = "SUSPENDING"
        /\ k.generation = c.generation /\ k.network = c.network
        /\ k.security = c.security /\ k.roam = c.roam
        /\ k.resumeTarget = c.network
        /\ k.resumeRequired = c.resumeRequired /\ k.floor = scan
    BY <1>1, <2>2 DEF ControllerType, ControllerStates
  <2> HIDE DEF k
  <2>4. /\ Types' /\ Advance /\ c' \in {k, Fail(k)}
        /\ c' = Fail(k) => Targets' /\ RoamStep /\ ScanStep
    BY <1>2, <1>3, <2>1, <2>3, AskStep DEF Ops, Live, Attempting
  <2>5. c' = k => Targets' /\ RoamStep /\ ScanStep
    <3>1. scan # 0
      BY <2>1
    <3> QED BY <1>2, <1>3, <2>3, <3>1
                 DEF Targets, SavedTargets, NetworkKept, RoamProtects, ScanBarred,
                     RoamStep, ScanStep
  <2> QED BY <2>4, <2>5 DEF Kept
<1> QED BY <1>4, <1>5

\* resume_after_suspend.
LEMMA ResumedStep ==
  ASSUME IInv, CanResume, c' = Resumed,
         UNCHANGED << cmds, events, d, now, barredScan >>
  PROVE  Kept /\ Advance
<1>1. /\ Types /\ c \in ControllerType /\ cmds \in Seq(CommandType)
      /\ now \in 0 .. MaxTime /\ barredScan \in 0 .. MaxScan
  BY TypesParts DEF IInv, Types
<1>2. /\ c' \in ControllerType /\ c'.state = "IDLE"
      /\ c'.generation = c.generation /\ c'.network = c.network
      /\ c'.security = c.security /\ c'.roam = c.roam
      /\ c'.resumeTarget = c.resumeTarget
      /\ c'.resumeRequired = c.resumeRequired /\ c'.floor = c.floor
  BY <1>1 DEF Resumed, ControllerType, ControllerStates
<1>3. c.state = "SUSPENDED" /\ c.resumeRequired
  BY DEF CanResume
<1>4. Types'
  BY <1>1, <1>2, TypesKept
<1>5. Closed(c.generation)
  BY <1>3 DEF IInv, LinkInv, LinksClosed
<1>6. Advance
  BY <1>2, <1>3, <1>5 DEF Advance, Asks, Live, Attempting
<1>7. Targets' /\ RoamStep /\ ScanStep
  BY <1>2, <1>3 DEF IInv, Targets, SavedTargets, NetworkKept, RoamProtects, ScanBarred,
                   RoamStep, ScanStep, Busy, Attempting
<1> QED BY <1>4, <1>6, <1>7 DEF Kept

\* resume_from_scan.
LEMMA ResumeFromScanStep ==
  ASSUME IInv, NEW scanned \in SUBSET Networks, NEW scan \in 0 .. MaxScan,
         NEW t \in Timeouts, ResumeFromScan(scanned, scan, t)
  PROVE  Kept /\ (Advance \/ Fresh)
<1>1. c \in ControllerType
  BY TypesParts DEF IInv
<1>2. CanResume /\ UNCHANGED << events, d, now >>
  BY DEF ResumeFromScan
<1>3. PICK n \in Candidates(scanned) :
        \/ StartFrom(Resumed, n, TRUE, scan, t)
        \/ c' = Resumed /\ UNCHANGED << cmds, barredScan >>
  BY DEF ResumeFromScan
<1>4. n \in Networks
  BY DEF Candidates
<1>5. CASE StartFrom(Resumed, n, TRUE, scan, t)
  <2>1. /\ Resumed \in ControllerType
        /\ Resumed.generation = c.generation /\ Resumed.network = c.network
        /\ Resumed.security = c.security
        /\ Resumed.resumeRequired = c.resumeRequired /\ Resumed.floor = c.floor
    BY <1>1 DEF Resumed, ControllerType, ControllerStates
  <2>2. c.state = "SUSPENDED"
    BY <1>2 DEF CanResume
  <2> QED BY <1>2, <1>4, <1>5, <2>1, <2>2, StartFromStep
<1>6. CASE c' = Resumed /\ UNCHANGED << cmds, barredScan >>
  BY <1>2, <1>6, ResumedStep
<1> QED BY <1>3, <1>5, <1>6

\* roam.
LEMMA RoamingStep ==
  ASSUME IInv, NEW n \in Networks, NEW seen \in 0 .. now, NEW age \in 0 .. MaxRoamAge,
         NEW gain \in RoamGains, NEW t \in Timeouts, Roam(n, seen, age, gain, t)
  PROVE  Kept /\ Advance
<1>1. /\ Types /\ c \in ControllerType /\ cmds \in Seq(CommandType)
      /\ now \in 0 .. MaxTime /\ barredScan \in 0 .. MaxScan
  BY TypesParts DEF IInv, Types
<1>2. /\ c.state = "CONNECTED" /\ NetworkValid(n) /\ TimeoutValid(t)
      /\ GenerationLeft(c) /\ UNCHANGED << events, d, now, barredScan >>
  BY DEF Roam
<1>3. /\ c.network # None /\ NetworkValid(c.network) /\ c.roam = None
      /\ c.resumeTarget = None /\ ~c.resumeRequired /\ barredScan = 0
  BY <1>2 DEF IInv, Targets, NetworkKept, SavedTargets, ScanBarred, Busy
<1>4. CASE ClockFault
  BY <1>2, <1>4, FaultStep DEF ClockFault
<1>5. CASE ~ClockFault
  <2> DEFINE k == [c EXCEPT !.roam = n, !.deadline = now + t, !.state = "DISCONNECTING"]
  <2>1. now + t <= MaxTime /\ AssociationSubmit(k, "DISCONNECT") /\ RoamAllowed(n, gain)
    BY <1>5 DEF Roam
  <2>2. now + t \in 0 .. MaxTime /\ now + t # 0 /\ n \in NetworkOrNone
    BY <1>1, <1>2, <2>1, AssociationAssumption DEF Timeouts, TimeoutValid, NetworkOrNone
  <2>3. /\ k \in ControllerType /\ k.state = "DISCONNECTING"
        /\ k.generation = c.generation /\ k.network = c.network
        /\ k.security = c.security /\ k.roam = n /\ k.deadline = now + t
        /\ k.resumeTarget = c.resumeTarget
        /\ k.resumeRequired = c.resumeRequired /\ k.floor = c.floor
    BY <1>1, <2>2 DEF ControllerType, ControllerStates
  <2> HIDE DEF k
  <2>4. /\ Types' /\ Advance /\ c' \in {k, Fail(k)}
        /\ c' = Fail(k) => Targets' /\ RoamStep /\ ScanStep
    BY <1>2, <1>3, <2>1, <2>3, AskStep DEF Ops, Live, Attempting
  <2>5. c' = k => Targets' /\ RoamStep /\ ScanStep
    <3> SUFFICES ASSUME c' = k PROVE Targets' /\ RoamStep /\ ScanStep
      OBVIOUS
    <3>1. SavedTargets'
      BY <1>2, <1>3, <2>2, <2>3 DEF SavedTargets, GenerationLeft
    <3>2. RoamProtects'
      BY <2>1, <2>3 DEF RoamProtects, RoamAllowed
    <3>3. NetworkKept' /\ ScanBarred' /\ RoamStep /\ ScanStep
      BY <1>2, <1>3, <2>3 DEF NetworkKept, ScanBarred, RoamStep, ScanStep
    <3> QED BY <3>1, <3>2, <3>3 DEF Targets
  <2> QED BY <2>4, <2>5 DEF Kept
<1> QED BY <1>4, <1>5

-----------------------------------------------------------------------------
(* Time and events *)

\* In an attempt, and when connected, the controller keeps no saved network.
LEMMA LiveTargets ==
  ASSUME IInv, c.state \in Live
  PROVE  /\ c.network \in Networks /\ NetworkValid(c.network)
         /\ c.roam = None /\ c.resumeTarget = None /\ c.resumeRequired = FALSE
         /\ barredScan = 0 /\ AssociationValid
<1>1. c \in ControllerType
  BY TypesParts DEF IInv
<1>2. c.network # None /\ NetworkValid(c.network) /\ ~c.resumeRequired
  BY DEF IInv, Targets, NetworkKept, Busy, Live, Attempting
<1>3. c.roam = None /\ c.resumeTarget = None /\ barredScan = 0
  BY <1>2 DEF IInv, Targets, SavedTargets, ScanBarred, Live, Attempting
<1> QED BY <1>1, <1>2, <1>3 DEF AssociationValid, ControllerType, NetworkOrNone, Live, Attempting

\* A poll that finds a fault of the clock or the deadline passed.
LEMMA PollStep ==
  ASSUME IInv, PollBody, events' \subseteq events, UNCHANGED << d, now, barredScan >>
  PROVE  Kept /\ Advance
<1>1. CASE ClockFault
  BY <1>1, FaultStep DEF ClockFault
<1>2. CASE Expire /\ c.state \notin Attempting
  BY <1>2, FaultStep DEF Expire
<1>3. CASE Expire /\ c.state \in Attempting
  <2>1. c.state \in Live
    BY <1>3 DEF Live
  <2> DEFINE k == [c EXCEPT !.state = "DISCONNECTING"]
  <2>2. AssociationSubmit(k, "DISCONNECT")
    BY <1>3 DEF Expire
  <2>3. /\ k \in ControllerType /\ k.state = "DISCONNECTING"
        /\ k.generation = c.generation /\ k.network = c.network
        /\ k.security = c.security /\ k.roam = c.roam
        /\ k.resumeTarget = c.resumeTarget
        /\ k.resumeRequired = c.resumeRequired /\ k.floor = c.floor
    BY TypesParts DEF IInv, ControllerType, ControllerStates
  <2> HIDE DEF k
  <2>4. /\ c.network \in Networks /\ NetworkValid(c.network) /\ c.network # None
        /\ c.roam = None /\ c.resumeTarget = None /\ c.resumeRequired = FALSE
        /\ barredScan = 0
    BY <2>1, LiveTargets, AssociationAssumption
  <2>5. /\ Types' /\ Advance /\ c' \in {k, Fail(k)}
        /\ c' = Fail(k) => Targets' /\ RoamStep /\ ScanStep
    BY <2>2, <2>3, <2>4, AskStep DEF Ops, Live, Attempting
  <2>6. c' = k => Targets' /\ RoamStep /\ ScanStep
    BY <2>3, <2>4
       DEF Targets, SavedTargets, NetworkKept, RoamProtects, ScanBarred, RoamStep, ScanStep
  <2> QED BY <2>5, <2>6 DEF Kept
<1> QED BY <1>1, <1>2, <1>3 DEF PollBody

\* What a poll leaves behind.
LEMMA PollEnds ==
  ASSUME IInv, PollBody
  PROVE  c'.state \in {"DISCONNECTING", "FAILED"}
<1>1. c \in ControllerType
  BY TypesParts DEF IInv
<1> DEFINE k == [c EXCEPT !.state = "DISCONNECTING"]
<1>2. k \in ControllerType /\ k.state = "DISCONNECTING"
  BY <1>1 DEF ControllerType, ControllerStates
<1>3. c' \in {k, Fail(k), Fail(c)}
  BY DEF PollBody, ClockFault, Expire, AssociationSubmit
<1> HIDE DEF k
<1> QED BY <1>1, <1>2, <1>3, FailFacts

\* An event is refused: nothing changes but that it may be gone, and a report of
\* the loss of this link is never refused while it matters.
LEMMA RefusedStep ==
  ASSUME IInv, NEW e \in events, ~Accepted(e), UNCHANGED << c, cmds, d, now, barredScan >>,
         events' \in {events, events \ {e}}
  PROVE  Kept /\ Advance
<1>1. /\ Types /\ c \in ControllerType /\ cmds \in Seq(CommandType)
      /\ now \in 0 .. MaxTime /\ barredScan \in 0 .. MaxScan
  BY TypesParts DEF IInv, Types
<1>2. Types'
  BY <1>1, TypesKept
<1>3. Targets' /\ RoamStep /\ ScanStep
  BY DEF IInv, Targets, SavedTargets, NetworkKept, RoamProtects, ScanBarred, RoamStep, ScanStep
<1>4. ASSUME c.state \in Live, e.type = "DISCONNECTED"
      PROVE  e.generation # c.generation
  <2>1. AssociationValid /\ c.network # None
    BY <1>4, LiveTargets, AssociationAssumption
  <2>2. c.state \in StatesOf("DISCONNECTED")
    BY <1>4 DEF StatesOf, Live, Attempting, ControllerStates
  <2>3. ~EventBaseValid(e)
    BY <1>4, <2>1, <2>2 DEF Accepted
  <2> QED BY <2>1, <2>3 DEF EventBaseValid, IInv, LinkInv, GenerationsMatch
<1>5. c.state \in Live => (Lost => Lost')
  BY <1>4 DEF Lost
<1>6. c.state \in {"IDLE", "SUSPENDED"} => Closed(c.generation)
  BY DEF IInv, LinkInv, LinksClosed
<1>7. Advance
  BY <1>5, <1>6 DEF Advance, Asks
<1> QED BY <1>2, <1>3, <1>7 DEF Kept

\* The link is up: all that was asked for is there.
LEMMA ConnectStep ==
  ASSUME IInv, NEW e \in events, Accepted(e), e.type \in {"ASSOCIATED", "KEYS_INSTALLED"},
         c.state \in Attempting, c' \in ControllerType, c'.state = "CONNECTED",
         c'.generation = c.generation, c'.network = c.network, c'.security = c.security,
         c'.roam = c.roam, c'.resumeTarget = c.resumeTarget,
         c'.resumeRequired = c.resumeRequired, c'.floor = c.floor,
         LinkFlags \subseteq e.flags,
         events' \in {events, events \ {e}}, UNCHANGED << cmds, d, now, barredScan >>
  PROVE  Kept /\ Advance
<1>1. /\ Types /\ c \in ControllerType /\ cmds \in Seq(CommandType)
      /\ now \in 0 .. MaxTime /\ barredScan \in 0 .. MaxScan
  BY TypesParts DEF IInv, Types
<1>2. /\ c.state \in Live /\ c.network # None /\ NetworkValid(c.network)
      /\ c.roam = None /\ c.resumeTarget = None /\ c.resumeRequired = FALSE
      /\ barredScan = 0
  BY LiveTargets, AssociationAssumption DEF Live
<1>3. Types'
  BY <1>1, TypesKept
<1>4. Targets' /\ RoamStep /\ ScanStep
  BY <1>2
     DEF Targets, SavedTargets, NetworkKept, RoamProtects, ScanBarred, RoamStep, ScanStep
<1>5. e.generation = c.generation /\ LinkFlags' = LinkFlags
  BY DEF Accepted, EventBaseValid, LinkFlags
<1>6. Lost => Lost'
  BY DEF Lost
<1>7. Advance
  BY <1>2, <1>5, <1>6 DEF Advance, Asks
<1> QED BY <1>3, <1>4, <1>7 DEF Kept

\* DISCONNECTED: the link of this generation is gone, and a roam goes on.
LEMMA DisconnectedStep ==
  ASSUME IInv, NEW e \in events, Accepted(e), e.type = "DISCONNECTED", Disconnected,
         events' \in {events, events \ {e}}, UNCHANGED << d, now, barredScan >>
  PROVE  Kept /\ (Advance \/ Fresh)
<1>1. /\ Types /\ c \in ControllerType /\ cmds \in Seq(CommandType)
      /\ now \in 0 .. MaxTime /\ barredScan \in 0 .. MaxScan
  BY TypesParts DEF IInv, Types
<1>2. Closed(c.generation)
  BY DEF IInv, LinkInv, LinksClosed, Accepted, EventBaseValid
<1>3. c.network # None /\ c.state \notin {"IDLE", "SUSPENDED", "SUSPENDING"}
  BY DEF Accepted, EventBaseValid, StatesOf
<1>4. CASE c.roam = None
  <2> DEFINE k == ClearSelection(c)
  <2>1. k \in ControllerType /\ k.generation = c.generation /\ k.network = None
        /\ k.roam = None /\ k.resumeTarget = c.resumeTarget
        /\ k.resumeRequired = c.resumeRequired /\ k.floor = c.floor
    BY <1>1, ClearFacts
  <2>2. c' = [k EXCEPT !.state = "IDLE"] /\ cmds' = cmds
    BY <1>4 DEF Disconnected
  <2> HIDE DEF k
  <2>3. /\ c' \in ControllerType /\ c'.state = "IDLE"
        /\ c'.generation = c.generation /\ c'.network = None
        /\ c'.roam = None /\ c'.resumeTarget = c.resumeTarget
        /\ c'.resumeRequired = c.resumeRequired /\ c'.floor = c.floor
    BY <2>1, <2>2 DEF ControllerType, ControllerStates
  <2>4. Types'
    BY <1>1, <2>2, <2>3, TypesKept
  <2>5. Targets' /\ RoamStep /\ ScanStep
    BY <1>3, <2>3
       DEF IInv, Targets, SavedTargets, NetworkKept, RoamProtects, ScanBarred,
           RoamStep, ScanStep, Busy, Attempting
  <2>6. Advance
    BY <1>2, <2>2, <2>3 DEF Advance, Asks, Live, Attempting
  <2> QED BY <2>4, <2>5, <2>6 DEF Kept
<1>5. CASE c.roam # None
  <2>1. /\ c.state = "DISCONNECTING" /\ NetworkValid(c.roam)
        /\ c.generation < MaxAttempts /\ ~c.resumeRequired /\ c.resumeTarget = None
        /\ barredScan = 0
    BY <1>5 DEF IInv, Targets, SavedTargets, NetworkKept, ScanBarred
  <2> DEFINE k == [ClearRoam(c) EXCEPT
                    !.generation = @ + 1, !.replay = 0, !.aid = 0,
                    !.security = SelectedSecurity(c.roam),
                    !.network = c.roam,
                    !.state = "AUTHENTICATING"]
  <2>2. AssociationSubmit(k, "AUTHENTICATE")
    BY <1>1, <1>5, <2>1, AssociationAssumption DEF Disconnected, ControllerType
  <2>3. /\ c.roam \in Networks /\ c.generation + 1 \in 0 .. MaxAttempts
        /\ None \in NetworkOrNone
    BY <1>1, <1>5, <2>1, AssociationAssumption DEF ControllerType, NetworkOrNone
  <2>4. SelectedSecurity(c.roam) \in Securities \ {"transition"}
    BY <2>3, SelectedIsSecurity
  <2>5. /\ k \in ControllerType /\ k.state = "AUTHENTICATING"
        /\ k.generation = c.generation + 1 /\ k.network = c.roam
        /\ k.security = SelectedSecurity(c.roam) /\ k.roam = None
        /\ k.resumeTarget = c.resumeTarget
        /\ k.resumeRequired = c.resumeRequired /\ k.floor = c.floor
    <3>1. /\ ClearRoam(c) \in ControllerType /\ ClearRoam(c).generation = c.generation
          /\ ClearRoam(c).roam = None /\ ClearRoam(c).resumeTarget = c.resumeTarget
          /\ ClearRoam(c).resumeRequired = c.resumeRequired /\ ClearRoam(c).floor = c.floor
      BY <1>1, <2>3 DEF ClearRoam, ControllerType
    <3>2. 0 \in 0 .. 1 /\ c.roam \in NetworkOrNone /\ "AUTHENTICATING" \in ControllerStates
      BY <2>3 DEF NetworkOrNone, ControllerStates
    <3> QED BY <3>1, <3>2, <2>3, <2>4 DEF ControllerType
  <2> HIDE DEF k
  <2>6. /\ c' \in ControllerType /\ c' \in {k, Fail(k)}
        /\ cmds' \in Seq(CommandType)
        /\ \/ cmds' = cmds /\ c' = Fail(k)
           \/ \E x \in CommandType :
                 /\ cmds' = Append(cmds, x)
                 /\ x.op = "AUTHENTICATE" /\ x.generation = k.generation
                 /\ x.security = k.security /\ x.network = k.network
    BY <1>1, <1>5, <2>2, <2>5, SubmitFacts DEF Ops
  <2>7. /\ c'.generation = k.generation /\ c'.network = k.network
        /\ c'.security = k.security /\ c'.state \in {"AUTHENTICATING", "FAILED"}
    BY <2>5, <2>6, FailFacts
  <2>8. Types'
    BY <1>1, <2>6, TypesKept
  <2>9. Fresh
    BY <1>2, <2>5, <2>6, <2>7, FailFacts DEF Fresh
  <2>10. Targets' /\ RoamStep /\ ScanStep
    <3>1. CASE c' = Fail(k)
      BY <2>1, <2>5, <3>1, FailureKeeps
    <3>2. CASE c' = k
      <4>1. SavedTargets' /\ NetworkKept' /\ RoamProtects' /\ ScanBarred' /\ ScanStep
        BY <1>5, <2>1, <2>5, <3>2
           DEF SavedTargets, NetworkKept, RoamProtects, ScanBarred, ScanStep
      <4>2. RoamStep
        BY <1>5, <2>5, <3>2 DEF IInv, Targets, RoamProtects, RoamStep
      <4> QED BY <4>1, <4>2 DEF Targets
    <3> QED BY <2>6, <3>1, <3>2
  <2> QED BY <2>8, <2>9, <2>10 DEF Kept
<1> QED BY <1>4, <1>5

\* QUIESCED: the link is gone, and the next start needs a newer scan.
LEMMA QuiescedStep ==
  ASSUME IInv, NEW e \in events, Accepted(e), e.type = "QUIESCED", Quiesced,
         events' \in {events, events \ {e}}, UNCHANGED << d, now >>,
         barredScan' = IF c.state = "SUSPENDING" /\ c'.state = "SUSPENDED"
                       THEN c.floor ELSE barredScan
  PROVE  Kept /\ Advance
<1>1. /\ Types /\ c \in ControllerType /\ cmds \in Seq(CommandType)
      /\ now \in 0 .. MaxTime
  BY TypesParts DEF IInv, Types
<1>2. Closed(c.generation) /\ c.state = "SUSPENDING"
  BY DEF IInv, LinkInv, LinksClosed, Accepted, EventBaseValid, StatesOf
<1> DEFINE k == ClearSelection(c)
<1>3. k \in ControllerType /\ k.generation = c.generation /\ k.network = None
      /\ k.roam = None /\ k.resumeTarget = c.resumeTarget /\ k.floor = c.floor
  BY <1>1, ClearFacts
<1>4. c' = [k EXCEPT !.resumeRequired = TRUE, !.state = "SUSPENDED"] /\ cmds' = cmds
  BY DEF Quiesced
<1> HIDE DEF k
<1>5. /\ c' \in ControllerType /\ c'.state = "SUSPENDED"
      /\ c'.generation = c.generation /\ c'.network = None
      /\ c'.roam = None /\ c'.resumeTarget = c.resumeTarget
      /\ c'.resumeRequired = TRUE /\ c'.floor = c.floor
  BY <1>3, <1>4 DEF ControllerType, ControllerStates
<1>6. barredScan' = c.floor /\ barredScan' \in 0 .. MaxScan
  BY <1>1, <1>2, <1>5 DEF ControllerType
<1>7. Types'
  BY <1>1, <1>4, <1>5, <1>6, TypesKept
<1>8. Targets' /\ RoamStep /\ ScanStep
  BY <1>2, <1>5, <1>6
     DEF IInv, Targets, SavedTargets, NetworkKept, RoamProtects, ScanBarred,
         RoamStep, ScanStep, Busy, Attempting
<1>9. Advance
  BY <1>2, <1>4, <1>5 DEF Advance, Asks, Live, Attempting
<1> QED BY <1>7, <1>8, <1>9 DEF Kept

\* AUTHENTICATED: the association is asked for.
LEMMA AuthenticatedStep ==
  ASSUME IInv, NEW e \in events, Accepted(e), e.type = "AUTHENTICATED", Authenticated,
         events' \in {events, events \ {e}}, UNCHANGED << d, now, barredScan >>
  PROVE  Kept /\ Advance
<1>1. c \in ControllerType /\ c.state = "AUTHENTICATING"
  BY TypesParts DEF IInv, Accepted, StatesOf
<1>2. /\ c.network # None /\ NetworkValid(c.network)
      /\ c.roam = None /\ c.resumeTarget = None /\ c.resumeRequired = FALSE
      /\ barredScan = 0 /\ c.state \in Live
  BY <1>1, LiveTargets, AssociationAssumption DEF Live, Attempting
<1> DEFINE k == [c EXCEPT !.state = "ASSOCIATING"]
<1>3. /\ k \in ControllerType /\ k.state = "ASSOCIATING"
      /\ k.generation = c.generation /\ k.network = c.network
      /\ k.security = c.security /\ k.roam = c.roam
      /\ k.resumeTarget = c.resumeTarget
      /\ k.resumeRequired = c.resumeRequired /\ k.floor = c.floor
  BY <1>1 DEF ControllerType, ControllerStates
<1>4. AssociationSubmit(k, "ASSOCIATE")
  BY DEF Authenticated
<1> HIDE DEF k
<1>5. Lost => Lost'
  <2>1. c'.generation = c.generation
    BY <1>3, <1>4, FailFacts DEF AssociationSubmit
  <2> QED BY <2>1 DEF Lost
<1>6. /\ Types' /\ Advance /\ c' \in {k, Fail(k)}
      /\ c' = Fail(k) => Targets' /\ RoamStep /\ ScanStep
  BY <1>1, <1>2, <1>3, <1>4, <1>5, AskStep DEF Ops
<1>7. c' = k => Targets' /\ RoamStep /\ ScanStep
  BY <1>1, <1>2, <1>3
     DEF Targets, SavedTargets, NetworkKept, RoamProtects, ScanBarred, RoamStep, ScanStep
<1> QED BY <1>6, <1>7 DEF Kept

\* ASSOCIATED: an open link is up; else the keys are asked for.
LEMMA AssociatedStep ==
  ASSUME IInv, NEW e \in events, Accepted(e), e.type = "ASSOCIATED", Associated(e),
         events' \in {events, events \ {e}}, UNCHANGED << d, now, barredScan >>
  PROVE  Kept /\ Advance
<1>1. c \in ControllerType /\ c.state = "ASSOCIATING" /\ e.aid \in 0 .. 1
  BY TypesParts DEF IInv, Types, Accepted, StatesOf
<1>2. /\ c.network # None /\ NetworkValid(c.network)
      /\ c.roam = None /\ c.resumeTarget = None /\ c.resumeRequired = FALSE
      /\ barredScan = 0 /\ c.state \in Live /\ c.state \in Attempting
  BY <1>1, LiveTargets, AssociationAssumption DEF Live, Attempting
<1>3. CASE AssociationRefused(e)
  <2>1. c' = Fail(c) /\ cmds' = cmds
    BY <1>3 DEF Associated
  <2> QED BY <2>1, FaultStep
<1>4. CASE ~AssociationRefused(e) /\ c.security = "open"
  <2>1. /\ c' = [c EXCEPT !.aid = e.aid, !.state = "CONNECTED", !.deadline = 0]
        /\ cmds' = cmds
    BY <1>4 DEF Associated
  <2>2. 0 \in 0 .. MaxTime
    BY AssociationAssumption
  <2>3. /\ c' \in ControllerType /\ c'.state = "CONNECTED"
        /\ c'.generation = c.generation /\ c'.network = c.network
        /\ c'.security = c.security /\ c'.roam = c.roam
        /\ c'.resumeTarget = c.resumeTarget
        /\ c'.resumeRequired = c.resumeRequired /\ c'.floor = c.floor
    BY <1>1, <2>1, <2>2 DEF ControllerType, ControllerStates
  <2>4. LinkFlags \subseteq e.flags
    BY <1>4 DEF LinkFlags
  <2> QED BY <1>2, <2>1, <2>3, <2>4, ConnectStep
<1>5. CASE ~AssociationRefused(e) /\ c.security # "open"
  <2> DEFINE k == [c EXCEPT !.aid = e.aid, !.state = "KEY_EXCHANGE"]
  <2>1. AssociationSubmit(k, "KEY_EXCHANGE")
    BY <1>5 DEF Associated
  <2>2. /\ k \in ControllerType /\ k.state = "KEY_EXCHANGE"
        /\ k.generation = c.generation /\ k.network = c.network
        /\ k.security = c.security /\ k.roam = c.roam
        /\ k.resumeTarget = c.resumeTarget
        /\ k.resumeRequired = c.resumeRequired /\ k.floor = c.floor
    BY <1>1 DEF ControllerType, ControllerStates
  <2> HIDE DEF k
  <2>3. Lost => Lost'
    <3>1. c'.generation = c.generation
      BY <2>1, <2>2, FailFacts DEF AssociationSubmit
    <3> QED BY <3>1 DEF Lost
  <2>4. /\ Types' /\ Advance /\ c' \in {k, Fail(k)}
        /\ c' = Fail(k) => Targets' /\ RoamStep /\ ScanStep
    BY <1>2, <2>1, <2>2, <2>3, AskStep DEF Ops
  <2>5. c' = k => Targets' /\ RoamStep /\ ScanStep
    BY <1>1, <1>2, <2>2
       DEF Targets, SavedTargets, NetworkKept, RoamProtects, ScanBarred, RoamStep, ScanStep
  <2> QED BY <2>4, <2>5 DEF Kept
<1> QED BY <1>3, <1>4, <1>5

\* KEYS_INSTALLED: the link is up if all the keys are there.
LEMMA KeysInstalledStep ==
  ASSUME IInv, NEW e \in events, Accepted(e), e.type = "KEYS_INSTALLED", KeysInstalled(e),
         events' \in {events, events \ {e}}, UNCHANGED << d, now, barredScan >>
  PROVE  Kept /\ Advance
<1>1. c \in ControllerType /\ c.state = "KEY_EXCHANGE" /\ e.replay \in 0 .. 1
  BY TypesParts DEF IInv, Types, Accepted, StatesOf
<1>2. c.state \in Attempting /\ c.network \in Networks /\ cmds' = cmds
  BY <1>1, LiveTargets DEF Live, Attempting, KeysInstalled
<1>3. CASE c' = Fail(c)
  BY <1>2, <1>3, FaultStep
<1>4. CASE /\ RequiredFlags \subseteq e.flags
           /\ c' = [c EXCEPT !.replay = e.replay, !.deadline = 0, !.state = "CONNECTED"]
  <2>1. 0 \in 0 .. MaxTime
    BY AssociationAssumption
  <2>2. /\ c' \in ControllerType /\ c'.state = "CONNECTED"
        /\ c'.generation = c.generation /\ c'.network = c.network
        /\ c'.security = c.security /\ c'.roam = c.roam
        /\ c'.resumeTarget = c.resumeTarget
        /\ c'.resumeRequired = c.resumeRequired /\ c'.floor = c.floor
    BY <1>1, <1>4, <2>1 DEF ControllerType, ControllerStates
  <2>3. LinkFlags \subseteq RequiredFlags
    <3>1. c.security \in {"open", "sae", "wpa2"}
      BY <1>1 DEF ControllerType, Securities
    <3>2. c.network.pmfRequired \in BOOLEAN
      BY <1>2, NetworksAssumption
    <3> QED BY <3>1, <3>2 DEF LinkFlags, RequiredFlags, PmfNeeded, Flags
  <2> QED BY <1>2, <1>4, <2>2, <2>3, ConnectStep
<1> QED BY <1>3, <1>4 DEF KeysInstalled

\* process_event: the deadline first, then the event, if it is accepted.
LEMMA DeliverStep ==
  ASSUME IInv, Deliver
  PROVE  Kept /\ (Advance \/ Fresh)
<1>1. PICK e \in events : events' \in {events, events \ {e}} /\ ProcessEvent(e)
  BY DEF Deliver
<1>2. /\ UNCHANGED << d, now >> /\ events' \subseteq events
      /\ barredScan' = IF c.state = "SUSPENDING" /\ c'.state = "SUSPENDED"
                       THEN c.floor ELSE barredScan
  BY <1>1 DEF Deliver
<1>3. CASE PollBody
  BY <1>2, <1>3, PollEnds, PollStep
<1>4. CASE ~Accepted(e) /\ UNCHANGED << c, cmds >>
  BY <1>1, <1>2, <1>4, RefusedStep
<1>5. CASE Accepted(e) /\ EventEffect(e)
  <2>1. CASE e.type = "QUIESCED" /\ Quiesced
    BY <1>1, <1>2, <1>5, <2>1, QuiescedStep
  <2>2. e.type # "QUIESCED" => c'.state # "SUSPENDED" \/ c.state # "SUSPENDING"
    <3>1. CASE e.type = "FAILED"
      BY <1>5, <3>1, FailFacts, TypesParts DEF EventEffect, IInv
    <3>2. CASE e.type \notin {"FAILED", "QUIESCED"}
      BY <1>5, <3>2 DEF EventEffect, Accepted, StatesOf
    <3> QED BY <3>1, <3>2
  <2>3. CASE e.type # "QUIESCED"
    <3>1. UNCHANGED << d, now, barredScan >>
      BY <1>2, <2>2, <2>3
    <3>2. CASE e.type = "FAILED" /\ c' = Fail(c) /\ UNCHANGED cmds
      BY <1>2, <3>1, <3>2, FaultStep
    <3>3. CASE e.type = "DISCONNECTED" /\ Disconnected
      BY <1>1, <1>5, <3>1, <3>3, DisconnectedStep
    <3>4. CASE e.type = "AUTHENTICATED" /\ Authenticated
      BY <1>1, <1>5, <3>1, <3>4, AuthenticatedStep
    <3>5. CASE e.type = "ASSOCIATED" /\ Associated(e)
      BY <1>1, <1>5, <3>1, <3>5, AssociatedStep
    <3>6. CASE e.type = "KEYS_INSTALLED" /\ KeysInstalled(e)
      BY <1>1, <1>5, <3>1, <3>6, KeysInstalledStep
    <3> QED BY <1>5, <2>3, <3>2, <3>3, <3>4, <3>5, <3>6 DEF EventEffect
  <2> QED BY <1>5, <2>1, <2>3 DEF EventEffect
<1> QED BY <1>1, <1>3, <1>4, <1>5 DEF ProcessEvent

\* The controller of a device that was reset.
LEMMA InvalidatedFacts ==
  ASSUME IInv, InvalidateForDeviceReset
  PROVE  /\ Kept
         /\ c'.network = None /\ cmds' = << >> /\ d' = DriverDown /\ events' = events
         /\ \/ c'.state = "FAILED" /\ c'.generation = c.generation
            \/ c'.state = "IDLE" /\ c'.generation = c.generation + 1
<1>1. /\ Types /\ c \in ControllerType /\ now \in 0 .. MaxTime
      /\ UNCHANGED << events, now >> /\ barredScan' = 0 /\ cmds' = << >>
      /\ d' = DriverDown /\ c' = Invalidated
  BY TypesParts DEF IInv, InvalidateForDeviceReset
<1> DEFINE k == ClearResumeTarget(ClearSelection(c))
<1>2. k \in ControllerType /\ k.generation = c.generation /\ k.network = None
      /\ k.roam = None /\ k.resumeTarget = None
      /\ k.resumeRequired = c.resumeRequired /\ k.floor = c.floor
  <2>1. None \in NetworkOrNone
    BY DEF NetworkOrNone
  <2> QED BY <1>1, <2>1, ClearFacts DEF ClearResumeTarget, ControllerType
<1>3. c' = IF c.generation = MaxAttempts THEN [k EXCEPT !.state = "FAILED"]
           ELSE [k EXCEPT !.generation = @ + 1, !.floor = 0,
                          !.resumeRequired = FALSE, !.state = "IDLE"]
  BY <1>1 DEF Invalidated
<1> HIDE DEF k
<1>4. 0 \in 0 .. MaxScan /\ (c.generation # MaxAttempts => c.generation + 1 \in 0 .. MaxAttempts)
  BY <1>1, AssociationAssumption DEF ControllerType
<1>5. /\ c' \in ControllerType /\ c'.network = None
      /\ c'.roam = None /\ c'.resumeTarget = None
      /\ \/ c'.state = "FAILED" /\ c'.generation = c.generation
         \/ /\ c'.state = "IDLE" /\ c'.generation = c.generation + 1
            /\ c'.resumeRequired = FALSE
  BY <1>2, <1>3, <1>4 DEF ControllerType, ControllerStates
<1>6. d' \in LinkType
  BY <1>1, AssociationAssumption
     DEF DriverDown, LinkType, Securities, NetworkOrNone, Flags
<1>7. Types'
  <2>1. AssociationTypeOK'
    BY <1>1, <1>5, <1>6, AssociationAssumption DEF AssociationTypeOK, ControllerType, LinkType
  <2>2. cmds' \in Seq(CommandType)
    BY <1>1, EmptySeq
  <2> QED BY <1>1, <2>1, <2>2 DEF Types
<1>8. Targets' /\ RoamStep /\ ScanStep
  BY <1>1, <1>5
     DEF Targets, SavedTargets, NetworkKept, RoamProtects, ScanBarred, RoamStep, ScanStep,
         Busy, Attempting
<1> QED BY <1>1, <1>5, <1>7, <1>8 DEF Kept

-----------------------------------------------------------------------------
(* The link *)

\* The commands of a queue with one more at its end.
LEMMA Appended ==
  ASSUME cmds \in Seq(CommandType), NEW x \in CommandType, cmds' = Append(cmds, x)
  PROVE  /\ \A i \in DOMAIN cmds : i \in DOMAIN cmds' /\ cmds'[i] = cmds[i]
         /\ \A i \in DOMAIN cmds' : i \notin DOMAIN cmds =>
               cmds'[i] = x /\ \A j \in DOMAIN cmds : j < i
  BY AppendProperties, LenProperties

\* The commands of a queue without its first.
LEMMA Taken ==
  ASSUME cmds \in Seq(CommandType), cmds # << >>, cmds' = Tail(cmds)
  PROVE  /\ cmds' \in Seq(CommandType)
         /\ 1 \in DOMAIN cmds /\ Head(cmds) = cmds[1] /\ Head(cmds) \in CommandType
         /\ \A i \in DOMAIN cmds' :
               i \in Nat /\ i + 1 \in DOMAIN cmds /\ cmds'[i] = cmds[i + 1]
<1>1. /\ Head(cmds) \in CommandType /\ Tail(cmds) \in Seq(CommandType)
      /\ Len(Tail(cmds)) = Len(cmds) - 1
      /\ \A i \in 1 .. Len(Tail(cmds)) : Tail(cmds)[i] = cmds[i + 1]
      /\ Head(cmds) = cmds[1]
  BY HeadTailProperties
<1>2. Len(cmds) \in Nat \ {0} /\ DOMAIN cmds = 1 .. Len(cmds)
  BY LenProperties, EmptySeq
<1>3. DOMAIN cmds' = 1 .. Len(Tail(cmds))
  BY <1>1, LenProperties
<1> QED BY <1>1, <1>2, <1>3

\* The generations of what there is, and their numbers.
LEMMA Numbers ==
  ASSUME Types
  PROVE  /\ c.generation \in Nat /\ d.generation \in Nat
         /\ \A e \in events : e.generation \in Nat
         /\ \A i \in DOMAIN cmds : i \in Nat /\ cmds[i] \in CommandType /\ cmds[i].generation \in Nat
<1>1. MaxAttempts \in Nat
  BY AssociationAssumption
<1>2. c.generation \in Nat /\ d.generation \in Nat
  BY <1>1, TypesParts DEF ControllerType, LinkType
<1>3. \A e \in events : e.generation \in Nat
  BY <1>1 DEF Types
<1>4. \A i \in DOMAIN cmds : i \in Nat /\ cmds[i] \in CommandType
  BY LenProperties DEF Types
<1> QED BY <1>1, <1>2, <1>3, <1>4 DEF CommandType

\* The link of a driver that has none.
LEMMA DownIsLink ==
  /\ DriverDown \in LinkType
  /\ DriverDown.generation = 0 /\ DriverDown.link = "down" /\ DriverDown.keys = {}
  BY AssociationAssumption
     DEF DriverDown, LinkType, Securities, NetworkOrNone, Flags

\* A generation that is closed stays so while no authentication of it is queued.
LEMMA StaysClosed ==
  ASSUME NEW g, Closed(g), d' = d,
         \A i \in DOMAIN cmds' :
            \/ i \in DOMAIN cmds /\ cmds'[i] = cmds[i]
            \/ ~(cmds'[i].op = "AUTHENTICATE" /\ cmds'[i].generation = g)
  PROVE  Closed(g)'
  BY DEF Closed, Queued

\* The link after a step of the controller within a generation.
LEMMA AdvanceKeepsLink ==
  ASSUME IInv, Targets', Advance
  PROVE  LinkInv'
<1>1. /\ Types /\ LinkInv /\ cmds \in Seq(CommandType)
      /\ c'.generation = c.generation /\ d' = d /\ events' \subseteq events
  BY DEF IInv, Types, Advance
<1>2. \A i \in DOMAIN cmds' :
        \/ i \in DOMAIN cmds /\ cmds'[i] = cmds[i]
        \/ /\ cmds'[i].generation = c.generation
           /\ cmds'[i].security = c.security /\ cmds'[i].network = c.network
           /\ cmds'[i].op # "AUTHENTICATE"
           /\ cmds'[i].op = "KEY_EXCHANGE" =>
                 c'.state \notin {"AUTHENTICATING", "ASSOCIATING"}
           /\ cmds'[i].op \in {"DISCONNECT", "QUIESCE"} => c'.state \notin Live
  BY <1>1, Appended DEF Advance, Asks
<1>3. GenerationsOrdered'
  <2>1. \A i \in DOMAIN cmds' : cmds'[i].generation <= c.generation
    BY <1>1, <1>2, Numbers DEF LinkInv, GenerationsOrdered
  <2>2. ASSUME NEW i \in DOMAIN cmds', cmds'[i].op = "AUTHENTICATE"
        PROVE  /\ cmds'[i].generation = c.generation
               /\ d.generation < cmds'[i].generation
               /\ \A j \in DOMAIN cmds' : j < i => cmds'[j].generation < cmds'[i].generation
    <3>1. i \in DOMAIN cmds /\ cmds'[i] = cmds[i]
      BY <1>2, <2>2
    <3>2. \A j \in DOMAIN cmds' : j < i => j \in DOMAIN cmds /\ cmds'[j] = cmds[j]
      <4>1. CASE cmds' = cmds
        BY <4>1
      <4>2. CASE cmds' # cmds
        <5>1. PICK x \in CommandType : cmds' = Append(cmds, x)
          BY <4>2 DEF Advance, Asks
        <5>2. DOMAIN cmds = 1 .. Len(cmds) /\ Len(cmds) \in Nat
              /\ DOMAIN cmds' = 1 .. (Len(cmds) + 1)
          BY <1>1, <5>1, AppendProperties, LenProperties
        <5>3. \A j \in DOMAIN cmds : cmds'[j] = cmds[j]
          BY <1>1, <5>1, Appended
        <5> QED BY <3>1, <5>2, <5>3
      <4> QED BY <4>1, <4>2
    <3> QED BY <1>1, <2>2, <3>1, <3>2 DEF LinkInv, GenerationsOrdered
  <2> QED BY <1>1, <2>1, <2>2 DEF LinkInv, GenerationsOrdered
<1>4. GenerationsMatch'
  <2> SUFFICES ASSUME c'.network # None PROVE GenerationsMatch'
    BY DEF GenerationsMatch
  <2>1. c'.network = c.network /\ c'.security = c.security
    BY DEF Advance
  <2> QED BY <1>1, <1>2, <2>1 DEF LinkInv, GenerationsMatch
<1>5. LinksClosed'
  <2>1. \A g : Closed(g) => Closed(g)'
    BY <1>1, <1>2 DEF Closed, Queued
  <2>2. c'.state \in {"IDLE", "SUSPENDED"} => Closed(c.generation)
    BY DEF Advance
  <2>3. \A e \in events' : e.type \in {"DISCONNECTED", "QUIESCED"} => Closed(e.generation)'
    BY <1>1, <2>1 DEF LinkInv, LinksClosed
  <2>4. c'.state \in {"IDLE", "SUSPENDED"} => Closed(c.generation)'
    BY <1>1, <2>1, <2>2 DEF Closed, Queued
  <2> QED BY <1>1, <2>3, <2>4 DEF LinkInv, LinksClosed
<1>6. KeysNotYet'
  <2> SUFFICES ASSUME c'.state \in {"AUTHENTICATING", "ASSOCIATING"} PROVE KeysNotYet'
    BY DEF KeysNotYet
  <2>1. c.state \in {"AUTHENTICATING", "ASSOCIATING"}
    BY DEF Advance
  <2> QED BY <1>1, <1>2, <2>1 DEF LinkInv, KeysNotYet, Queued
<1>7. ReportsHold'
  <2> SUFFICES ASSUME c'.state \in Live PROVE ReportsHold'
    BY DEF ReportsHold
  <2>1. c.state \in Live /\ (Lost => Lost')
    BY DEF Advance
  <2>2. ~Queued("DISCONNECT", c.generation)' /\ ~Queued("QUIESCE", c.generation)'
    BY <1>1, <1>2, <2>1 DEF LinkInv, ReportsHold, Queued
  <2> QED BY <1>1, <2>1, <2>2 DEF LinkInv, ReportsHold
<1>8. ConnectedHolds'
  <2> SUFFICES ASSUME c'.state = "CONNECTED" PROVE ConnectedHolds'
    BY DEF ConnectedHolds
  <2>1. c.state \in Live /\ (Lost => Lost')
    BY DEF Advance, Live
  <2>2. CASE c.state = "CONNECTED"
    <3>1. c'.network # None
      BY DEF Targets, NetworkKept, Busy
    <3>2. LinkFlags' = LinkFlags
      BY <3>1 DEF Advance, LinkFlags
    <3> QED BY <1>1, <2>1, <2>2, <3>2 DEF LinkInv, ConnectedHolds
  <2>3. CASE \E e \in events :
               /\ e.generation = c.generation
               /\ e.type \in {"ASSOCIATED", "KEYS_INSTALLED"}
               /\ LinkFlags' \subseteq e.flags
    BY <1>1, <2>1, <2>3 DEF LinkInv, ReportsHold, ConnectedHolds
  <2> QED BY <2>2, <2>3 DEF Advance
<1> QED BY <1>3, <1>4, <1>5, <1>6, <1>7, <1>8 DEF LinkInv

\* The link after the controller has begun a generation.
LEMMA FreshKeepsLink ==
  ASSUME IInv, Types', Fresh
  PROVE  LinkInv'
<1>1. /\ Types /\ LinkInv /\ cmds \in Seq(CommandType)
      /\ c'.generation = c.generation + 1 /\ d' = d /\ events' \subseteq events
      /\ c'.state \in {"AUTHENTICATING", "FAILED"} /\ Closed(c.generation)
  BY DEF IInv, Types, Fresh
<1>2. \A i \in DOMAIN cmds' :
        \/ i \in DOMAIN cmds /\ cmds'[i] = cmds[i]
        \/ /\ cmds'[i].generation = c.generation + 1 /\ cmds'[i].op = "AUTHENTICATE"
           /\ cmds'[i].security = c'.security /\ cmds'[i].network = c'.network
           /\ \A j \in DOMAIN cmds' : j < i => j \in DOMAIN cmds /\ cmds'[j] = cmds[j]
  <2>1. CASE cmds' = cmds
    BY <2>1
  <2>2. CASE cmds' # cmds
    <3>1. PICK x \in CommandType :
            /\ cmds' = Append(cmds, x)
            /\ x.generation = c'.generation
            /\ x.security = c'.security /\ x.network = c'.network
            /\ x.op = "AUTHENTICATE"
      BY <2>2 DEF Fresh
    <3>2. DOMAIN cmds = 1 .. Len(cmds) /\ Len(cmds) \in Nat
          /\ DOMAIN cmds' = 1 .. (Len(cmds) + 1)
      BY <1>1, <3>1, AppendProperties, LenProperties
    <3>3. /\ \A i \in DOMAIN cmds : cmds'[i] = cmds[i]
          /\ \A i \in DOMAIN cmds' : i \notin DOMAIN cmds => cmds'[i] = x
      BY <1>1, <3>1, Appended
    <3> QED BY <1>1, <3>1, <3>2, <3>3
  <2> QED BY <2>1, <2>2
<1>3. \A i \in DOMAIN cmds :
        /\ cmds[i].generation <= c.generation
        /\ cmds[i].op # "AUTHENTICATE"
  BY <1>1 DEF LinkInv, GenerationsOrdered, Closed, Queued
<1>4. /\ d.generation < c.generation + 1
      /\ d.link = "down" /\ d.keys = {}
  BY <1>1, Numbers DEF LinkInv, GenerationsOrdered, LinksClosed, Closed
<1>5. \A e \in events : e.generation < c.generation + 1
  BY <1>1, Numbers DEF LinkInv, GenerationsOrdered
<1>6. \A i \in DOMAIN cmds : cmds[i].generation < c.generation + 1
  BY <1>1, <1>3, Numbers
<1>7. c.generation + 1 \in Nat
  BY <1>1, Numbers
<1>8. GenerationsOrdered'
  BY <1>1, <1>2, <1>3, <1>4, <1>5, <1>6, <1>7, Numbers DEF GenerationsOrdered
<1>9. GenerationsMatch'
  BY <1>1, <1>2, <1>4, <1>5, <1>6, <1>7, Numbers DEF GenerationsMatch
<1>10. LinksClosed'
  <2>1. \A e \in events' : e.type \in {"DISCONNECTED", "QUIESCED"} => Closed(e.generation)'
    BY <1>1, <1>2, <1>5, <1>7, Numbers DEF LinkInv, LinksClosed, Closed, Queued
  <2> QED BY <1>1, <1>4, <2>1 DEF LinksClosed
<1>11. KeysNotYet'
  BY <1>1, <1>2, <1>4, <1>6, <1>7, Numbers DEF KeysNotYet, Queued
<1>12. ReportsHold'
  <2>1. \A e \in events' : e.generation # c'.generation
    BY <1>1, <1>5, <1>7, Numbers
  <2>2. ~Queued("DISCONNECT", c.generation)' /\ ~Queued("QUIESCE", c.generation)'
    BY <1>1, <1>2, <1>6, <1>7, Numbers DEF Queued
  <2> QED BY <2>1, <2>2 DEF ReportsHold
<1>13. ConnectedHolds'
  BY <1>1 DEF ConnectedHolds
<1> QED BY <1>8, <1>9, <1>10, <1>11, <1>12, <1>13 DEF LinkInv

\* The link after a reset of the device.
LEMMA ResetKeepsLink ==
  ASSUME IInv, c'.network = None, cmds' = << >>, d' = DriverDown, events' = events,
         \/ c'.state = "FAILED" /\ c'.generation = c.generation
         \/ c'.state = "IDLE" /\ c'.generation = c.generation + 1
  PROVE  LinkInv'
<1>1. /\ Types /\ LinkInv /\ DOMAIN cmds' = {}
  BY EmptySeq DEF IInv
<1>2. d'.generation = 0 /\ d'.link = "down" /\ d'.keys = {}
  BY DEF DriverDown
<1>3. \A g : Closed(g)'
  BY <1>1, <1>2 DEF Closed, Queued
<1>4. GenerationsOrdered'
  BY <1>1, <1>2, Numbers DEF LinkInv, GenerationsOrdered
<1>5. LinksClosed'
  BY <1>2, <1>3 DEF LinksClosed
<1> QED BY <1>4, <1>5 DEF LinkInv, GenerationsMatch, KeysNotYet, ReportsHold, ConnectedHolds,
                         Live, Attempting

-----------------------------------------------------------------------------
(* The driver *)

\* What a step of the driver does to the queue.
DriverQueue ==
    /\ c' = c /\ now' = now /\ barredScan' = barredScan
    /\ cmds' \in Seq(CommandType)
    /\ \A op, g : Queued(op, g)' => Queued(op, g)
    /\ \A i \in DOMAIN cmds' :
          /\ cmds'[i].generation <= c.generation
          /\ c.network # None /\ cmds'[i].generation = c.generation =>
                cmds'[i].security = c.security /\ cmds'[i].network = c.network
          /\ cmds'[i].op = "AUTHENTICATE" =>
                /\ cmds'[i].generation = c.generation
                /\ d.generation < cmds'[i].generation
                /\ \A j \in DOMAIN cmds' :
                      j < i => cmds'[j].generation < cmds'[i].generation

\* The driver takes the oldest command, and an authentication is then the newest.
LEMMA TakeFacts ==
  ASSUME IInv, cmds # << >>, cmds' = Tail(cmds), UNCHANGED << c, now, barredScan >>
  PROVE  /\ DriverQueue
         /\ Head(cmds) \in CommandType
         /\ Queued(Head(cmds).op, Head(cmds).generation)
         /\ Head(cmds).generation <= c.generation
         /\ Head(cmds).op = "AUTHENTICATE" =>
               Head(cmds).generation = c.generation /\ d.generation < c.generation
         /\ c.network # None /\ Head(cmds).generation = c.generation =>
               Head(cmds).security = c.security /\ Head(cmds).network = c.network
         /\ \A g : g = Head(cmds).generation => ~Queued("AUTHENTICATE", g)'
<1>1. Types /\ LinkInv /\ cmds \in Seq(CommandType)
  BY DEF IInv, Types
<1>2. /\ cmds' \in Seq(CommandType)
      /\ 1 \in DOMAIN cmds /\ Head(cmds) = cmds[1] /\ Head(cmds) \in CommandType
      /\ \A i \in DOMAIN cmds' :
            i \in Nat /\ i + 1 \in DOMAIN cmds /\ cmds'[i] = cmds[i + 1]
  BY <1>1, Taken
<1>3. \A op, g : Queued(op, g)' => Queued(op, g)
  BY <1>2 DEF Queued
<1>4. \A i \in DOMAIN cmds' : i \in Nat /\ i # 0
  BY <1>2, LenProperties
<1>5. ASSUME NEW i \in DOMAIN cmds'
      PROVE  /\ cmds'[i].generation <= c.generation
             /\ c.network # None /\ cmds'[i].generation = c.generation =>
                   cmds'[i].security = c.security /\ cmds'[i].network = c.network
             /\ cmds'[i].op = "AUTHENTICATE" =>
                   /\ cmds'[i].generation = c.generation
                   /\ d.generation < cmds'[i].generation
                   /\ Head(cmds).generation < cmds'[i].generation
                   /\ \A j \in DOMAIN cmds' :
                         j < i => cmds'[j].generation < cmds'[i].generation
  <2>1. /\ i + 1 \in DOMAIN cmds /\ cmds'[i] = cmds[i + 1] /\ 1 < i + 1
        /\ \A j \in DOMAIN cmds' :
              j < i => j + 1 \in DOMAIN cmds /\ cmds'[j] = cmds[j + 1] /\ j + 1 < i + 1
    BY <1>2, <1>4
  <2> QED BY <1>1, <1>2, <2>1 DEF LinkInv, GenerationsOrdered, GenerationsMatch
<1>6. DriverQueue
  BY <1>2, <1>3, <1>5 DEF DriverQueue
<1>7. Queued(Head(cmds).op, Head(cmds).generation)
  BY <1>2 DEF Queued
<1>8. ASSUME NEW g, g = Head(cmds).generation
      PROVE  ~Queued("AUTHENTICATE", g)'
  <2>1. Head(cmds).generation \in Nat
    BY <1>1, <1>2, Numbers
  <2> QED BY <1>5, <1>8, <2>1 DEF Queued
<1> QED BY <1>1, <1>2, <1>6, <1>7, <1>8 DEF LinkInv, GenerationsOrdered, GenerationsMatch

\* The types after a step of the driver that may have raised an event.
LEMMA DriverTypes ==
  ASSUME IInv, DriverQueue, d' \in LinkType, NEW n,
         n.type \in EventTypes, n.generation \in 0 .. MaxAttempts,
         n.flags \subseteq Flags, n.aid \in 0 .. 1, n.replay \in 0 .. 1,
         events' \in {events, events \cup {n}}
  PROVE  Kept
<1>1. Types
  BY DEF IInv
<1>2. AssociationTypeOK'
  BY <1>1, TypesParts DEF DriverQueue, AssociationTypeOK, ControllerType, LinkType
<1>3. Types'
  BY <1>1, <1>2 DEF Types, DriverQueue
<1>4. Targets' /\ RoamStep /\ ScanStep
  BY DEF DriverQueue, IInv, Targets, SavedTargets, NetworkKept, RoamProtects, ScanBarred,
         RoamStep, ScanStep
<1> QED BY <1>3, <1>4 DEF Kept

\* A link that is not down is of this generation.
LEMMA UpIsCurrent ==
  ASSUME IInv, d.link # "down"
  PROVE  /\ d.generation = c.generation /\ ~Queued("AUTHENTICATE", c.generation)
         /\ \A g : Closed(g) => g # c.generation
<1>1. Types /\ LinkInv
  BY DEF IInv
<1>2. d.generation = c.generation
  BY <1>1, Numbers DEF LinkInv, GenerationsOrdered, LinksClosed
<1>3. ~Queued("AUTHENTICATE", c.generation)
  BY <1>1, <1>2, Numbers DEF LinkInv, GenerationsOrdered, Queued
<1>4. \A g : Closed(g) => g # c.generation
  BY <1>2 DEF Closed
<1> QED BY <1>2, <1>3, <1>4

\* The driver begins to authenticate: the link of the generation before is gone.
LEMMA AuthenticateStep ==
  ASSUME IInv, cmds # << >>, cmds' = Tail(cmds), DriverAuthenticate(Head(cmds)),
         UNCHANGED << c, now, barredScan >>
  PROVE  Kept /\ LinkInv'
<1> DEFINE x == Head(cmds)
           n == Event(x, "AUTHENTICATED", {}, 0, 0)
<1>1. Types /\ LinkInv /\ DriverQueue
  BY TakeFacts DEF IInv
<1>2. /\ x \in CommandType /\ x.generation = c.generation /\ d.generation < c.generation
      /\ Queued("AUTHENTICATE", c.generation) /\ ~Queued("AUTHENTICATE", c.generation)'
      /\ c.network # None => x.security = c.security /\ x.network = c.network
  BY TakeFacts DEF DriverAuthenticate
<1>3. /\ d' \in LinkType /\ d'.generation = c.generation /\ d'.security = x.security
      /\ d'.network = x.network /\ d'.keys = {}
  <2>1. DriverDown \in LinkType /\ DriverDown.keys = {}
    BY DownIsLink
  <2> QED BY <1>2, <2>1
             DEF DriverAuthenticate, LinkType, CommandType, NetworkOrNone
<1>4. /\ n.type = "AUTHENTICATED" /\ n.generation = c.generation /\ n.flags = {}
      /\ n.aid = 0 /\ n.replay = 0
      /\ n.security = x.security /\ n.bssid = x.network.bssid
  BY <1>2 DEF Event
<1>5. events' \in {events, events \cup {n}}
  BY DEF DriverAuthenticate, Silent, Raise
<1> HIDE DEF n, x
<1>6. Kept
  <2>1. n.generation \in 0 .. MaxAttempts
    BY <1>2, <1>4 DEF CommandType
  <2> QED BY <1>1, <1>3, <1>4, <1>5, <2>1, DriverTypes DEF EventTypes
<1>7. GenerationsOrdered'
  BY <1>1, <1>2, <1>3, <1>4, <1>5, Numbers DEF LinkInv, GenerationsOrdered, DriverQueue, Queued
<1>8. GenerationsMatch'
  BY <1>1, <1>2, <1>3, <1>4, <1>5 DEF LinkInv, GenerationsMatch, DriverQueue
<1>9. LinksClosed'
  <2>1. \A g : Closed(g) => Closed(g)'
    BY <1>1, <1>2, <1>3 DEF Closed, DriverQueue
  <2>2. \A e \in events' : e.type \in {"DISCONNECTED", "QUIESCED"} => Closed(e.generation)'
    BY <1>1, <1>4, <1>5, <2>1 DEF LinkInv, LinksClosed
  <2>3. c.state \notin {"IDLE", "SUSPENDED"}
    BY <1>1, <1>2 DEF LinkInv, LinksClosed, Closed
  <2> QED BY <1>1, <1>3, <2>2, <2>3, Numbers DEF LinksClosed, DriverQueue
<1>10. KeysNotYet'
  BY <1>1, <1>3 DEF LinkInv, KeysNotYet, DriverQueue
<1>11. Lost => Lost'
  BY <1>1, <1>5 DEF Lost, DriverQueue
<1>12. d.generation # c.generation
  BY <1>1, <1>2, Numbers
<1>13. ReportsHold'
  BY <1>1, <1>4, <1>5, <1>11, <1>12 DEF LinkInv, ReportsHold, DriverQueue
<1>14. ConnectedHolds'
  BY <1>1, <1>11, <1>12 DEF LinkInv, ConnectedHolds, DriverQueue
<1> QED BY <1>6, <1>7, <1>8, <1>9, <1>10, <1>13, <1>14 DEF LinkInv

\* The driver associates: it reports the flags that the link has.
LEMMA AssociateStep ==
  ASSUME IInv, cmds # << >>, cmds' = Tail(cmds), DriverAssociate(Head(cmds)),
         UNCHANGED << c, now, barredScan >>
  PROVE  Kept /\ LinkInv'
<1> DEFINE x == Head(cmds)
<1>1. Types /\ LinkInv /\ DriverQueue
  BY TakeFacts DEF IInv
<1>2. PICK aid \in 0 .. 1, flags \in SUBSET {"pmf"} :
        /\ d' = [d EXCEPT !.link = "associated", !.aid = aid, !.keys = flags]
        /\ Silent \/ Raise(Event(x, "ASSOCIATED", flags, aid, 0))
  BY DEF DriverAssociate
<1> DEFINE n == Event(x, "ASSOCIATED", flags, aid, 0)
<1>3. /\ x \in CommandType /\ d.link = "authenticated"
      /\ d.generation = x.generation /\ d.generation = c.generation
      /\ c.network # None => x.security = c.security /\ x.network = c.network
      /\ \A g : Closed(g) => g # c.generation
      /\ ~Queued("AUTHENTICATE", c.generation)
  <2>1. d.link = "authenticated" /\ d.generation = x.generation
    BY DEF DriverAssociate
  <2> QED BY <2>1, TakeFacts, UpIsCurrent
<1>4. /\ d' \in LinkType /\ d'.generation = c.generation /\ d'.link = "associated"
      /\ d'.network = d.network /\ d'.security = d.security
      /\ d'.keys = flags /\ flags \subseteq Flags
  BY <1>1, <1>2, <1>3, TypesParts DEF LinkType, Flags
<1>5. /\ n.type = "ASSOCIATED" /\ n.generation = c.generation /\ n.flags = flags
      /\ n.aid = aid /\ n.replay = 0
      /\ n.security = x.security /\ n.bssid = x.network.bssid
  BY <1>3 DEF Event
<1>6. events' \in {events, events \cup {n}}
  BY <1>2 DEF Silent, Raise
<1> HIDE DEF n, x
<1>7. Kept
  <2>1. n.generation \in 0 .. MaxAttempts
    BY <1>3, <1>5 DEF CommandType
  <2>2. n.aid \in 0 .. 1
    BY <1>5
  <2>3. n.replay \in 0 .. 1
    BY <1>5
  <2>4. n.flags \subseteq Flags /\ n.type \in EventTypes
    BY <1>4, <1>5 DEF EventTypes
  <2> QED BY <1>1, <1>4, <1>6, <2>1, <2>2, <2>3, <2>4, DriverTypes
<1>8. GenerationsOrdered'
  BY <1>1, <1>3, <1>4, <1>5, <1>6, Numbers DEF LinkInv, GenerationsOrdered, DriverQueue
<1>9. GenerationsMatch'
  BY <1>1, <1>3, <1>4, <1>5, <1>6 DEF LinkInv, GenerationsMatch, DriverQueue
<1>10. LinksClosed'
  <2>1. \A g : Closed(g) => Closed(g)'
    BY <1>1, <1>3, <1>4 DEF Closed, DriverQueue
  <2>2. \A e \in events' : e.type \in {"DISCONNECTED", "QUIESCED"} => Closed(e.generation)'
    BY <1>1, <1>5, <1>6, <2>1 DEF LinkInv, LinksClosed
  <2>3. c.state \notin {"IDLE", "SUSPENDED"}
    BY <1>1, <1>3 DEF LinkInv, LinksClosed
  <2> QED BY <1>1, <1>4, <2>2, <2>3, Numbers DEF LinksClosed, DriverQueue
<1>11. KeysNotYet'
  BY <1>1, <1>4 DEF LinkInv, KeysNotYet, DriverQueue
<1>12. Lost => Lost'
  BY <1>1, <1>6 DEF Lost, DriverQueue
<1>13. ReportsHold'
  BY <1>1, <1>3, <1>4, <1>5, <1>6, <1>12 DEF LinkInv, ReportsHold, DriverQueue
<1>14. ConnectedHolds'
  BY <1>1, <1>3, <1>12 DEF LinkInv, ConnectedHolds, DriverQueue
<1> QED BY <1>7, <1>8, <1>9, <1>10, <1>11, <1>13, <1>14 DEF LinkInv

\* The driver installs the keys of the attempt: it was asked to.
LEMMA KeyExchangeStep ==
  ASSUME IInv, cmds # << >>, cmds' = Tail(cmds), DriverKeyExchange(Head(cmds)),
         UNCHANGED << c, now, barredScan >>
  PROVE  Kept /\ LinkInv'
<1> DEFINE x == Head(cmds)
<1>1. Types /\ LinkInv /\ DriverQueue
  BY TakeFacts DEF IInv
<1>2. PICK keys \in {{"pairwise"}, {"pairwise", "group"}}, replay \in 0 .. 1 :
        /\ d' = [d EXCEPT !.keys = @ \cup keys]
        /\ Silent \/ Raise(Event(x, "KEYS_INSTALLED", d'.keys, d.aid, replay))
  BY DEF DriverKeyExchange
<1> DEFINE n == Event(x, "KEYS_INSTALLED", d'.keys, d.aid, replay)
<1>3. /\ x \in CommandType /\ d.link = "associated"
      /\ d.generation = x.generation /\ d.generation = c.generation
      /\ c.network # None => x.security = c.security /\ x.network = c.network
      /\ \A g : Closed(g) => g # c.generation
      /\ Queued("KEY_EXCHANGE", c.generation)
  <2>1. d.link = "associated" /\ d.generation = x.generation /\ x.op = "KEY_EXCHANGE"
    BY DEF DriverKeyExchange
  <2> QED BY <2>1, TakeFacts, UpIsCurrent
<1>4. /\ d' \in LinkType /\ d'.generation = c.generation /\ d'.link = "associated"
      /\ d'.network = d.network /\ d'.security = d.security
      /\ d.keys \subseteq d'.keys /\ d'.keys \subseteq Flags /\ d.aid \in 0 .. 1
  <2>1. d \in LinkType /\ keys \subseteq Flags
    BY <1>1, <1>2, TypesParts DEF Flags
  <2>2. d.keys \cup keys \in SUBSET Flags
    BY <2>1 DEF LinkType
  <2>3. d' \in LinkType /\ d'.keys = d.keys \cup keys
    BY <1>2, <2>1, <2>2 DEF LinkType
  <2>4. /\ d'.generation = d.generation /\ d'.link = d.link /\ d'.network = d.network
        /\ d'.security = d.security /\ d.aid \in 0 .. 1
    BY <1>2, <2>1 DEF LinkType
  <2> QED BY <1>3, <2>2, <2>3, <2>4
<1>5. /\ n.type = "KEYS_INSTALLED" /\ n.generation = c.generation /\ n.flags = d'.keys
      /\ n.aid = d.aid /\ n.replay = replay
      /\ n.security = x.security /\ n.bssid = x.network.bssid
  BY <1>3 DEF Event
<1>6. events' \in {events, events \cup {n}}
  BY <1>2 DEF Silent, Raise
<1> HIDE DEF n, x
<1>7. Kept
  <2>1. n.generation \in 0 .. MaxAttempts
    BY <1>3, <1>5 DEF CommandType
  <2> QED BY <1>1, <1>4, <1>5, <1>6, <2>1, DriverTypes DEF EventTypes
<1>8. GenerationsOrdered'
  BY <1>1, <1>3, <1>4, <1>5, <1>6, Numbers DEF LinkInv, GenerationsOrdered, DriverQueue
<1>9. GenerationsMatch'
  BY <1>1, <1>3, <1>4, <1>5, <1>6 DEF LinkInv, GenerationsMatch, DriverQueue
<1>10. LinksClosed'
  <2>1. \A g : Closed(g) => Closed(g)'
    BY <1>1, <1>3, <1>4 DEF Closed, DriverQueue
  <2>2. \A e \in events' : e.type \in {"DISCONNECTED", "QUIESCED"} => Closed(e.generation)'
    BY <1>1, <1>5, <1>6, <2>1 DEF LinkInv, LinksClosed
  <2>3. c.state \notin {"IDLE", "SUSPENDED"}
    BY <1>1, <1>3 DEF LinkInv, LinksClosed
  <2> QED BY <1>1, <1>4, <2>2, <2>3, Numbers DEF LinksClosed, DriverQueue
<1>11. KeysNotYet'
  BY <1>1, <1>3 DEF LinkInv, KeysNotYet, DriverQueue
<1>12. Lost => Lost'
  BY <1>1, <1>6 DEF Lost, DriverQueue
<1>13. ReportsHold'
  BY <1>1, <1>3, <1>4, <1>5, <1>6, <1>12 DEF LinkInv, ReportsHold, DriverQueue
<1>14. ConnectedHolds'
  <2>1. LinkFlags' = LinkFlags
    BY <1>1 DEF DriverQueue, LinkFlags
  <2> QED BY <1>1, <1>3, <1>4, <1>12, <2>1 DEF LinkInv, ConnectedHolds, DriverQueue
<1> QED BY <1>7, <1>8, <1>9, <1>10, <1>11, <1>13, <1>14 DEF LinkInv

\* An event that is neither a report of the link nor of its loss.
LEMMA OtherEventStep ==
  ASSUME IInv, DriverQueue, UNCHANGED d, NEW n, n.type = "FAILED",
         n.generation \in 0 .. MaxAttempts, n.generation <= c.generation,
         n.flags = {}, n.aid = 0, n.replay = 0,
         c.network # None /\ n.generation = c.generation =>
            n.security = c.security /\ n.bssid = c.network.bssid,
         events' \in {events, events \cup {n}}
  PROVE  Kept /\ LinkInv'
<1>1. Types /\ LinkInv
  BY DEF IInv
<1>2. Kept
  <2>1. d' \in LinkType
    BY <1>1, TypesParts
  <2> QED BY <2>1, DriverTypes DEF EventTypes
<1>3. GenerationsOrdered' /\ GenerationsMatch'
  BY <1>1 DEF LinkInv, GenerationsOrdered, GenerationsMatch, DriverQueue
<1>4. LinksClosed'
  <2>1. \A g : Closed(g) => Closed(g)'
    BY DEF Closed, DriverQueue
  <2>2. \A e \in events' : e.type \in {"DISCONNECTED", "QUIESCED"} => Closed(e.generation)'
    BY <1>1, <2>1 DEF LinkInv, LinksClosed
  <2>3. c.state \in {"IDLE", "SUSPENDED"} => Closed(c.generation)'
    BY <1>1, <2>1 DEF LinkInv, LinksClosed, Closed, DriverQueue
  <2> QED BY <1>1, <2>2, <2>3 DEF LinkInv, LinksClosed, DriverQueue
<1>5. KeysNotYet'
  BY <1>1 DEF LinkInv, KeysNotYet, DriverQueue
<1>6. Lost => Lost'
  BY DEF Lost, DriverQueue
<1>7. ReportsHold'
  BY <1>1, <1>6 DEF LinkInv, ReportsHold, DriverQueue
<1>8. ConnectedHolds'
  <2>1. LinkFlags' = LinkFlags
    BY DEF DriverQueue, LinkFlags
  <2> QED BY <1>1, <1>6, <2>1 DEF LinkInv, ConnectedHolds, DriverQueue
<1> QED BY <1>2, <1>3, <1>4, <1>5, <1>7, <1>8 DEF LinkInv

\* The link goes down, as it was asked to or by itself, and is reported gone.
LEMMA DropStep ==
  ASSUME IInv, DriverQueue, NEW n, n.type \in {"QUIESCED", "DISCONNECTED"},
         n.generation \in 0 .. MaxAttempts, n.generation <= c.generation,
         n.flags = {}, n.aid = 0, n.replay = 0,
         c.network # None /\ n.generation = c.generation =>
            n.security = c.security /\ n.bssid = c.network.bssid,
         \A g : g = n.generation => ~Queued("AUTHENTICATE", g)',
         d' = IF d.generation = n.generation THEN DropLink ELSE d,
         events' \in {events, events \cup {n}},
         \/ events' = events \cup {n} /\ n.type = "DISCONNECTED"
         \/ n.generation = c.generation => c.state \notin Live
  PROVE  Kept /\ LinkInv'
<1>1. Types /\ LinkInv
  BY DEF IInv
<1>2. /\ d' \in LinkType /\ d'.generation = d.generation
      /\ d'.network = d.network /\ d'.security = d.security
      /\ d'.keys \subseteq d.keys /\ d.link = "down" => d'.link = "down"
      /\ d.generation # n.generation => d' = d
      /\ d.generation = n.generation => d'.link = "down" /\ d'.keys = {}
  <2>1. d \in LinkType
    BY <1>1, TypesParts
  <2> QED BY <2>1 DEF DropLink, LinkType
<1>3. Kept
  BY <1>2, DriverTypes DEF EventTypes
<1>4. GenerationsOrdered' /\ GenerationsMatch'
  BY <1>1, <1>2 DEF LinkInv, GenerationsOrdered, GenerationsMatch, DriverQueue
<1>5. LinksClosed'
  <2>1. \A g : Closed(g) => Closed(g)'
    BY <1>2 DEF Closed, DriverQueue
  <2>2. Closed(n.generation)'
    BY <1>2 DEF Closed
  <2>3. \A e \in events' : e.type \in {"DISCONNECTED", "QUIESCED"} => Closed(e.generation)'
    BY <1>1, <2>1, <2>2 DEF LinkInv, LinksClosed
  <2>4. c.state \in {"IDLE", "SUSPENDED"} => Closed(c.generation)'
    BY <1>1, <2>1 DEF LinkInv, LinksClosed, Closed, DriverQueue
  <2> QED BY <1>1, <1>2, <2>3, <2>4 DEF LinkInv, LinksClosed, DriverQueue
<1>6. KeysNotYet'
  BY <1>1, <1>2 DEF LinkInv, KeysNotYet, DriverQueue
<1>7. Lost => Lost'
  BY DEF Lost, DriverQueue
<1>8. c.state \in Live => d' = d \/ Lost' \/ d.generation # c.generation
  BY <1>2 DEF Lost, DriverQueue
<1>9. ReportsHold'
  BY <1>1, <1>2, <1>7, <1>8 DEF LinkInv, ReportsHold, DriverQueue
<1>10. ConnectedHolds'
  <2>1. LinkFlags' = LinkFlags
    BY DEF DriverQueue, LinkFlags
  <2> QED BY <1>1, <1>7, <1>8, <2>1 DEF LinkInv, ConnectedHolds, DriverQueue, Live
<1> QED BY <1>3, <1>4, <1>5, <1>6, <1>9, <1>10 DEF LinkInv

\* Every step of the driver.
LEMMA DriverStep ==
  ASSUME IInv, DriverTake \/ DriverLosesLink
  PROVE  Kept /\ LinkInv'
<1>1. CASE DriverTake
  <2> DEFINE x == Head(cmds)
  <2>1. /\ cmds # << >> /\ cmds' = Tail(cmds) /\ UNCHANGED << c, now, barredScan >>
        /\ \/ DriverAuthenticate(x) \/ DriverAssociate(x) \/ DriverKeyExchange(x)
           \/ DriverStop(x) \/ DriverRefuse(x)
    BY <1>1 DEF DriverTake
  <2>2. /\ DriverQueue /\ x \in CommandType /\ x.generation <= c.generation
        /\ x.generation \in 0 .. MaxAttempts
        /\ Queued(x.op, x.generation)
        /\ c.network # None /\ x.generation = c.generation =>
              x.security = c.security /\ x.network = c.network
        /\ \A g : g = x.generation => ~Queued("AUTHENTICATE", g)'
    BY <2>1, TakeFacts DEF CommandType
  <2>3. CASE DriverStop(x)
    <3> DEFINE n == Event(x, IF x.op = "QUIESCE" THEN "QUIESCED" ELSE "DISCONNECTED", {}, 0, 0)
    <3>1. /\ n.type \in {"QUIESCED", "DISCONNECTED"} /\ n.generation = x.generation
          /\ n.flags = {} /\ n.aid = 0 /\ n.replay = 0
          /\ n.security = x.security /\ n.bssid = x.network.bssid
      BY DEF Event
    <3>2. /\ events' \in {events, events \cup {n}}
          /\ d' = IF d.generation = x.generation THEN DropLink ELSE d
          /\ x.op \in {"DISCONNECT", "QUIESCE"}
      BY <2>3 DEF DriverStop, Silent, Raise
    <3> HIDE DEF n, x
    <3>3. x.generation = c.generation => c.state \notin Live
      BY <2>2, <3>2 DEF IInv, LinkInv, ReportsHold
    <3> QED BY <2>2, <3>1, <3>2, <3>3, DropStep
  <2>4. CASE DriverRefuse(x)
    <3> DEFINE n == Event(x, "FAILED", {}, 0, 0)
    <3>1. /\ n.type = "FAILED" /\ n.generation = x.generation
          /\ n.flags = {} /\ n.aid = 0 /\ n.replay = 0
          /\ n.security = x.security /\ n.bssid = x.network.bssid
      BY DEF Event
    <3>2. events' \in {events, events \cup {n}} /\ UNCHANGED d
      BY <2>4 DEF DriverRefuse, Silent, Raise
    <3> HIDE DEF n, x
    <3> QED BY <2>2, <3>1, <3>2, OtherEventStep
  <2> QED BY <2>1, <2>3, <2>4, AuthenticateStep, AssociateStep, KeyExchangeStep
<1>2. CASE DriverLosesLink
  <2> DEFINE n == Event(d, "DISCONNECTED", {}, 0, 0)
  <2>1. /\ d.link # "down" /\ events' = events \cup {n} /\ d' = DropLink
        /\ UNCHANGED << c, cmds, now, barredScan >>
    BY <1>2 DEF DriverLosesLink, Raise
  <2>2. Types /\ LinkInv /\ d.generation = c.generation
        /\ ~Queued("AUTHENTICATE", c.generation)
    BY <2>1, UpIsCurrent DEF IInv
  <2>3. /\ n.type = "DISCONNECTED" /\ n.generation = c.generation
        /\ n.flags = {} /\ n.aid = 0 /\ n.replay = 0
        /\ n.security = d.security /\ n.bssid = d.network.bssid
    BY <2>2 DEF Event
  <2> HIDE DEF n
  <2>4. DriverQueue
    BY <2>1, <2>2 DEF DriverQueue, Types, LinkInv, GenerationsOrdered, GenerationsMatch, Queued
  <2>5. c.network # None => n.security = c.security /\ n.bssid = c.network.bssid
    BY <2>2, <2>3 DEF LinkInv, GenerationsMatch
  <2>6. \A g : g = n.generation => ~Queued("AUTHENTICATE", g)'
    BY <2>1, <2>2, <2>3 DEF Queued
  <2>7. c.generation \in 0 .. MaxAttempts /\ c.generation <= c.generation
    BY <2>2, TypesParts, Numbers DEF ControllerType
  <2> QED BY <2>1, <2>2, <2>3, <2>4, <2>5, <2>6, <2>7, DropStep
<1> QED BY <1>1, <1>2

-----------------------------------------------------------------------------
(* The invariant, and what follows from it *)

\* The invariant holds of a zeroed controller and a driver without a link.
LEMMA InitIInv == AssociationInit => IInv
<1> SUFFICES ASSUME AssociationInit PROVE IInv
  OBVIOUS
<1>1. /\ c = IdleController /\ cmds = << >> /\ events = {} /\ d = DriverDown
      /\ now = 0 /\ barredScan = 0
  BY DEF AssociationInit
<1>2. /\ c \in ControllerType /\ c.state = "IDLE" /\ c.generation = 0
      /\ c.network = None /\ c.roam = None /\ c.resumeTarget = None
      /\ c.resumeRequired = FALSE
  BY <1>1, AssociationAssumption
     DEF IdleController, ControllerType, ControllerStates, Securities, NetworkOrNone
<1>3. Types
  <2>1. cmds \in Seq(CommandType)
    BY <1>1, EmptySeq
  <2>2. d \in LinkType
    BY <1>1, DownIsLink
  <2> QED BY <1>1, <1>2, <2>1, <2>2, AssociationAssumption
             DEF Types, AssociationTypeOK, ControllerType, LinkType
<1>4. Targets
  BY <1>1, <1>2 DEF Targets, SavedTargets, NetworkKept, RoamProtects, ScanBarred, Busy, Attempting
<1>5. LinkInv
  <2>1. DOMAIN cmds = {}
    BY <1>1, EmptySeq
  <2>2. \A g : Closed(g)
    BY <1>1, <2>1, DownIsLink DEF Closed, Queued
  <2> QED BY <1>1, <1>2, <2>1, <2>2, DownIsLink
             DEF LinkInv, GenerationsOrdered, GenerationsMatch, LinksClosed, KeysNotYet,
                 ReportsHold, ConnectedHolds, Live, Attempting
<1> QED BY <1>3, <1>4, <1>5 DEF IInv

\* Every step keeps the invariant, and the protection of a roam and the scan bound.
LEMMA NextIInv ==
  ASSUME IInv, [AssociationNext]_associationVars
  PROVE  IInv' /\ RoamStep /\ ScanStep
<1>1. ASSUME Kept, LinkInv' PROVE IInv' /\ RoamStep /\ ScanStep
  BY <1>1 DEF Kept, IInv
<1>2. ASSUME Kept, Advance \/ Fresh PROVE LinkInv'
  BY <1>2, AdvanceKeepsLink, FreshKeepsLink DEF Kept
<1>3. ASSUME NEW n \in Networks, NEW t \in Timeouts, AssociationStart(n, t)
      PROVE  Kept /\ LinkInv'
  <2>1. 0 \in 0 .. MaxScan
    BY AssociationAssumption
  <2> QED BY <1>2, <1>3, <2>1, StartStep
<1>4. ASSUME NEW n \in Networks, NEW t \in Timeouts, NEW s \in 0 .. MaxScan,
             StartFromScan(n, s, t)
      PROVE  Kept /\ LinkInv'
  BY <1>2, <1>4, StartStep
<1>5. CASE AssociationDisconnect
  BY <1>1, <1>2, <1>5, DisconnectStep
<1>6. ASSUME NEW s \in 0 .. MaxScan, NEW t \in Timeouts, Suspend(s, t)
      PROVE  Kept /\ LinkInv'
  BY <1>2, <1>6, SuspendStep
<1>7. CASE Resume
  BY <1>1, <1>2, <1>7, ResumedStep DEF Resume
<1>8. ASSUME NEW S \in SUBSET Networks, NEW s \in 0 .. MaxScan, NEW t \in Timeouts,
             ResumeFromScan(S, s, t)
      PROVE  Kept /\ LinkInv'
  BY <1>2, <1>8, ResumeFromScanStep
<1>9. ASSUME NEW n \in Networks, NEW seen \in 0 .. now, NEW age \in 0 .. MaxRoamAge,
             NEW gain \in RoamGains, NEW t \in Timeouts, Roam(n, seen, age, gain, t)
      PROVE  Kept /\ LinkInv'
  BY <1>2, <1>9, RoamingStep
<1>10. CASE InvalidateForDeviceReset
  BY <1>1, <1>10, InvalidatedFacts, ResetKeepsLink
<1>11. CASE Poll
  BY <1>1, <1>2, <1>11, PollStep DEF Poll
<1>12. CASE Tick \/ UNCHANGED associationVars
  <2>1. /\ UNCHANGED << c, cmds, events, d, barredScan >> /\ now' \in 0 .. MaxTime
    BY <1>12, TypesParts, AssociationAssumption DEF Tick, associationVars, IInv
  <2>2. Types'
    BY <2>1 DEF IInv, Types, AssociationTypeOK
  <2>3. Targets' /\ RoamStep /\ ScanStep
    BY <2>1 DEF IInv, Targets, SavedTargets, NetworkKept, RoamProtects, ScanBarred,
                RoamStep, ScanStep
  <2>4. GenerationsOrdered' /\ GenerationsMatch'
    BY <2>1 DEF IInv, LinkInv, GenerationsOrdered, GenerationsMatch
  <2>5. LinksClosed' /\ KeysNotYet'
    BY <2>1 DEF IInv, LinkInv, LinksClosed, Closed, Queued, KeysNotYet
  <2>6. ReportsHold'
    BY <2>1 DEF IInv, LinkInv, ReportsHold, Queued, Lost
  <2>7. ConnectedHolds'
    BY <2>1 DEF IInv, LinkInv, ConnectedHolds, LinkFlags, Lost
  <2> QED BY <2>2, <2>3, <2>4, <2>5, <2>6, <2>7 DEF IInv, LinkInv
<1>13. CASE Deliver
  BY <1>1, <1>2, <1>13, DeliverStep
<1>14. CASE DriverTake \/ DriverLosesLink
  BY <1>1, <1>14, DriverStep
<1>15. CASE Owner
  BY <1>1, <1>3, <1>4, <1>5, <1>6, <1>7, <1>8, <1>9, <1>10, <1>15 DEF Owner
<1> QED BY <1>11, <1>12, <1>13, <1>14, <1>15 DEF AssociationNext

LEMMA IInvHolds == AssociationSpec => []IInv
<1>1. IInv /\ [AssociationNext]_associationVars => IInv'
  BY NextIInv
<1> QED BY <1>1, InitIInv, PTL DEF AssociationSpec

\* The types of the controller and of the driver, for every bound.
THEOREM AssociationTypes == AssociationSpec => []AssociationTypeOK
<1>1. IInv => AssociationTypeOK
  BY DEF IInv, Types
<1> QED BY <1>1, IInvHolds, PTL

\* The networks that the controller saves are kept only while they are wanted, and
\* are valid (association.c:184-214).
THEOREM TargetsSaved == AssociationSpec => []SavedTargets
<1>1. IInv => SavedTargets
  BY DEF IInv, Targets
<1> QED BY <1>1, IInvHolds, PTL

\* A connected controller is right about its link, unless the report of its loss is
\* under way, and there is no traffic key where there must be none: however late,
\* often or out of order the events of the driver come (association.c:466-569).
THEOREM KeysMatch == AssociationSpec => []KeysMatchState
<1>1. IInv => KeysMatchState
  <2> SUFFICES ASSUME IInv PROVE KeysMatchState
    OBVIOUS
  <2>1. Types /\ LinkInv
    BY DEF IInv
  <2>2. ASSUME c.state = "CONNECTED"
        PROVE  \/ /\ d.link = "associated" /\ d.generation = c.generation
                  /\ d.network = c.network /\ LinkFlags \subseteq d.keys
               \/ Lost
    <3>1. c.network # None
      BY <2>2, LiveTargets, AssociationAssumption DEF Live
    <3> QED BY <2>1, <2>2, <3>1 DEF LinkInv, ConnectedHolds, GenerationsMatch
  <2>3. ASSUME c.state \in {"IDLE", "SUSPENDED"} PROVE d.keys = {}
    BY <2>1, <2>3, Numbers DEF LinkInv, LinksClosed, Closed, GenerationsOrdered
  <2> QED BY <2>1, <2>2, <2>3 DEF KeysMatchState, Lost, LinkInv, KeysNotYet
<1> QED BY <1>1, IInvHolds, PTL

\* A roam never lowers the protection of the link (association.c:801-813, 496-515).
THEOREM RoamsProtected == AssociationSpec => RoamKeepsProtection
<1>1. IInv /\ [AssociationNext]_associationVars => [RoamStep]_associationVars
  BY NextIInv
<1>2. AssociationSpec => [][RoamStep]_associationVars
  BY <1>1, IInvHolds, PTL DEF AssociationSpec
<1> QED BY <1>2 DEF RoamKeepsProtection, RoamStep

\* After a suspend an attempt starts only from a newer scan (association.h:150-151).
THEOREM ResumesAfterScan == AssociationSpec => ResumeNeedsNewScan
<1>1. IInv /\ [AssociationNext]_associationVars => [ScanStep]_associationVars
  BY NextIInv
<1>2. AssociationSpec => [][ScanStep]_associationVars
  BY <1>1, IInvHolds, PTL DEF AssociationSpec
<1> QED BY <1>2 DEF ResumeNeedsNewScan, ScanStep

==============================================================================
