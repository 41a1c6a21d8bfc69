----------------------------- MODULE HciDiscovery ----------------------------
(***************************************************************************)
(* The discovery tables of the Bluetooth HCI runtime (hci_runtime_v1.c):   *)
(* advertising reports, the chains that extended reports are assembled in, *)
(* and the table of devices.  An event carries several reports and is      *)
(* accepted or refused as a whole.  HciController models the commands that *)
(* start and stop a scan; here a scan is on or off.                        *)
(*                                                                         *)
(* External are the advertisers and the chip that cuts what they send into *)
(* reports: it tells of every advertisement how it ended, except of those  *)
(* that the end of a scan cut short.  The bytes of a report are a chunk:   *)
(* which advertisement it is of and whether it is its first or its second  *)
(* part.  Of what a device record holds, the data are whole or not.  The   *)
(* clock moves on from event to event, so the generation tells the time.   *)
(***************************************************************************)
EXTENDS Naturals, Sequences, FiniteSets
LOCAL INSTANCE SequencesExt

CONSTANTS
  Advertisers,     \* identities: an address, or the SID of an anonymous one
  Movers,          \* those whose reports differ in PHY or type between advertisements
  Beacons,         \* those whose advertisements fit in one report
  Nobody,
  MaxChains,       \* RIN_BLUETOOTH_HCI_MAX_FRAGMENT_CHAINS
  MaxDiscovered,   \* RIN_BLUETOOTH_HCI_MAX_DEVICES
  MaxAdvData,      \* RIN_BLUETOOTH_HCI_MAX_ADV_DATA, in chunks
  MaxReports,      \* RIN_BLUETOOTH_HCI_MAX_EXT_REPORTS
  MaxReportGen     \* UINT32_MAX, the limit of the report generation

ASSUME DiscoveryLimitsAssumption ==
  /\ MaxChains \in Nat \ {0} /\ MaxDiscovered \in Nat \ {0} /\ MaxReports \in Nat \ {0}
  /\ MaxReportGen \in Nat /\ MaxAdvData \in Nat \ {0, 1}
ASSUME NobodyAssumption == Nobody \notin Advertisers /\ Movers \cup Beacons \subseteq Advertisers

VARIABLES
  scan,            \* scan_active
  reportGen,       \* generation
  chains,          \* fragments
  devices,
  air,             \* chip: of each advertiser, the advertisement and the parts sent
  holed            \* history: an advertisement of it lost a part before the runtime

discoveryVars == <<scan, reportGen, chains, devices, air, holed>>

NoChain == [who |-> Nobody, sort |-> 0, data |-> <<>>]
NoDevice == [who |-> Nobody, name |-> Nobody, whole |-> FALSE, seen |-> 0]

DiscoveryInit ==
  /\ scan = "none" /\ reportGen = 1
  /\ chains = [i \in 1..MaxChains |-> NoChain]
  /\ devices = [i \in 1..MaxDiscovered |-> NoDevice]
  /\ air = [a \in Advertisers |-> [advert |-> 0, sent |-> 0]]
  /\ holed = [a \in Advertisers |-> FALSE]

\* The lowest index with a property, as the loops of the tables find it.
Lowest(indices) == CHOOSE i \in indices : \A j \in indices : i <= j

-----------------------------------------------------------------------------
(* What the chip reports.  Advertisements of two parts and of one follow    *)
(* each other; one more part or less is all that a splice can show.         *)

Fresh(a, who) == a[who].sent = 0
AdvertOf(a, who) == IF Fresh(a, who) THEN 1 - a[who].advert ELSE a[who].advert

Statuses(a, who) ==
  IF who \in Beacons THEN {"complete"}
  ELSE {"complete", "truncated"} \cup (IF Fresh(a, who) THEN {"more"} ELSE {})

\* An advertisement of one part carries the name.  parses: what
\* parse_advertising_data finds should the data not be whole.
ReportOf(a, who, status, parses) ==
  [who |-> who, status |-> status, named |-> Fresh(a, who), parses |-> parses,
   sort |-> IF who \in Movers THEN AdvertOf(a, who) ELSE 0,
   chunk |-> [advert |-> AdvertOf(a, who), part |-> a[who].sent + 1, last |-> status = "complete"]]

\* The count starts over where no part is left to tell advertisements apart.
Renumbered(a, leftover) ==
  [who \in Advertisers |->
     IF a[who].sent = 0 /\ \A i \in DOMAIN leftover : leftover[i].who # who
       THEN [advert |-> 0, sent |-> 0] ELSE a[who]]

After(a, who, status) ==
  [a EXCEPT ![who] = [advert |-> AdvertOf(a, who), sent |-> IF status = "more" THEN 1 ELSE 0]]

WholeData(data) ==
  /\ \A i \in DOMAIN data :
       data[i].part = i /\ data[i].advert = data[1].advert /\ data[i].last = (i = Len(data))

-----------------------------------------------------------------------------
(* The runtime.                                                             *)

\* device_slot: the entry of the device, else a free one, else the one not seen
\* for the longest time.
DeviceSlot(table, who) ==
  LET mine == {i \in DOMAIN table : table[i].who = who}
      free == {i \in DOMAIN table : table[i] = NoDevice}
      oldest == {i \in DOMAIN table : \A j \in DOMAIN table : table[i].seen <= table[j].seen}
  IN  IF mine # {} THEN Lowest(mine) ELSE IF free # {} THEN Lowest(free) ELSE Lowest(oldest)

\* Mutant: a record without a name keeps the name of whoever was there.
KeptNameAny(old, who) == old.name

\* A report without a name keeps the name that the same device had before.
KeptName(old, who) == IF old.who = who THEN old.name ELSE Nobody

PublishReport(table, p) ==
  LET i == DeviceSlot(table, p.who)
  IN  [table EXCEPT ![i] =
        [who |-> p.who, name |-> IF p.named THEN p.who ELSE KeptName(@, p.who),
         whole |-> WholeData(p.data), seen |-> reportGen]]

\* The reports of one event are staged on a copy of the chains.
Staged == [chains |-> chains, out |-> <<>>, assembled |-> 0, ok |-> TRUE]

FragmentFind(s, r) == {i \in DOMAIN s.chains : s.chains[i].who = r.who}
FreeChains(s) == {i \in DOMAIN s.chains : s.chains[i] = NoChain}
SameSort(s, r) == \A i \in FragmentFind(s, r) : s.chains[i].sort = r.sort
RefusedReport(s) == [s EXCEPT !.ok = FALSE]

StageMore(s, r) ==
  LET mine == FragmentFind(s, r)
      i == Lowest(IF mine # {} THEN mine ELSE FreeChains(s))
      old == IF mine # {} THEN s.chains[i] ELSE [who |-> r.who, sort |-> r.sort, data |-> <<>>]
  IN  IF \/ mine = {} /\ FreeChains(s) = {}
         \/ ~SameSort(s, r)
         \/ mine # {} /\ Len(old.data) + 1 > MaxAdvData
        THEN RefusedReport(s)
        ELSE [s EXCEPT !.chains[i] = [old EXCEPT !.data = Append(@, r.chunk)]]

Closed(s, r) ==
  [i \in DOMAIN s.chains |-> IF i \in FragmentFind(s, r) THEN NoChain ELSE s.chains[i]]

\* Mutant: the parts of an advertisement that broke off stay in the chain.
StageTruncatedKept(s, r) == s

StageTruncated(s, r) ==
  IF SameSort(s, r) THEN [s EXCEPT !.chains = Closed(s, r)] ELSE RefusedReport(s)

StageComplete(s, r) ==
  LET mine == FragmentFind(s, r)
      data == (IF mine = {} THEN <<>> ELSE s.chains[Lowest(mine)].data) \o <<r.chunk>>
  IN  IF \/ ~SameSort(s, r)
         \/ mine # {} /\ (s.assembled = MaxChains \/ Len(data) > MaxAdvData)
         \/ ~(WholeData(data) \/ r.parses)
        THEN RefusedReport(s)
        ELSE [s EXCEPT !.chains = Closed(s, r),
                       !.assembled = IF mine = {} THEN @ ELSE @ + 1,
                       !.out = Append(@, [who |-> r.who, named |-> r.named, data |-> data])]

Stage(s, r) ==
  CASE ~s.ok -> s
    [] s.ok /\ r.status = "more" -> StageMore(s, r)
    [] s.ok /\ r.status = "truncated" -> StageTruncated(s, r)
    [] s.ok /\ r.status = "complete" -> StageComplete(s, r)

\* extended_advertising_report up to the point where nothing can fail any more.
Accepts(s) == s.ok /\ (s.out # <<>> => reportGen < MaxReportGen)

\* A refused event leaves the chains as they were.
Committed(s) == IF Accepts(s) THEN s.chains ELSE chains

\* A part is missing from the chain of an advertiser until its advertisement has
\* ended at the chip and its chain is closed.
Holes(lost, leftover, a) ==
  [who \in Advertisers |->
     /\ holed[who] \/ who \in lost
     /\ a[who].sent # 0 \/ \E i \in DOMAIN leftover : leftover[i].who = who]

\* extended_advertising_report for an event with these reports.
ExtendedReport(reports, a) ==
  LET s == FoldLeft(Stage, Staged, reports)
      ok == Accepts(s)
  IN  /\ chains' = Committed(s)
      /\ air' = Renumbered(a, chains')
      /\ devices' = IF ok THEN FoldLeft(PublishReport, devices, s.out) ELSE devices
      /\ reportGen' = IF ok /\ s.out # <<>> THEN reportGen + 1 ELSE reportGen
      /\ holed' = Holes(IF ok THEN {} ELSE {reports[i].who : i \in DOMAIN reports}, chains', a)
      /\ UNCHANGED scan

\* advertising_report: a legacy report is a whole advertisement.
LegacyReport(who) ==
  LET r == ReportOf(air, who, "complete", TRUE)
  IN  /\ scan = "legacy" /\ Fresh(air, who)
      /\ IF reportGen = MaxReportGen
           THEN UNCHANGED <<reportGen, devices>>
           ELSE /\ reportGen' = reportGen + 1
                /\ devices' = PublishReport(devices, [who |-> who, named |-> r.named, data |-> <<r.chunk>>])
      /\ air' = Renumbered(After(air, who, "complete"), chains)
      /\ UNCHANGED <<scan, chains, holed>>

StartDiscovery(family) ==
  /\ scan = "none" /\ scan' = family
  /\ UNCHANGED <<reportGen, chains, devices, air, holed>>

\* The end of a scan (by stop_scan, or by a clock callback that is caught changing
\* the record), after which the chip says nothing of the advertisements it was in
\* the middle of; the runtime keeps its chains.
StopDiscovery ==
  /\ scan # "none" /\ scan' = "none"
  /\ air' = Renumbered([who \in Advertisers |-> [air[who] EXCEPT !.sent = 0]], chains)
  /\ holed' = Holes(Advertisers, chains, air')
  /\ UNCHANGED <<reportGen, chains, devices>>

\* init after destroy: every table is empty.
RestartDiscovery ==
  /\ scan' = "none" /\ reportGen' = 1
  /\ chains' = [i \in 1..MaxChains |-> NoChain]
  /\ devices' = [i \in 1..MaxDiscovered |-> NoDevice]
  /\ air' = [who \in Advertisers |-> [advert |-> 0, sent |-> 0]]
  /\ holed' = [who \in Advertisers |-> FALSE]

\* The chip sends an event: the first report, and any second one on top of it.
ChipReports ==
  \E who \in Advertisers, parses \in BOOLEAN :
    \E status \in Statuses(air, who) :
      LET first == ReportOf(air, who, status, parses)
          then == After(air, who, status)
      IN  \/ ExtendedReport(<<first>>, then)
          \/ /\ MaxReports > 1
             /\ \E other \in Advertisers :
                  \E next \in Statuses(then, other) :
                    ExtendedReport(<<first, ReportOf(then, other, next, parses)>>,
                                   After(then, other, next))

DiscoveryNext ==
  \/ \E family \in {"legacy", "extended"} : StartDiscovery(family)
  \/ StopDiscovery \/ RestartDiscovery
  \/ scan = "extended" /\ ChipReports
  \/ \E who \in Advertisers : LegacyReport(who)

DiscoverySpec == DiscoveryInit /\ [][DiscoveryNext]_discoveryVars

-----------------------------------------------------------------------------
(* Properties.                                                              *)

\* A device record tells the truth about one device: no device has two of them,
\* its name is its own, and its data are one whole advertisement, unless the
\* runtime refused a part of it, or a scan ended in the middle of it.
RecordsAreTrue ==
  [][/\ \A i \in DOMAIN devices' :
          /\ devices'[i] # NoDevice => devices'[i].name \in {devices'[i].who, Nobody}
          /\ devices'[i] # devices[i] /\ devices'[i] # NoDevice =>
               devices'[i].whole \/ holed[devices'[i].who]
     /\ \A i, j \in DOMAIN devices' :
          i # j /\ devices'[i].who = devices'[j].who => devices'[i] = NoDevice
    ]_discoveryVars

=============================================================================
