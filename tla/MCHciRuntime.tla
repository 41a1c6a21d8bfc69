---------------------------- MODULE MCHciRuntime ----------------------------
(***************************************************************************)
(* The Bluetooth HCI runtime twice: its commands and links with the        *)
(* controller, and its discovery tables with the advertisers.  The two     *)
(* share no state; side says which one a behaviour is of, and the other    *)
(* stays in its initial state.                                             *)
(***************************************************************************)
EXTENDS MCHciLink, HciDiscovery

VARIABLE side

runtimeVars == <<side, allVars, discoveryVars>>

RuntimeInit ==
  /\ side \in {"links", "discovery"}
  /\ LinkInit
  /\ DiscoveryInit

RuntimeNext ==
  \/ side = "links" /\ LinkNext /\ UNCHANGED <<side, discoveryVars>>
  \/ side = "discovery" /\ DiscoveryNext /\ UNCHANGED <<side, allVars>>

\* Where the links stay in their initial state nothing is under way, so that
\* their fairness asks nothing of the discovery.
RuntimeSpec == RuntimeInit /\ [][RuntimeNext]_runtimeVars /\ Fairness
=============================================================================
