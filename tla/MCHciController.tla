--------------------------- MODULE MCHciController ---------------------------
(***************************************************************************)
(* Small instances of HciController.  Two addresses, of which one is also  *)
(* in the resolving list, cover a plain peer, a resolved identity and an   *)
(* identity that nobody configured.                                        *)
(***************************************************************************)
EXTENDS HciController

CONSTANTS a, b

MCAddresses == {a, b}
ResolvedPeer == [type |-> 2, addr |-> b]
RandomPeer == [type |-> 1, addr |-> b]

\* The start-up chain is walked with zero, one and two peers in the list; a
\* list that names one identity twice is refused.
OneIdentity == <<[type |-> 0, addr |-> b]>>
TwoIdentities == <<[type |-> 0, addr |-> b], [type |-> 1, addr |-> a]>>
MCConfigs == {OneIdentity, TwoIdentities, OneIdentity \o OneIdentity}
MCPeers == {RandomPeer, ResolvedPeer}
=============================================================================
