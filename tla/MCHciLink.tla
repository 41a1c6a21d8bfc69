------------------------------ MODULE MCHciLink ------------------------------
(***************************************************************************)
(* Small instances of HciLink: two peers, so that an attempt may follow    *)
(* another, and few enough generations that the limit is met.              *)
(***************************************************************************)
EXTENDS HciLink

CONSTANTS a, b

MCAddresses == {a, b}
MCPeers == [type : {0}, addr : MCAddresses]
NoConfigs == {}
=============================================================================
