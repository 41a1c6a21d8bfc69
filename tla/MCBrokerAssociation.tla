------------------------------ MODULE MCBrokerAssociation ------------------------------
(***************************************************************************)
(* The FIDO broker with its callers, and the Wi-Fi association controller  *)
(* with its driver.  They share no state: side says which one a behaviour  *)
(* is of, and the other stays in its initial state.  The association stops *)
(* at its bounds, the broker never does, so that deadlock can be checked.  *)
(***************************************************************************)
EXTENDS MCFidoBroker, MCWifiAssociation

VARIABLE side

brokerAssociationVars == <<side, vars, associationVars>>

BrokerAssociationInit ==
  /\ side \in {"broker", "association"}
  /\ Init
  /\ AssociationInit

BrokerAssociationNext ==
  \/ side = "broker" /\ Next /\ UNCHANGED <<side, associationVars>>
  \/ side = "association" /\ AssociationNext /\ UNCHANGED <<side, vars>>
  \/ side = "association" /\ UNCHANGED brokerAssociationVars

BrokerAssociationSpec == BrokerAssociationInit /\ [][BrokerAssociationNext]_brokerAssociationVars
=============================================================================
