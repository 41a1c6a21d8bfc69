----------------------------- MODULE MCWireless ----------------------------
(***************************************************************************)
(* The Bluetooth HCI controller and the WPA2 supplicant with its access    *)
(* point.  They share no state: side says which one a behaviour is of, and *)
(* the other stays in its initial state.  The handshake stops at its       *)
(* bounds, the controller never does, so that deadlock can be checked.     *)
(***************************************************************************)
EXTENDS MCHciController, Wpa2Handshake

VARIABLE side

wirelessVars == <<side, vars, handshakeVars>>

WirelessInit ==
  /\ side \in {"bluetooth", "wifi"}
  /\ Init
  /\ HandshakeInit

WirelessNext ==
  \/ side = "bluetooth" /\ Next /\ UNCHANGED <<side, handshakeVars>>
  \/ side = "wifi" /\ HandshakeNext /\ UNCHANGED <<side, vars>>
  \/ side = "wifi" /\ UNCHANGED wirelessVars

WirelessSpec == WirelessInit /\ [][WirelessNext]_wirelessVars
=============================================================================
