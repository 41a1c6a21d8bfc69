------------------------- MODULE MCWifiAssociation -------------------------
(* Networks for WifiAssociation.                                           *)
EXTENDS WifiAssociation

Ap(bssid, security, protected, signal) ==
    [bssid |-> bssid, ssid |-> "home", security |-> security,
     pmfCapable |-> security # "wpa2", pmfRequired |-> protected,
     h2e |-> protected, signal |-> signal]

(* Three access points of one SSID, each stronger than the one before: a  *)
(* roam from the one in transition mode to the one of SAE is admitted, one *)
(* from either of them to the strongest, which only has WPA2 and no        *)
(* management frame protection, is not.                                    *)
MCNetworks ==
    {Ap(1, "transition", FALSE, 1), Ap(2, "sae", TRUE, 2), Ap(3, "wpa2", FALSE, 3)}

==============================================================================
