------------------------------- MODULE MCParts ------------------------------
(***************************************************************************)
(* The components that meet no other component of this project, each in a  *)
(* small instance of its own: part says which one a behaviour is of, and   *)
(* the others stay in their initial states, so that the state spaces add   *)
(* up and do not multiply.                                                 *)
(***************************************************************************)
EXTENDS WifiAssociation, CtapHidFraming, MediaSessions, CloseHooks, InputRing,
        Virtqueue, ForceFeedback, PidActuator, PidEffects, MappingDatabase,
        CppExceptions

VARIABLE part

UnitsToLimit == 1 .. MessageMax + 1

AllSizes == {[i \in 1 .. n |-> i] : n \in 0 .. MessageMax + 1}

Ap(bssid, security, pmfRequired) ==
  [bssid |-> bssid, ssid |-> "home", security |-> security,
   pmfCapable |-> TRUE, pmfRequired |-> pmfRequired,
   h2e |-> security = "transition", signal |-> bssid]

\* Two access points in transition mode, one of them also a candidate for a roam
\* to hash-to-element, and an open one of another SSID.
MCNetworksSae ==
  {Ap(1, "transition", FALSE), Ap(2, "transition", TRUE), Ap(3, "sae", TRUE),
   [Ap(4, "open", FALSE) EXCEPT !.ssid = "cafe", !.pmfCapable = FALSE, !.signal = 1]}

Parts == {"wifi", "framing", "media", "hooks", "ring", "virtqueue", "feedback",
          "actuator", "effects", "mapping", "exceptions"}

PartsInit ==
  /\ part \in Parts
  /\ AssociationInit
  /\ FramingInit
  /\ MediaInit
  /\ HooksInit
  /\ RingInit
  /\ VqInit
  /\ FFInit
  /\ PidInit
  /\ PoolInit
  /\ DbInit
  /\ ExceptionsInit
  /\ part # "virtqueue" => vqDevice.honest

PartsNext ==
  \/ /\ part = "wifi" /\ AssociationNext
     /\ UNCHANGED <<part, framingVars, mediaVars, hookVars, ringVars, vqVars, ffVars, pidVars, poolVars, dbVars, exceptionVars>>
  \/ /\ part = "framing" /\ FramingNext
     /\ UNCHANGED <<part, associationVars, mediaVars, hookVars, ringVars, vqVars, ffVars, pidVars, poolVars, dbVars, exceptionVars>>
  \/ /\ part = "media" /\ MediaNext
     /\ UNCHANGED <<part, associationVars, framingVars, hookVars, ringVars, vqVars, ffVars, pidVars, poolVars, dbVars, exceptionVars>>
  \/ /\ part = "hooks" /\ HooksNext
     /\ UNCHANGED <<part, associationVars, framingVars, mediaVars, ringVars, vqVars, ffVars, pidVars, poolVars, dbVars, exceptionVars>>
  \/ /\ part = "ring" /\ RingNext
     /\ UNCHANGED <<part, associationVars, framingVars, mediaVars, hookVars, vqVars, ffVars, pidVars, poolVars, dbVars, exceptionVars>>
  \/ /\ part = "virtqueue" /\ VqNext
     /\ UNCHANGED <<part, associationVars, framingVars, mediaVars, hookVars, ringVars, ffVars, pidVars, poolVars, dbVars, exceptionVars>>
  \/ /\ part = "feedback" /\ FFNext
     /\ UNCHANGED <<part, associationVars, framingVars, mediaVars, hookVars, ringVars, vqVars, pidVars, poolVars, dbVars, exceptionVars>>
  \/ /\ part = "actuator" /\ PidNext
     /\ UNCHANGED <<part, associationVars, framingVars, mediaVars, hookVars, ringVars, vqVars, ffVars, poolVars, dbVars, exceptionVars>>
  \/ /\ part = "effects" /\ PoolNext
     /\ UNCHANGED <<part, associationVars, framingVars, mediaVars, hookVars, ringVars, vqVars, ffVars, pidVars, dbVars, exceptionVars>>
  \/ /\ part = "mapping" /\ DbNext
     /\ UNCHANGED <<part, associationVars, framingVars, mediaVars, hookVars, ringVars, vqVars, ffVars, pidVars, poolVars, exceptionVars>>
  \/ /\ part = "exceptions" /\ ExceptionsNext
     /\ UNCHANGED <<part, associationVars, framingVars, mediaVars, hookVars, ringVars, vqVars, ffVars, pidVars, poolVars, dbVars>>

partsVars == <<part, associationVars, framingVars, mediaVars, hookVars, ringVars, vqVars, ffVars, pidVars, poolVars, dbVars, exceptionVars>>

PartsSpec ==
  /\ PartsInit /\ [][PartsNext]_partsVars
  /\ HooksFairness
  /\ WF_associationVars(part = "wifi" /\ Tick) /\ WF_associationVars(part = "wifi" /\ PollTimeout)
=============================================================================
