----------------------------- MODULE FidoRegistry -----------------------------
(***************************************************************************)
(* What the FIDO broker promises about the devices it holds                *)
(* (src/include/rin/driver/usb/fido/broker_v1.h): every attached device    *)
(* has an id of its own, given out once, and goes through its life alone:  *)
(* it is started, it is open until its own detach, and it leaves the       *)
(* registry when its transfers are cancelled or stays, quarantined, when   *)
(* they could not be.  Nothing another caller does to another device, and  *)
(* no reuse of storage, is visible here.                                   *)
(***************************************************************************)
EXTENDS Naturals, FiniteSets

CONSTANT DeviceMax      \* RIN_USB_FIDO_DEVICE_MAX

VARIABLES
    registry,           \* id -> status, for the ids registered
    lastId              \* the id given out last

vars == << registry, lastId >>

Statuses == {"starting", "open", "closing", "quarantined"}

Init == registry = [id \in {} |-> "open"] /\ lastId = 0

Remove(id) == registry' = [i \in DOMAIN registry \ {id} |-> registry[i]]

Move(id, from, to) ==
    /\ registry[id] \in from
    /\ registry' = [registry EXCEPT ![id] = to]
    /\ UNCHANGED lastId

Reserve ==
    /\ Cardinality(DOMAIN registry) < DeviceMax
    /\ lastId' = lastId + 1
    /\ registry' = [i \in DOMAIN registry \cup {lastId'} |->
                        IF i = lastId' THEN "starting" ELSE registry[i]]

Open(id) == Move(id, {"starting"}, "open")

Abandon(id) == registry[id] = "starting" /\ Remove(id) /\ UNCHANGED lastId

Close(id) == Move(id, {"open", "quarantined"}, "closing")

Quarantine(id) == Move(id, {"closing"}, "quarantined")

Gone(id) == registry[id] = "closing" /\ Remove(id) /\ UNCHANGED lastId

Next ==
    \/ Reserve
    \/ \E id \in DOMAIN registry :
           Open(id) \/ Abandon(id) \/ Close(id) \/ Quarantine(id) \/ Gone(id)

Spec == Init /\ [][Next]_vars

==============================================================================
