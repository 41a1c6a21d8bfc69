---------------------------- MODULE CtapHidStates ----------------------------
(***************************************************************************)
(* The states of a CTAPHID client (ctaphid.h:39-43) and where each of its  *)
(* functions can take it.  FidoBroker uses this view of the client, and    *)
(* CtapHidTransaction checks that the detailed client keeps to it.         *)
(***************************************************************************)

BusyStates == {"ALLOCATING", "WAITING", "CANCELING"}

ClientStates == BusyStates \cup {"DISCONNECTED", "IDLE"}

(* begin_init, begin_cbor and cancel when every report was submitted; the  *)
(* empty set where they refuse the call.                                   *)
BeginInitTo(c) == IF c = "ALLOCATING" THEN {} ELSE {"ALLOCATING"}

BeginCborTo(c) == IF c = "IDLE" THEN {"WAITING"} ELSE {}

CancelTo(c) == IF c = "WAITING" THEN {"CANCELING"} ELSE {}

(* A report or a poll leaves a client that waits for nothing alone.        *)
FeedTo(c) == IF c \in BusyStates THEN {c, "IDLE", "DISCONNECTED"} ELSE {c}

PollTo(c) == IF c \in BusyStates THEN {c, "DISCONNECTED"} ELSE {c}

==============================================================================
