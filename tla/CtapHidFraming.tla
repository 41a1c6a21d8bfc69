---------------------------- MODULE CtapHidFraming ----------------------------
(***************************************************************************)
(* The loop of rin_ctaphid_fragment on one side of the wire, and           *)
(* rin_ctaphid_feed on the other.  emit hands a report to the transport,   *)
(* which may refuse it; reports arrive in the order they were accepted.    *)
(* One message after another is sent, of any size the loop accepts.        *)
(***************************************************************************)
EXTENDS CtapHid

CONSTANTS
    Units,          \* values of a byte
    Payloads,       \* payloads the caller may pass
    Channel,        \* the channel of the sender
    WireMax         \* bound: reports accepted and not yet fed

ASSUME PayloadAssumption ==
    /\ Payloads \subseteq Seq(Units)
    /\ Channel \in Nat \ {NoChannel}
    /\ WireMax \in Nat \ {0}

VARIABLES
    payload,        \* argument of the call of fragment
    offset,         \* its local variables
    sequence,
    phase,          \* where the call is: "idle", "first", "loop", "done"
    returned,       \* result of the last call
    wire,           \* reports accepted, not yet fed
    assembler,
    received        \* what the last feed returned

framingVars == << payload, offset, sequence, phase, returned, wire, assembler,
           received >>

Nothing == Fed(EmptyAssembler, "OK", FALSE, NoMessage)

FramingInit ==
    /\ payload = << >> /\ offset = 0 /\ sequence = 0
    /\ phase = "idle" /\ returned = "OK"
    /\ wire = << >>
    /\ assembler = EmptyAssembler
    /\ received = Nothing

------------------------------------------------------------------------------
(* fragment(): the checks, then the first report, then one report a turn.  *)

(* The caller starts a message once the previous one has arrived.          *)
Call(p) ==
    /\ phase \in {"idle", "done"} /\ returned = "OK" /\ wire = << >>
    /\ Len(p) <= MessageMax
    /\ payload' = p
    /\ offset' = 0 /\ sequence' = 0
    /\ phase' = "first"
    /\ received' = Nothing
    /\ UNCHANGED << returned, wire, assembler >>

(* A refused report ends the call with the transport's result; the first   *)
(* one leaves nothing behind.                                              *)
Refused(where) ==
    /\ phase' = where /\ returned' = "REFUSED"
    /\ UNCHANGED << payload, offset, sequence, wire, assembler, received >>

EmitFirst ==
    LET chunk == Smaller(Len(payload), InitDataSize) IN
    /\ Len(wire) < WireMax
    /\ wire' = Append(wire, InitReport(Channel, "CBOR", Len(payload),
                                       SubSeq(payload, 1, chunk)))
    /\ offset' = chunk
    /\ phase' = "loop"
    /\ UNCHANGED << payload, sequence, returned, assembler, received >>

First == phase = "first" /\ (EmitFirst \/ Refused("idle"))

EmitNext ==
    LET chunk == Smaller(Len(payload) - offset, ContDataSize) IN
    /\ Len(wire) < WireMax
    /\ wire' = Append(wire, ContReport(Channel, sequence,
                                SubSeq(payload, offset + 1, offset + chunk)))
    /\ sequence' = sequence + 1
    /\ offset' = offset + chunk
    /\ UNCHANGED << payload, phase, returned, assembler, received >>

(* The guard of the loop that the 7609-byte limit is there to keep off.    *)
TooMany ==
    /\ phase' = "done" /\ returned' = "LIMIT_EXCEEDED"
    /\ UNCHANGED << payload, offset, sequence, wire, assembler, received >>

Loop ==
    /\ phase = "loop" /\ offset < Len(payload)
    /\ IF sequence > LastSequence THEN TooMany ELSE EmitNext \/ Refused("done")

Return ==
    /\ phase = "loop" /\ offset >= Len(payload)
    /\ phase' = "done" /\ returned' = "OK"
    /\ UNCHANGED << payload, offset, sequence, wire, assembler, received >>

------------------------------------------------------------------------------
(* The receiver.                                                           *)

Arrive ==
    /\ wire # << >>
    /\ received' = Feed(assembler, Head(wire))
    /\ assembler' = received'.assembler
    /\ wire' = Tail(wire)
    /\ UNCHANGED << payload, offset, sequence, phase, returned >>

FramingNext == (\E p \in Payloads : Call(p)) \/ First \/ Loop \/ Return \/ Arrive

FramingSpec == FramingInit /\ [][FramingNext]_framingVars

------------------------------------------------------------------------------
(* Properties                                                              *)

(* Reports emitted by the current call so far.                             *)
Emitted == IF phase \in {"loop", "done"} THEN sequence + 1 ELSE 0

(* Every report feed() is given is accepted; a message it completes is the *)
(* one fragment() was called with, whatever its size; and once a call that *)
(* returned OK has all its reports fed, its message has been completed.    *)
(* The reports are those that Fragment, which the client's model is built  *)
(* on, lists, and the limit of 57 + 128 * 59 bytes (ctaphid.h:14) is       *)
(* exactly what 128 continuation reports carry.                            *)
RoundTrip ==
    /\ received.result = "OK"
    /\ received.complete =>
           received.message = [channel |-> Channel, command |-> "CBOR",
                               data |-> payload]
    /\ phase = "done" /\ returned = "OK" /\ wire = << >> =>
           received.complete /\ ~assembler.active
    /\ Len(wire) <= Emitted /\ Emitted <= Len(Fragment(Channel, "CBOR", payload))
    /\ \A j \in 1 .. Len(wire) :
           wire[j] = Fragment(Channel, "CBOR", payload)[Emitted - Len(wire) + j]
    /\ returned # "LIMIT_EXCEEDED"

==============================================================================
