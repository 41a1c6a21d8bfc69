------------------------------ MODULE FidoBroker ------------------------------
(***************************************************************************)
(* The broker of USB FIDO devices                                          *)
(* (src/src/rin/driver/usb/fido/broker_v1.c, 169-466): threads that attach *)
(* and detach devices, the operations on the CTAPHID client of a device,   *)
(* and the transport the broker drives.                                    *)
(*                                                                         *)
(* Everything between broker_lock and broker_unlock is one step, since     *)
(* the transport may not re-enter the broker (broker_v1.h:30).  attach and *)
(* detach give the lock up around their transport call and are three steps *)
(* each; detach reads the device for that call without the lock.           *)
(*                                                                         *)
(* The client of a device is modelled by its state; CtapHidTransaction     *)
(* checks that the client's functions move it as the ...To operators say.  *)
(***************************************************************************)
EXTENDS Naturals, FiniteSets, CtapHidStates

CONSTANTS
    DeviceMax,          \* RIN_USB_FIDO_DEVICE_MAX
    Threads,            \* callers of attach and detach
    Ports,              \* transport cookies
    MaxGeneration,      \* port generations are 1 .. MaxGeneration
    MaxId,              \* bound: device ids given out
    SerialDetach        \* whether callers detach a device once at a time

ASSUME BrokerAssumption ==
    /\ DeviceMax \in Nat \ {0}
    /\ MaxGeneration \in Nat \ {0}
    /\ MaxId \in Nat
    /\ SerialDetach \in BOOLEAN
    /\ 0 \notin Ports

VARIABLES
    devices,            \* broker->devices
    next_device_id,
    threads,            \* where each caller is, and its local variables
    generation,         \* current generation of each port
    inputs,             \* input transfers the transport keeps: port, generation
    outputs,            \* reports submitted, not yet written: port, generation
    attached            \* ids attach returned and detach was not yet called for

vars == << devices, next_device_id, threads, generation, inputs, outputs,
           attached >>

Slots == 1 .. DeviceMax

NoPort == 0

(* fido_zero of a device.  A zeroed client is DISCONNECTED.                *)
EmptyDevice ==
    [active |-> FALSE, device_id |-> 0, port |-> NoPort, generation |-> 0,
     transport_started |-> FALSE, quarantined |-> FALSE,
     client |-> "DISCONNECTED"]

IdleThread == [pc |-> "idle", slot |-> 1, id |-> 0, port |-> NoPort,
               generation |-> 0]

Transfer(port, gen) == [port |-> port, generation |-> gen]

Init ==
    /\ devices = [s \in Slots |-> EmptyDevice]
    /\ next_device_id = 0
    /\ threads = [t \in Threads |-> IdleThread]
    /\ generation = [p \in Ports |-> 1]
    /\ inputs = {} /\ outputs = {}
    /\ attached = {}

Goto(t, pc) == threads' = [threads EXCEPT ![t].pc = pc]

Finished(t) == threads' = [threads EXCEPT ![t] = IdleThread]

------------------------------------------------------------------------------
(* rin_usb_fido_attach                                                     *)

(* The driver attaches a port at its current generation, once.             *)
InUse(p) ==
    \E s \in Slots : /\ devices[s].active /\ devices[s].port = p
                     /\ devices[s].generation = generation[p]

(* Mutant of FirstFree: looks for a slot that is not started.              *)
FirstFreeNotStarted(s) ==
    /\ ~devices[s].transport_started
    /\ \A lower \in 1 .. s - 1 : devices[lower].transport_started

FirstFree(s) ==
    /\ ~devices[s].active
    /\ \A lower \in 1 .. s - 1 : devices[lower].active

AttachReserve(t, p, s) ==
    /\ threads[t].pc = "idle"
    /\ ~InUse(p)
    /\ next_device_id < MaxId
    /\ FirstFree(s)
    /\ next_device_id' = next_device_id + 1
    /\ devices' = [devices EXCEPT ![s] =
                      [EmptyDevice EXCEPT !.active = TRUE,
                           !.device_id = next_device_id', !.port = p,
                           !.generation = generation[p]]]
    /\ threads' = [threads EXCEPT ![t] =
                      [pc |-> "starting", slot |-> s, id |-> next_device_id',
                       port |-> p, generation |-> generation[p]]]
    /\ UNCHANGED << generation, inputs, outputs, attached >>

(* start_input, without the lock.                                          *)
AttachStart(t) ==
    /\ threads[t].pc = "starting"
    /\ \/ /\ inputs' = inputs \cup {Transfer(threads[t].port,
                                             threads[t].generation)}
          /\ Goto(t, "started")
       \/ /\ UNCHANGED inputs
          /\ Goto(t, "start_failed")
    /\ UNCHANGED << devices, next_device_id, generation, outputs, attached >>

(* Mutant of AttachFinish: a failed start leaves the slot reserved.        *)
AttachFinishLeaks(t) ==
    LET s == threads[t].slot IN
    /\ \/ /\ threads[t].pc = "started"
          /\ devices' = [devices EXCEPT ![s].transport_started = TRUE]
          /\ attached' = attached \cup {devices[s].device_id}
       \/ /\ threads[t].pc = "start_failed"
          /\ UNCHANGED << devices, attached >>
    /\ Finished(t)
    /\ UNCHANGED << next_device_id, generation, inputs, outputs >>

(* The id is read back from the slot.                                      *)
AttachFinish(t) ==
    LET s == threads[t].slot IN
    /\ \/ /\ threads[t].pc = "started"
          /\ devices' = [devices EXCEPT ![s].transport_started = TRUE]
          /\ attached' = attached \cup {devices[s].device_id}
       \/ /\ threads[t].pc = "start_failed"
          /\ devices' = [devices EXCEPT ![s] = EmptyDevice]
          /\ UNCHANGED attached
    /\ Finished(t)
    /\ UNCHANGED << next_device_id, generation, inputs, outputs >>

------------------------------------------------------------------------------
(* rin_usb_fido_detach                                                     *)

Detaching(t, id) ==
    threads[t].pc \in {"cancelling", "cancelled", "cancel_failed"}
        /\ threads[t].id = id

(* Callers detach an id that attach gave them, with the generation they    *)
(* attached it at; find_device and the generation check accept it.         *)
DetachBegin(t, s) ==
    LET d == devices[s] IN
    /\ threads[t].pc = "idle"
    /\ d.active
    /\ d.transport_started \/ \E u \in Threads : Detaching(u, d.device_id)
    /\ SerialDetach => ~\E u \in Threads : Detaching(u, d.device_id)
    /\ devices' = [devices EXCEPT ![s].transport_started = FALSE]
    /\ threads' = [threads EXCEPT ![t] =
                      [pc |-> "cancelling", slot |-> s, id |-> d.device_id,
                       port |-> d.port, generation |-> d.generation]]
    /\ attached' = attached \ {d.device_id}
    /\ UNCHANGED << next_device_id, generation, inputs, outputs >>

(* The cookie and the generation are read without the lock.  While another *)
(* thread rewrites the slot each may be the old value, the new one, or, of *)
(* the cookie, a mixture of both that names no port.                       *)
CookieRead(t) ==
    LET d == devices[threads[t].slot] IN
    IF d.device_id = threads[t].id THEN {d.port}
    ELSE {threads[t].port, d.port, NoPort}

GenerationRead(t) ==
    LET d == devices[threads[t].slot] IN
    IF d.device_id = threads[t].id THEN {d.generation}
    ELSE {threads[t].generation, d.generation}

(* cancel_transfers: OK means that none of the port generation is left.    *)
DetachCancel(t) ==
    /\ threads[t].pc = "cancelling"
    /\ \/ /\ \E p \in CookieRead(t), g \in GenerationRead(t) :
                /\ inputs' = inputs \ {Transfer(p, g)}
                /\ outputs' = outputs \ {Transfer(p, g)}
          /\ Goto(t, "cancelled")
       \/ /\ UNCHANGED << inputs, outputs >>
          /\ Goto(t, "cancel_failed")
    /\ UNCHANGED << devices, next_device_id, generation, attached >>

(* Mutant of DetachFinish: the slot is given up whatever cancel returned.  *)
DetachFinishAlways(t) ==
    /\ threads[t].pc \in {"cancelled", "cancel_failed"}
    /\ devices' = [devices EXCEPT ![threads[t].slot] = EmptyDevice]
    /\ Finished(t)
    /\ UNCHANGED << next_device_id, generation, inputs, outputs, attached >>

DetachFinish(t) ==
    LET s == threads[t].slot
        d == devices[s] IN
    /\ \/ /\ threads[t].pc = "cancelled"
          /\ devices' = [devices EXCEPT ![s] = EmptyDevice]
       \/ /\ threads[t].pc = "cancel_failed"
          /\ devices' =
               IF /\ d.active /\ d.device_id = threads[t].id
                  /\ d.generation = threads[t].generation
               THEN [devices EXCEPT ![s].transport_started = TRUE,
                                    ![s].quarantined = TRUE]
               ELSE devices
    /\ Finished(t)
    /\ UNCHANGED << next_device_id, generation, inputs, outputs, attached >>

------------------------------------------------------------------------------
(* The operations on a device's client                                     *)

(* Mutant of ValidDevice: transport_started is not looked at.              *)
ValidDeviceWhileClosing(s) == devices[s].active /\ ~devices[s].quarantined

(* validate_device, for the id and the generation of slot s.               *)
ValidDevice(s) ==
    /\ devices[s].active
    /\ devices[s].transport_started /\ ~devices[s].quarantined

SetClient(s, to) == devices' = [devices EXCEPT ![s].client = to]

(* begin_init, begin_cbor and cancel submit reports under the lock.  The   *)
(* transport may refuse any of them, which disconnects the client and      *)
(* leaves the reports already taken.                                       *)
Submit(s, to) ==
    /\ ValidDevice(s)
    /\ to # {}
    /\ \/ /\ \E c \in to : SetClient(s, c)
          /\ outputs' = outputs \cup {Transfer(devices[s].port,
                                               devices[s].generation)}
       \/ /\ SetClient(s, "DISCONNECTED")
          /\ outputs' \in {outputs, outputs \cup {Transfer(devices[s].port,
                                                     devices[s].generation)}}
    /\ UNCHANGED << next_device_id, threads, generation, inputs, attached >>

BeginInit(s) == Submit(s, BeginInitTo(devices[s].client))
BeginCbor(s) == Submit(s, BeginCborTo(devices[s].client))
Cancel(s) == Submit(s, CancelTo(devices[s].client))

(* An input transfer completes and its report is fed to the client.        *)
FeedReport(s) ==
    /\ ValidDevice(s)
    /\ Transfer(devices[s].port, devices[s].generation) \in inputs
    /\ \E c \in FeedTo(devices[s].client) : SetClient(s, c)
    /\ UNCHANGED << next_device_id, threads, generation, inputs, outputs,
                    attached >>

PollDevice(s) ==
    /\ ValidDevice(s)
    /\ \E c \in PollTo(devices[s].client) : SetClient(s, c)
    /\ UNCHANGED << next_device_id, threads, generation, inputs, outputs,
                    attached >>

------------------------------------------------------------------------------
(* The transport (external)                                                *)

OutputDone ==
    /\ \E x \in outputs : outputs' = outputs \ {x}
    /\ UNCHANGED << devices, next_device_id, threads, generation, inputs,
                    attached >>

(* A device is unplugged and plugged in again.  The generation is 32 bits  *)
(* wide; one does not come back while a device or a thread still has it.   *)
Replug(p) ==
    /\ generation' = [generation EXCEPT ![p] = (@ % MaxGeneration) + 1]
    /\ \A s \in Slots : devices[s].port = p =>
                            devices[s].generation # generation'[p]
    /\ \A t \in Threads : threads[t].port = p =>
                              threads[t].generation # generation'[p]
    /\ UNCHANGED << devices, next_device_id, threads, inputs, outputs,
                    attached >>

------------------------------------------------------------------------------

Next ==
    \/ \E t \in Threads :
          \/ \E p \in Ports, s \in Slots : AttachReserve(t, p, s)
          \/ AttachStart(t) \/ AttachFinish(t)
          \/ \E s \in Slots : DetachBegin(t, s)
          \/ DetachCancel(t) \/ DetachFinish(t)
    \/ \E s \in Slots :
          BeginInit(s) \/ BeginCbor(s) \/ Cancel(s) \/ FeedReport(s)
              \/ PollDevice(s)
    \/ OutputDone
    \/ \E p \in Ports : Replug(p)

Spec == Init /\ [][Next]_vars

------------------------------------------------------------------------------
(* Properties                                                              *)

Devices ==
    [active : BOOLEAN, device_id : 0 .. MaxId, port : Ports \cup {NoPort},
     generation : 0 .. MaxGeneration, transport_started : BOOLEAN,
     quarantined : BOOLEAN,
     client : ClientStates]

PCs == {"idle", "starting", "started", "start_failed", "cancelling",
        "cancelled", "cancel_failed"}

Transfers == [port : Ports, generation : 1 .. MaxGeneration]

TypeOK ==
    /\ devices \in [Slots -> Devices]
    /\ next_device_id \in 0 .. MaxId
    /\ threads \in [Threads -> [pc : PCs, slot : Slots, id : 0 .. MaxId,
                                port : Ports \cup {NoPort},
                                generation : 0 .. MaxGeneration]]
    /\ generation \in [Ports -> 1 .. MaxGeneration]
    /\ inputs \subseteq Transfers /\ outputs \subseteq Transfers
    /\ attached \subseteq 0 .. MaxId

(* Every transfer the transport holds belongs to a device the broker still *)
(* holds: a slot is given up only when its port generation has no transfer *)
(* left, so that no completion finds the slot empty or taken by another    *)
(* device (attach and detach, broker_v1.c:249-334).                        *)
TransferHasOwner ==
    \A x \in inputs \cup outputs :
        \E s \in Slots : /\ devices[s].active
                         /\ devices[s].port = x.port
                         /\ devices[s].generation = x.generation

(* From the moment cancel_transfers has returned OK until detach gives the *)
(* slot up, nobody submits a report for the device: the operations see     *)
(* transport_started cleared, although detach does not hold the lock.      *)
CancelIsFinal ==
    \A t \in Threads :
        threads[t].pc = "cancelled" =>
            Transfer(threads[t].port, threads[t].generation)
                \notin inputs \cup outputs

(* A device that attach returned stays in the broker and usable until      *)
(* detach is called for it.                                                *)
RegisteredUntilDetached ==
    \A id \in attached :
        \E s \in Slots : devices[s].device_id = id /\ ValidDevice(s)

(* The broker implements the registry of FidoRegistry: slots, threads and  *)
(* the reuse of slots are hidden.                                          *)
StatusOf(s) ==
    CASE devices[s].transport_started /\ devices[s].quarantined -> "quarantined"
      [] devices[s].transport_started /\ ~devices[s].quarantined -> "open"
      [] OTHER -> IF \E t \in Threads :
                        /\ threads[t].pc \in {"starting", "started",
                                              "start_failed"}
                        /\ threads[t].slot = s
                  THEN "starting" ELSE "closing"

ActiveIds == {devices[s].device_id : s \in {x \in Slots : devices[x].active}}

SlotOf(id) == CHOOSE s \in Slots : devices[s].active /\ devices[s].device_id = id

Registry == INSTANCE FidoRegistry
    WITH registry <- [id \in ActiveIds |-> StatusOf(SlotOf(id))],
         lastId <- next_device_id

ImplementsRegistry == Registry!Spec

==============================================================================
