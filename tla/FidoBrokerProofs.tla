--------------------------- MODULE FidoBrokerProofs ---------------------------
(***************************************************************************)
(* Proofs about FidoBroker, for every number of slots, set of callers and  *)
(* set of ports, where callers detach a device once at a time              *)
(* (SerialDetach; without it the properties are false, as the run          *)
(* fido_broker_race shows).                                                *)
(***************************************************************************)
EXTENDS FidoBroker, FiniteSetTheorems, FunctionTheorems, TLAPS

-----------------------------------------------------------------------------
(* The inductive invariant *)

Busy(t) == threads[t].pc # "idle"

Attaching(t) == threads[t].pc \in {"starting", "started", "start_failed"}

(* A slot is zeroed or holds a device with an id given out before.         *)
SlotInv ==
  \A s \in Slots :
     /\ ~devices[s].active => devices[s] = EmptyDevice
     /\ devices[s].active => /\ devices[s].device_id \in 1 .. next_device_id
                             /\ devices[s].port \in Ports
                             /\ devices[s].generation \in 1 .. MaxGeneration

(* Two devices share neither their id nor their generation of a port.      *)
DistinctInv ==
  \A s, u \in Slots :
     devices[s].active /\ devices[u].active /\ s # u =>
       /\ devices[s].device_id # devices[u].device_id
       /\ \/ devices[s].port # devices[u].port
          \/ devices[s].generation # devices[u].generation

(* A thread in attach or detach has its slot to itself, and the slot holds *)
(* what the thread remembers, with transport_started cleared.              *)
OwnsSlot(t) ==
  LET d == devices[threads[t].slot] IN
  /\ d.active /\ ~d.transport_started
  /\ d.device_id = threads[t].id
  /\ d.port = threads[t].port
  /\ d.generation = threads[t].generation
  /\ Attaching(t) => ~d.quarantined

ThreadInv ==
  /\ \A t \in Threads : Busy(t) => OwnsSlot(t)
  /\ \A t, u \in Threads :
        Busy(t) /\ Busy(u) /\ t # u => threads[t].slot # threads[u].slot

(* Before start_input has succeeded, and after cancel_transfers has, the   *)
(* transport holds nothing for the thread's device.                        *)
Quiet(t) ==
  Transfer(threads[t].port, threads[t].generation) \notin inputs \cup outputs

QuietInv ==
  \A t \in Threads :
     threads[t].pc \in {"starting", "start_failed", "cancelled"} => Quiet(t)

IInv ==
  /\ TypeOK
  /\ SlotInv /\ DistinctInv /\ ThreadInv
  /\ QuietInv /\ TransferHasOwner /\ RegisteredUntilDetached

-----------------------------------------------------------------------------
(* The initial state and the steps of a caller of attach *)

\* A zeroed device.
LEMMA EmptyDeviceType ==
  /\ EmptyDevice \in Devices
  /\ ~EmptyDevice.active /\ ~EmptyDevice.transport_started
  /\ ~EmptyDevice.quarantined
  BY BrokerAssumption DEF EmptyDevice, Devices, ClientStates, NoPort

\* Nothing is registered, nobody is at work and nothing is transferred.
LEMMA InitIInv == Init => IInv
<1> SUFFICES ASSUME Init PROVE IInv
  OBVIOUS
<1> USE BrokerAssumption DEF Init
<1>1. TypeOK
  BY DEF TypeOK, EmptyDevice, Devices, IdleThread, PCs, Slots, NoPort,
         ClientStates, BusyStates
<1>2. SlotInv /\ DistinctInv
  BY DEF SlotInv, DistinctInv, EmptyDevice
<1>3. ThreadInv /\ QuietInv
  BY DEF ThreadInv, Busy, QuietInv, IdleThread
<1>4. TransferHasOwner /\ RegisteredUntilDetached
  BY DEF TransferHasOwner, RegisteredUntilDetached
<1> QED BY <1>1, <1>2, <1>3, <1>4 DEF IInv

\* attach takes a free slot for a port generation that no device has.
LEMMA AttachReserveKeeps ==
  ASSUME IInv, NEW t \in Threads, NEW p \in Ports, NEW s \in Slots,
         AttachReserve(t, p, s)
  PROVE  IInv'
<1> DEFINE id == next_device_id + 1
           new == [EmptyDevice EXCEPT !.active = TRUE, !.device_id = id,
                       !.port = p, !.generation = generation[p]]
           me == [pc |-> "starting", slot |-> s, id |-> id,
                  port |-> p, generation |-> generation[p]]
<1> USE DEF IInv
<1>1. /\ next_device_id \in Nat /\ id \in 1 .. MaxId /\ MaxId \in Nat
      /\ next_device_id' = id
      /\ generation[p] \in 1 .. MaxGeneration
      /\ p # NoPort
  BY BrokerAssumption DEF AttachReserve, TypeOK, NoPort
<1>2. /\ new \in Devices
      /\ new.active /\ new.device_id = id /\ new.port = p
      /\ new.generation = generation[p]
      /\ ~new.transport_started /\ ~new.quarantined
  <2>1. id \in 0 .. MaxId /\ generation[p] \in 0 .. MaxGeneration
    BY <1>1, BrokerAssumption
  <2> QED BY <2>1, <1>1, EmptyDeviceType DEF Devices
<1>3. /\ devices' = [devices EXCEPT ![s] = new]
      /\ threads' = [threads EXCEPT ![t] = me]
      /\ threads[t].pc = "idle" /\ ~devices[s].active
      /\ UNCHANGED << generation, inputs, outputs, attached >>
      /\ ~InUse(p)
  BY <1>1 DEF AttachReserve, FirstFree
<1> HIDE DEF new
<1>4. TypeOK'
  <2>1. me \in [pc : PCs, slot : Slots, id : 0 .. MaxId,
                port : Ports \cup {NoPort}, generation : 0 .. MaxGeneration]
    BY <1>1, BrokerAssumption DEF PCs
  <2> QED BY <1>1, <1>2, <1>3, <2>1 DEF TypeOK
<1>5. \A u \in Slots \ {s} : devices'[u] = devices[u]
  BY <1>3 DEF TypeOK
<1>6. devices'[s] = new
  BY <1>3 DEF TypeOK
<1>7. SlotInv'
  BY <1>1, <1>2, <1>5, <1>6 DEF SlotInv
<1>8. DistinctInv'
  <2>1. \A u \in Slots \ {s} :
           devices[u].active =>
             /\ devices[u].device_id # id
             /\ \/ devices[u].port # p
                \/ devices[u].generation # generation[p]
    BY <1>1, <1>3 DEF SlotInv, InUse
  <2> QED BY <2>1, <1>2, <1>5, <1>6 DEF DistinctInv
<1>9. \A u \in Threads \ {t} : threads'[u] = threads[u]
  BY <1>3 DEF TypeOK
<1>10. threads'[t] = me
  BY <1>3 DEF TypeOK
<1>11. \A u \in Threads : Busy(u) => threads[u].slot \in Slots \ {s}
  BY <1>3 DEF ThreadInv, OwnsSlot, TypeOK
<1>12. ThreadInv'
  <2>1. OwnsSlot(t)'
    BY <1>2, <1>6, <1>10 DEF OwnsSlot, Attaching
  <2>2. ASSUME NEW u \in Threads \ {t}, Busy(u)'
        PROVE  OwnsSlot(u)'
    BY <2>2, <1>5, <1>9, <1>11 DEF ThreadInv, OwnsSlot, Attaching, Busy
  <2>3. ASSUME NEW u \in Threads, NEW v \in Threads, Busy(u)', Busy(v)', u # v
        PROVE  threads'[u].slot # threads'[v].slot
    <3>1. CASE u # t /\ v # t
      BY <2>3, <3>1, <1>9 DEF ThreadInv, Busy
    <3>2. CASE u = t \/ v = t
      BY <2>3, <3>2, <1>9, <1>10, <1>11 DEF Busy
    <3> QED BY <3>1, <3>2
  <2> QED BY <2>1, <2>2, <2>3 DEF ThreadInv
<1>13. QuietInv'
  <2>1. Transfer(p, generation[p]) \notin inputs \cup outputs
    BY <1>3 DEF TransferHasOwner, InUse, Transfer
  <2> QED BY <2>1, <1>3, <1>9, <1>10 DEF QuietInv, Quiet
<1>14. TransferHasOwner'
  BY <1>3, <1>5 DEF TransferHasOwner
<1>15. RegisteredUntilDetached'
  BY <1>3, <1>5 DEF RegisteredUntilDetached, ValidDevice
<1> QED BY <1>4, <1>7, <1>8, <1>12, <1>13, <1>14, <1>15

\* What a thread's slot holds, and that another slot's transfers are others.
LEMMA OwnSlot ==
  ASSUME IInv, NEW t \in Threads, Busy(t)
  PROVE  /\ threads[t].slot \in Slots
         /\ OwnsSlot(t)
         /\ threads[t].port \in Ports
         /\ threads[t].generation \in 1 .. MaxGeneration
         /\ \A s \in Slots : devices[s].active /\ s # threads[t].slot =>
              Transfer(devices[s].port, devices[s].generation)
                # Transfer(threads[t].port, threads[t].generation)
<1>1. threads[t].slot \in Slots /\ OwnsSlot(t)
  BY DEF IInv, TypeOK, ThreadInv
<1>2. /\ threads[t].port \in Ports
      /\ threads[t].generation \in 1 .. MaxGeneration
  BY <1>1 DEF IInv, SlotInv, OwnsSlot
<1>3. ASSUME NEW s \in Slots, devices[s].active, s # threads[t].slot
      PROVE  Transfer(devices[s].port, devices[s].generation)
               # Transfer(threads[t].port, threads[t].generation)
  BY <1>1, <1>3 DEF IInv, DistinctInv, OwnsSlot, Transfer
<1> QED BY <1>1, <1>2, <1>3

\* start_input may leave an input transfer of the device.
LEMMA AttachStartKeeps ==
  ASSUME IInv, NEW t \in Threads, AttachStart(t)
  PROVE  IInv'
<1> USE DEF IInv
<1> DEFINE mine == Transfer(threads[t].port, threads[t].generation)
<1>1. /\ threads[t].pc = "starting" /\ Busy(t) /\ Attaching(t)
      /\ UNCHANGED << devices, next_device_id, generation, outputs, attached >>
      /\ \/ inputs' = inputs \cup {mine} /\ Goto(t, "started")
         \/ inputs' = inputs /\ Goto(t, "start_failed")
  BY DEF AttachStart, Busy, Attaching
<1>2. /\ \A u \in Threads \ {t} : threads'[u] = threads[u]
      /\ threads'[t].slot = threads[t].slot /\ threads'[t].id = threads[t].id
      /\ threads'[t].port = threads[t].port
      /\ threads'[t].generation = threads[t].generation
      /\ threads'[t].pc \in {"started", "start_failed"}
  BY <1>1 DEF Goto, TypeOK
<1>3. mine \in Transfers
  BY <1>1, OwnSlot DEF Transfer, Transfers
<1>4. TypeOK'
  <2>1. inputs' \subseteq Transfers
    BY <1>1, <1>3 DEF TypeOK
  <2>2. threads' \in [Threads -> [pc : PCs, slot : Slots, id : 0 .. MaxId,
                                port : Ports \cup {NoPort},
                                generation : 0 .. MaxGeneration]]
    BY <1>1 DEF TypeOK, Goto, PCs
  <2> QED BY <1>1, <2>1, <2>2 DEF TypeOK
<1>5. SlotInv' /\ DistinctInv' /\ RegisteredUntilDetached'
  BY <1>1 DEF SlotInv, DistinctInv, RegisteredUntilDetached, ValidDevice
<1>6. ThreadInv'
  BY <1>1, <1>2 DEF ThreadInv, OwnsSlot, Busy, Attaching
<1>7. QuietInv'
  <2>1. ASSUME NEW u \in Threads \ {t}, Busy(u)
        PROVE  Transfer(threads[u].port, threads[u].generation) # mine
    <3>1. threads[u].slot # threads[t].slot
      BY <1>1, <2>1 DEF ThreadInv
    <3> QED BY <3>1, <2>1, <1>1, OwnSlot DEF OwnsSlot
  <2>2. ASSUME NEW u \in Threads \ {t},
               threads'[u].pc \in {"starting", "start_failed", "cancelled"}
        PROVE  Quiet(u)'
    BY <2>1, <2>2, <1>1, <1>2 DEF QuietInv, Quiet, Busy
  <2>3. threads'[t].pc = "start_failed" => Quiet(t)'
    BY <1>1, <1>2 DEF QuietInv, Quiet, Goto, TypeOK
  <2> QED BY <2>2, <2>3, <1>2 DEF QuietInv
<1>8. TransferHasOwner'
  <2>1. \E s \in Slots : /\ devices[s].active
                         /\ devices[s].port = mine.port
                         /\ devices[s].generation = mine.generation
    BY <1>1, OwnSlot DEF OwnsSlot, Transfer
  <2> QED BY <1>1, <2>1 DEF TransferHasOwner
<1> QED BY <1>4, <1>5, <1>6, <1>7, <1>8

\* attach publishes the device, or gives up the slot of a failed start.
LEMMA AttachFinishKeeps ==
  ASSUME IInv, NEW t \in Threads, AttachFinish(t)
  PROVE  IInv'
<1> USE DEF IInv
<1>0. PICK s \in Slots : s = threads[t].slot
  BY DEF TypeOK
<1>1. /\ Busy(t) /\ Attaching(t) /\ Finished(t)
      /\ UNCHANGED << next_device_id, generation, inputs, outputs >>
      /\ \/ /\ devices' = [devices EXCEPT ![s].transport_started = TRUE]
            /\ attached' = attached \cup {devices[s].device_id}
         \/ /\ threads[t].pc = "start_failed"
            /\ devices' = [devices EXCEPT ![s] = EmptyDevice]
            /\ attached' = attached
  BY <1>0 DEF AttachFinish, Busy, Attaching
<1>2. /\ threads' \in [Threads -> [pc : PCs, slot : Slots, id : 0 .. MaxId,
                                port : Ports \cup {NoPort},
                                generation : 0 .. MaxGeneration]]
      /\ \A u \in Threads \ {t} : threads'[u] = threads[u]
      /\ ~Busy(t)' /\ threads'[t].pc = "idle"
  <2>1. IdleThread \in [pc : PCs, slot : Slots, id : 0 .. MaxId,
                        port : Ports \cup {NoPort}, generation : 0 .. MaxGeneration]
    BY BrokerAssumption DEF IdleThread, PCs, Slots
  <2> QED BY <1>1, <2>1 DEF Finished, TypeOK, Busy, IdleThread
<1>3. /\ \A u \in Slots \ {s} : devices'[u] = devices[u]
      /\ OwnsSlot(t)
      /\ devices[s].device_id \in 0 .. MaxId
  BY <1>0, <1>1, OwnSlot DEF TypeOK, Devices
<1>4. TypeOK'
  <2>1. devices' \in [Slots -> Devices]
    <3>1. CASE devices' = [devices EXCEPT ![s].transport_started = TRUE]
      <4> DEFINE device == [devices[s] EXCEPT !.transport_started = TRUE]
      <4>1. devices[s] \in Devices /\ devices \in [Slots -> Devices]
        BY DEF TypeOK
      <4>2. device \in Devices
        BY <4>1 DEF Devices
      <4>3. devices' = [devices EXCEPT ![s] = device]
        BY <3>1
      <4> HIDE DEF device
      <4> QED BY <4>1, <4>2, <4>3
    <3>2. CASE devices' = [devices EXCEPT ![s] = EmptyDevice]
      BY <3>2, EmptyDeviceType DEF TypeOK
    <3> QED BY <3>1, <3>2, <1>1
  <2>2. attached' \subseteq 0 .. MaxId
    BY <1>1, <1>3 DEF TypeOK
  <2> QED BY <1>1, <1>2, <2>1, <2>2 DEF TypeOK
<1>5. \/ devices'[s] = EmptyDevice /\ threads[t].pc = "start_failed"
      \/ /\ devices'[s].active /\ devices'[s].device_id = devices[s].device_id
         /\ devices'[s].port = devices[s].port
         /\ devices'[s].generation = devices[s].generation
         /\ devices'[s].transport_started
         /\ devices'[s].quarantined = devices[s].quarantined
  BY <1>0, <1>1, <1>3 DEF TypeOK, Devices, OwnsSlot
<1>6. SlotInv' /\ DistinctInv'
  BY <1>0, <1>1, <1>3, <1>5, EmptyDeviceType DEF SlotInv, DistinctInv, OwnsSlot
<1>7. ThreadInv'
  <2>1. ASSUME NEW u \in Threads, Busy(u)'
        PROVE  u # t /\ Busy(u) /\ threads'[u] = threads[u]
    BY <1>2, <2>1 DEF Busy
  <2>2. ASSUME NEW u \in Threads, Busy(u)'
        PROVE  OwnsSlot(u)'
    <3>1. OwnsSlot(u) /\ threads[u].slot \in Slots /\ threads[u].slot # s
      BY <1>0, <1>1, <2>1, <2>2, OwnSlot DEF ThreadInv
    <3>2. devices'[threads[u].slot] = devices[threads[u].slot]
      BY <1>3, <3>1
    <3> QED BY <2>1, <2>2, <3>1, <3>2 DEF OwnsSlot, Attaching
  <2> QED BY <2>1, <2>2 DEF ThreadInv
<1>8. QuietInv'
  BY <1>1, <1>2 DEF QuietInv, Quiet
<1>9. TransferHasOwner'
  <2>1. CASE devices'[s] = EmptyDevice /\ threads[t].pc = "start_failed"
    <3>1. \A x \in inputs \cup outputs :
             x.port # devices[s].port \/ x.generation # devices[s].generation
      BY <1>0, <2>1, <1>3 DEF QuietInv, Quiet, Transfer, TypeOK, Transfers, OwnsSlot
    <3> QED BY <3>1, <1>1, <1>3 DEF TransferHasOwner
  <2>2. CASE devices'[s].active
    BY <2>2, <1>1, <1>3, <1>5, EmptyDeviceType DEF TransferHasOwner
  <2> QED BY <2>1, <2>2, <1>5
<1>10. RegisteredUntilDetached'
  <2>1. ~ValidDevice(s)
    BY <1>0, <1>3 DEF ValidDevice, OwnsSlot
  <2>2. \A id \in attached :
           \E u \in Slots \ {s} : devices[u].device_id = id /\ ValidDevice(u)
    BY <2>1 DEF RegisteredUntilDetached
  <2>3. \A id \in attached :
           \E u \in Slots : devices'[u].device_id = id /\ ValidDevice(u)'
    BY <2>2, <1>3 DEF ValidDevice
  <2>4. devices'[s] # EmptyDevice /\ devices'[s].transport_started =>
           devices'[s].device_id = devices[s].device_id /\ ValidDevice(s)'
    BY <1>0, <1>1, <1>3, <1>5, EmptyDeviceType DEF ValidDevice, OwnsSlot
  <2>5. CASE attached' = attached
    BY <2>3, <2>5 DEF RegisteredUntilDetached
  <2>6. CASE /\ devices' = [devices EXCEPT ![s].transport_started = TRUE]
             /\ attached' = attached \cup {devices[s].device_id}
    <3>1. devices'[s].transport_started
      BY <1>1, <2>6 DEF TypeOK, Devices
    <3> QED BY <3>1, <2>3, <2>4, <2>6, <1>1, EmptyDeviceType
            DEF RegisteredUntilDetached
  <2> QED BY <2>5, <2>6, <1>1
<1> QED BY <1>4, <1>6, <1>7, <1>8, <1>9, <1>10

-----------------------------------------------------------------------------
(* The steps of a caller of detach *)

\* detach clears transport_started and remembers the device.
LEMMA DetachBeginKeeps ==
  ASSUME IInv, SerialDetach, NEW t \in Threads, NEW s \in Slots,
         DetachBegin(t, s)
  PROVE  IInv'
<1> USE DEF IInv
<1> DEFINE me == [pc |-> "cancelling", slot |-> s, id |-> devices[s].device_id,
                  port |-> devices[s].port,
                  generation |-> devices[s].generation]
<1>1. /\ threads[t].pc = "idle"
      /\ devices[s].active /\ devices[s].transport_started
      /\ devices' = [devices EXCEPT ![s].transport_started = FALSE]
      /\ threads' = [threads EXCEPT ![t] = me]
      /\ attached' = attached \ {devices[s].device_id}
      /\ UNCHANGED << next_device_id, generation, inputs, outputs >>
  BY DEF DetachBegin
<1>2. /\ \A u \in Slots \ {s} : devices'[u] = devices[u]
      /\ devices'[s] \in Devices
      /\ devices'[s].active /\ ~devices'[s].transport_started
      /\ devices'[s].device_id = devices[s].device_id
      /\ devices'[s].port = devices[s].port
      /\ devices'[s].generation = devices[s].generation
  BY <1>1 DEF TypeOK, Devices
<1>3. /\ \A u \in Threads \ {t} : threads'[u] = threads[u]
      /\ threads'[t] = me
  BY <1>1 DEF TypeOK
<1>4. TypeOK'
  <2>1. me \in [pc : PCs, slot : Slots, id : 0 .. MaxId,
                port : Ports \cup {NoPort}, generation : 0 .. MaxGeneration]
    BY DEF TypeOK, Devices, PCs
  <2> QED BY <1>1, <1>2, <2>1 DEF TypeOK
<1>5. SlotInv' /\ DistinctInv'
  BY <1>1, <1>2 DEF SlotInv, DistinctInv
<1>6. \A u \in Threads : Busy(u) => threads[u].slot \in Slots \ {s}
  BY <1>1, OwnSlot DEF OwnsSlot
<1>7. ThreadInv'
  <2>1. OwnsSlot(t)'
    BY <1>2, <1>3 DEF OwnsSlot, Attaching
  <2>2. ASSUME NEW u \in Threads \ {t}, Busy(u)'
        PROVE  OwnsSlot(u)' /\ threads'[u].slot # s
    BY <2>2, <1>2, <1>3, <1>6 DEF ThreadInv, OwnsSlot, Attaching, Busy
  <2>3. ASSUME NEW u \in Threads \ {t}, NEW v \in Threads \ {t},
               Busy(u)', Busy(v)', u # v
        PROVE  threads'[u].slot # threads'[v].slot
    BY <2>3, <1>3 DEF ThreadInv, Busy
  <2> QED BY <2>1, <2>2, <2>3, <1>3 DEF ThreadInv
<1>8. QuietInv'
  BY <1>1, <1>3 DEF QuietInv, Quiet
<1>9. TransferHasOwner'
  BY <1>1, <1>2 DEF TransferHasOwner
<1>10. RegisteredUntilDetached'
  BY <1>1, <1>2 DEF RegisteredUntilDetached, ValidDevice
<1> QED BY <1>4, <1>5, <1>7, <1>8, <1>9, <1>10

\* Nobody else writes the slot: the transport is given the device's own
\* cookie and generation.
LEMMA DetachReads ==
  ASSUME IInv, NEW t \in Threads, Busy(t)
  PROVE  /\ CookieRead(t) = {threads[t].port}
         /\ GenerationRead(t) = {threads[t].generation}
  BY OwnSlot DEF OwnsSlot, CookieRead, GenerationRead

\* cancel_transfers takes the device's transfers back, or fails.
LEMMA DetachCancelKeeps ==
  ASSUME IInv, NEW t \in Threads, DetachCancel(t)
  PROVE  IInv'
<1> USE DEF IInv
<1> DEFINE mine == Transfer(threads[t].port, threads[t].generation)
<1>1. /\ threads[t].pc = "cancelling" /\ Busy(t)
      /\ UNCHANGED << devices, next_device_id, generation, attached >>
      /\ \/ /\ inputs' = inputs \ {mine} /\ outputs' = outputs \ {mine}
            /\ Goto(t, "cancelled")
         \/ /\ UNCHANGED << inputs, outputs >>
            /\ Goto(t, "cancel_failed")
  <2>1. Busy(t)
    BY DEF DetachCancel, Busy
  <2> QED BY <2>1, DetachReads DEF DetachCancel
<1>2. /\ \A u \in Threads \ {t} : threads'[u] = threads[u]
      /\ threads'[t].slot = threads[t].slot /\ threads'[t].id = threads[t].id
      /\ threads'[t].port = threads[t].port
      /\ threads'[t].generation = threads[t].generation
      /\ threads'[t].pc \in {"cancelled", "cancel_failed"}
  BY <1>1 DEF Goto, TypeOK
<1>3. TypeOK'
  <2>1. inputs' \subseteq Transfers /\ outputs' \subseteq Transfers
    BY <1>1 DEF TypeOK
  <2>2. threads' \in [Threads -> [pc : PCs, slot : Slots, id : 0 .. MaxId,
                                port : Ports \cup {NoPort},
                                generation : 0 .. MaxGeneration]]
    BY <1>1 DEF TypeOK, Goto, PCs
  <2> QED BY <1>1, <2>1, <2>2 DEF TypeOK
<1>4. SlotInv' /\ DistinctInv' /\ RegisteredUntilDetached'
  BY <1>1 DEF SlotInv, DistinctInv, RegisteredUntilDetached, ValidDevice
<1>5. ThreadInv'
  BY <1>1, <1>2 DEF ThreadInv, OwnsSlot, Busy, Attaching
<1>6. QuietInv'
  <2>1. threads'[t].pc = "cancelled" => Quiet(t)'
    BY <1>1, <1>2 DEF Quiet, Goto, TypeOK
  <2> QED BY <2>1, <1>1, <1>2 DEF QuietInv, Quiet
<1>7. TransferHasOwner'
  BY <1>1 DEF TransferHasOwner
<1> QED BY <1>3, <1>4, <1>5, <1>6, <1>7

\* detach gives the slot up, or keeps the device in quarantine.
LEMMA DetachFinishKeeps ==
  ASSUME IInv, NEW t \in Threads, DetachFinish(t)
  PROVE  IInv'
<1> USE DEF IInv
<1>0. PICK s \in Slots : s = threads[t].slot
  BY DEF TypeOK
<1>1. /\ Busy(t) /\ Finished(t)
      /\ UNCHANGED << next_device_id, generation, inputs, outputs, attached >>
      /\ \/ /\ threads[t].pc = "cancelled"
            /\ devices' = [devices EXCEPT ![s] = EmptyDevice]
         \/ devices' = [devices EXCEPT ![s].transport_started = TRUE,
                                       ![s].quarantined = TRUE]
         \/ devices' = devices
  BY <1>0 DEF DetachFinish, Busy
<1>2. /\ threads' \in [Threads -> [pc : PCs, slot : Slots, id : 0 .. MaxId,
                                port : Ports \cup {NoPort},
                                generation : 0 .. MaxGeneration]]
      /\ \A u \in Threads \ {t} : threads'[u] = threads[u]
      /\ ~Busy(t)' /\ threads'[t].pc = "idle"
  <2>1. IdleThread \in [pc : PCs, slot : Slots, id : 0 .. MaxId,
                        port : Ports \cup {NoPort}, generation : 0 .. MaxGeneration]
    BY BrokerAssumption DEF IdleThread, PCs, Slots
  <2> QED BY <1>1, <2>1 DEF Finished, TypeOK, Busy, IdleThread
<1>3. OwnsSlot(t) /\ devices[s] \in Devices
  BY <1>1, OwnSlot DEF TypeOK
<1>4. /\ \A u \in Slots \ {s} : devices'[u] = devices[u]
      /\ devices' \in [Slots -> Devices]
      /\ \/ devices'[s] = EmptyDevice /\ threads[t].pc = "cancelled"
         \/ /\ devices'[s].active /\ devices'[s].device_id = devices[s].device_id
            /\ devices'[s].port = devices[s].port
            /\ devices'[s].generation = devices[s].generation
  <2>1. CASE /\ threads[t].pc = "cancelled"
             /\ devices' = [devices EXCEPT ![s] = EmptyDevice]
    BY <2>1, EmptyDeviceType DEF TypeOK
  <2>2. CASE devices' = [devices EXCEPT ![s].transport_started = TRUE,
                                        ![s].quarantined = TRUE]
    <3>1. DEFINE d == [devices[s] EXCEPT !.transport_started = TRUE,
                                         !.quarantined = TRUE]
    <3>2. /\ d \in Devices
          /\ d.active = devices[s].active /\ d.device_id = devices[s].device_id
          /\ d.port = devices[s].port /\ d.generation = devices[s].generation
      BY <1>3 DEF Devices
    <3>3. devices' = [devices EXCEPT ![s] = d]
      BY <2>2 DEF TypeOK
    <3> HIDE DEF d
    <3> QED BY <3>2, <3>3, <1>0, <1>3 DEF TypeOK, OwnsSlot
  <2>3. CASE devices' = devices
    BY <2>3, <1>0, <1>3 DEF TypeOK, OwnsSlot
  <2> QED BY <2>1, <2>2, <2>3, <1>1
<1>5. TypeOK'
  BY <1>1, <1>2, <1>4 DEF TypeOK
<1>6. SlotInv' /\ DistinctInv'
  BY <1>0, <1>1, <1>3, <1>4, EmptyDeviceType DEF SlotInv, DistinctInv, OwnsSlot
<1>7. ThreadInv'
  <2>1. ASSUME NEW u \in Threads, Busy(u)'
        PROVE  u # t /\ Busy(u) /\ threads'[u] = threads[u]
    BY <1>2, <2>1 DEF Busy
  <2>2. ASSUME NEW u \in Threads, Busy(u)'
        PROVE  OwnsSlot(u)'
    <3>1. OwnsSlot(u) /\ threads[u].slot \in Slots /\ threads[u].slot # s
      BY <1>0, <1>1, <2>1, <2>2, OwnSlot DEF ThreadInv
    <3>2. devices'[threads[u].slot] = devices[threads[u].slot]
      BY <1>4, <3>1
    <3> QED BY <2>1, <2>2, <3>1, <3>2 DEF OwnsSlot, Attaching
  <2> QED BY <2>1, <2>2 DEF ThreadInv
<1>8. QuietInv'
  BY <1>1, <1>2 DEF QuietInv, Quiet
<1>9. TransferHasOwner'
  <2>1. CASE devices'[s] = EmptyDevice /\ threads[t].pc = "cancelled"
    <3>1. \A x \in inputs \cup outputs :
             x.port # devices[s].port \/ x.generation # devices[s].generation
      BY <1>0, <2>1, <1>3 DEF QuietInv, Quiet, Transfer, TypeOK, Transfers,
                              OwnsSlot
    <3> QED BY <3>1, <1>1, <1>4 DEF TransferHasOwner
  <2>2. CASE devices'[s].active
    BY <2>2, <1>1, <1>4, EmptyDeviceType DEF TransferHasOwner
  <2> QED BY <2>1, <2>2, <1>4
<1>10. RegisteredUntilDetached'
  <2>1. ~ValidDevice(s)
    BY <1>0, <1>3 DEF ValidDevice, OwnsSlot
  <2>2. \A id \in attached :
           \E u \in Slots \ {s} : devices[u].device_id = id /\ ValidDevice(u)
    BY <2>1 DEF RegisteredUntilDetached
  <2> QED BY <2>2, <1>1, <1>4 DEF RegisteredUntilDetached, ValidDevice
<1> QED BY <1>5, <1>6, <1>7, <1>8, <1>9, <1>10

-----------------------------------------------------------------------------
(* The operations on a client, and the transport *)

Operation(s) ==
  BeginInit(s) \/ BeginCbor(s) \/ Cancel(s) \/ FeedReport(s) \/ PollDevice(s)

\* The functions of a client leave it in one of its states.
LEMMA ClientMoves ==
  ASSUME NEW c \in ClientStates
  PROVE  /\ BeginInitTo(c) \subseteq ClientStates
         /\ BeginCborTo(c) \subseteq ClientStates
         /\ CancelTo(c) \subseteq ClientStates
         /\ FeedTo(c) \subseteq ClientStates
         /\ PollTo(c) \subseteq ClientStates
  BY DEF BeginInitTo, BeginCborTo, CancelTo, FeedTo, PollTo, ClientStates,
         BusyStates

\* What any operation does: it moves the client of a valid device, and its
\* output transfers are the device's.
LEMMA OperationStep ==
  ASSUME IInv, NEW s \in Slots, Operation(s)
  PROVE  /\ ValidDevice(s)
         /\ \E c \in ClientStates : SetClient(s, c)
         /\ outputs' \in {outputs,
              outputs \cup {Transfer(devices[s].port, devices[s].generation)}}
         /\ UNCHANGED << next_device_id, threads, generation, inputs, attached >>
<1>1. /\ devices[s].client \in ClientStates /\ "DISCONNECTED" \in ClientStates
  BY DEF IInv, TypeOK, Devices, ClientStates
<1>2. ASSUME NEW to \in SUBSET ClientStates, Submit(s, to)
      PROVE  /\ \E c \in ClientStates : SetClient(s, c)
             /\ outputs' \in {outputs,
                  outputs \cup {Transfer(devices[s].port, devices[s].generation)}}
             /\ ValidDevice(s)
             /\ UNCHANGED << next_device_id, threads, generation, inputs,
                             attached >>
  BY <1>1, <1>2 DEF Submit
<1>3. CASE BeginInit(s)
  BY <1>1, <1>2, <1>3, ClientMoves DEF BeginInit
<1>4. CASE BeginCbor(s)
  BY <1>1, <1>2, <1>4, ClientMoves DEF BeginCbor
<1>5. CASE Cancel(s)
  BY <1>1, <1>2, <1>5, ClientMoves DEF Cancel
<1>6. CASE FeedReport(s)
  BY <1>1, <1>6, ClientMoves DEF FeedReport
<1>7. CASE PollDevice(s)
  BY <1>1, <1>7, ClientMoves DEF PollDevice
<1> QED BY <1>3, <1>4, <1>5, <1>6, <1>7 DEF Operation

\* An operation moves the client of a started device and nothing else.
LEMMA OperationKeeps ==
  ASSUME IInv, NEW s \in Slots, Operation(s)
  PROVE  IInv'
<1> USE DEF IInv
<1> DEFINE theirs == Transfer(devices[s].port, devices[s].generation)
<1>1. /\ ValidDevice(s)
      /\ outputs' \in {outputs, outputs \cup {theirs}}
      /\ UNCHANGED << next_device_id, threads, generation, inputs, attached >>
  BY OperationStep
<1>2. PICK c \in ClientStates : devices' = [devices EXCEPT ![s].client = c]
  BY OperationStep DEF SetClient
<1>3. /\ devices' \in [Slots -> Devices]
      /\ \A u \in Slots \ {s} : devices'[u] = devices[u]
      /\ devices'[s].active = devices[s].active
      /\ devices'[s].device_id = devices[s].device_id
      /\ devices'[s].port = devices[s].port
      /\ devices'[s].generation = devices[s].generation
      /\ devices'[s].transport_started = devices[s].transport_started
      /\ devices'[s].quarantined = devices[s].quarantined
  BY <1>2 DEF TypeOK, Devices
<1>4. devices[s].active /\ devices[s].transport_started
  BY <1>1 DEF ValidDevice
<1>5. theirs \in Transfers
  BY <1>4 DEF SlotInv, Transfer, Transfers
<1>6. TypeOK'
  BY <1>1, <1>3, <1>5 DEF TypeOK
<1>7. SlotInv' /\ DistinctInv'
  <2>1. \A u \in Slots : /\ devices'[u].active = devices[u].active
                         /\ devices'[u].device_id = devices[u].device_id
                         /\ devices'[u].port = devices[u].port
                         /\ devices'[u].generation = devices[u].generation
    BY <1>3
  <2>2. SlotInv'
    BY <2>1, <1>1, <1>3, <1>4 DEF SlotInv
  <2>3. DistinctInv'
    BY <2>1 DEF DistinctInv
  <2> QED BY <2>2, <2>3
<1>8. ThreadInv'
  BY <1>1, <1>3 DEF ThreadInv, OwnsSlot, Busy, Attaching, TypeOK
<1>9. QuietInv'
  <2>1. ASSUME NEW t \in Threads, Busy(t)
        PROVE  Transfer(threads[t].port, threads[t].generation) # theirs
    BY <2>1, <1>4, OwnSlot DEF OwnsSlot
  <2> QED BY <2>1, <1>1 DEF QuietInv, Quiet, Busy
<1>10. TransferHasOwner'
  <2>1. ASSUME NEW x \in inputs' \cup outputs'
        PROVE  \E u \in Slots : /\ devices[u].active
                                /\ devices[u].port = x.port
                                /\ devices[u].generation = x.generation
    <3>1. CASE x \in inputs \cup outputs
      BY <3>1 DEF TransferHasOwner
    <3>2. CASE x = theirs
      BY <3>2, <1>4 DEF Transfer
    <3> QED BY <2>1, <3>1, <3>2, <1>1
  <2> QED BY <2>1, <1>3 DEF TransferHasOwner
<1>11. RegisteredUntilDetached'
  <2> HIDE DEF theirs, IInv
  <2>1. ASSUME NEW u \in Slots, ValidDevice(u)
        PROVE  devices'[u].device_id = devices[u].device_id /\ ValidDevice(u)'
    <3>1. CASE u = s
      BY <1>3, <2>1, <3>1 DEF ValidDevice
    <3>2. CASE u # s
      BY <1>3, <2>1, <3>2 DEF ValidDevice
    <3> QED BY <3>1, <3>2
  <2>2. attached' = attached
    BY <1>1
  <2>3. RegisteredUntilDetached
    BY DEF IInv
  <2> QED BY <2>1, <2>2, <2>3 DEF RegisteredUntilDetached
<1> QED BY <1>6, <1>7, <1>8, <1>9, <1>10, <1>11

\* The transport writes a report, or a port gets its next device.
LEMMA TransportKeeps ==
  ASSUME IInv, OutputDone \/ \E p \in Ports : Replug(p)
  PROVE  IInv'
<1> USE DEF IInv
<1>1. /\ UNCHANGED << devices, next_device_id, threads, inputs, attached >>
      /\ outputs' \subseteq outputs
  BY DEF OutputDone, Replug
<1>2. TypeOK'
  <2>1. CASE OutputDone
    BY <2>1 DEF OutputDone, TypeOK
  <2>2. ASSUME NEW p \in Ports, Replug(p)
        PROVE  generation' \in [Ports -> 1 .. MaxGeneration]
    <3>1. /\ generation[p] \in Nat /\ MaxGeneration \in Nat \ {0}
          /\ generation[p] % MaxGeneration \in 0 .. MaxGeneration - 1
      BY BrokerAssumption DEF TypeOK
    <3>2. (generation[p] % MaxGeneration) + 1 \in 1 .. MaxGeneration
      BY <3>1
    <3> QED BY <2>2, <3>2 DEF Replug, TypeOK
  <2> QED BY <2>1, <2>2, <1>1 DEF TypeOK, Replug
<1>3. SlotInv' /\ DistinctInv' /\ ThreadInv' /\ RegisteredUntilDetached'
  BY <1>1 DEF SlotInv, DistinctInv, ThreadInv, OwnsSlot, Busy, Attaching,
              RegisteredUntilDetached, ValidDevice
<1>4. QuietInv' /\ TransferHasOwner'
  BY <1>1 DEF QuietInv, Quiet, TransferHasOwner
<1> QED BY <1>2, <1>3, <1>4

-----------------------------------------------------------------------------
(* The safety theorems *)

\* Every step keeps the invariant.
LEMMA NextKeeps ==
  ASSUME IInv, SerialDetach, [Next]_vars
  PROVE  IInv'
<1>1. CASE UNCHANGED vars
  BY <1>1 DEF vars, IInv, TypeOK, SlotInv, DistinctInv, ThreadInv, OwnsSlot,
              Busy, Attaching, QuietInv, Quiet, TransferHasOwner,
              RegisteredUntilDetached, ValidDevice
<1>2. ASSUME NEW t \in Threads,
             \/ \E p \in Ports, s \in Slots : AttachReserve(t, p, s)
             \/ AttachStart(t) \/ AttachFinish(t)
             \/ \E s \in Slots : DetachBegin(t, s)
             \/ DetachCancel(t) \/ DetachFinish(t)
      PROVE  IInv'
  BY <1>2, AttachReserveKeeps, AttachStartKeeps, AttachFinishKeeps,
     DetachBeginKeeps, DetachCancelKeeps, DetachFinishKeeps
<1>3. ASSUME NEW s \in Slots, Operation(s)
      PROVE  IInv'
  BY <1>3, OperationKeeps
<1> QED BY <1>1, <1>2, <1>3, TransportKeeps DEF Next, Operation

\* The invariant of the broker (attach, detach and the operations).
LEMMA BrokerInvariant == ASSUME SerialDetach PROVE Spec => []IInv
  BY InitIInv, NextKeeps, PTL DEF Spec

\* Every field keeps its type.
THEOREM BrokerTypes == ASSUME SerialDetach PROVE Spec => []TypeOK
<1>1. IInv => TypeOK
  BY DEF IInv
<1> QED BY <1>1, BrokerInvariant, PTL

\* No transfer outlives the slot of its device: attach and detach give a
\* slot up only when the transport has none of its port generation left
\* (broker_v1.c:249-334).
THEOREM OwnedTransfers == ASSUME SerialDetach PROVE Spec => []TransferHasOwner
<1>1. IInv => TransferHasOwner
  BY DEF IInv
<1> QED BY <1>1, BrokerInvariant, PTL

\* After cancel_transfers returned OK nobody submits for the device again,
\* although detach does not hold the lock.
THEOREM FinalCancel == ASSUME SerialDetach PROVE Spec => []CancelIsFinal
<1>1. IInv => CancelIsFinal
  BY DEF IInv, QuietInv, Quiet, CancelIsFinal
<1> QED BY <1>1, BrokerInvariant, PTL

\* A device attach returned is found, started and not in quarantine, until
\* detach is called for it.
THEOREM StaysRegistered ==
  ASSUME SerialDetach PROVE Spec => []RegisteredUntilDetached
<1>1. IInv => RegisteredUntilDetached
  BY DEF IInv
<1> QED BY <1>1, BrokerInvariant, PTL

-----------------------------------------------------------------------------
(* The broker implements the registry                                      *)

(* The registry the broker stands for, as Registry maps it.                *)
Reg == [id \in ActiveIds |-> StatusOf(SlotOf(id))]

Starting(s) == \E t \in Threads : Attaching(t) /\ threads[t].slot = s

RegView ==
  /\ Reg = [id \in ActiveIds |-> Reg[id]]
  /\ \A s \in Slots :
        devices[s].active =>
          /\ devices[s].device_id \in ActiveIds
          /\ Reg[devices[s].device_id] = StatusOf(s)
  /\ \A id \in ActiveIds :
        \E s \in Slots : devices[s].active /\ devices[s].device_id = id

\* The registry has the status of each active slot under the slot's id.
LEMMA RegistryView == IInv => RegView
<1> SUFFICES ASSUME IInv PROVE RegView
  OBVIOUS
<1>1. ASSUME NEW s \in Slots, devices[s].active
      PROVE  devices[s].device_id \in ActiveIds /\ SlotOf(devices[s].device_id) = s
  <2>1. devices[s].device_id \in ActiveIds
    BY <1>1 DEF ActiveIds
  <2>2. \A u \in Slots :
           devices[u].active /\ devices[u].device_id = devices[s].device_id
             => u = s
    BY <1>1 DEF IInv, DistinctInv
  <2>3. SlotOf(devices[s].device_id) = s
    BY <1>1, <2>2 DEF SlotOf
  <2> QED BY <2>1, <2>3
<1>2. Reg = [id \in ActiveIds |-> Reg[id]]
  BY DEF Reg
<1>3. ASSUME NEW s \in Slots, devices[s].active
      PROVE  Reg[devices[s].device_id] = StatusOf(s)
  BY <1>1, <1>3 DEF Reg
<1>4. \A id \in ActiveIds :
         \E s \in Slots : devices[s].active /\ devices[s].device_id = id
  BY DEF ActiveIds
<1> QED BY <1>1, <1>2, <1>3, <1>4 DEF RegView

\* The same of the next state.
LEMMA NextRegistryView == IInv' => RegView'
  BY RegistryView, PTL

\* The status of a slot, by its flags and by who is attaching it.
LEMMA StatusValue ==
  ASSUME NEW s \in Slots, devices[s] \in Devices
  PROVE  StatusOf(s) =
           IF devices[s].transport_started
           THEN IF devices[s].quarantined THEN "quarantined" ELSE "open"
           ELSE IF Starting(s) THEN "starting" ELSE "closing"
  BY DEF StatusOf, Starting, Attaching, Devices

\* A slot whose flags and attaching thread do not change keeps its status.
LEMMA SameStatus ==
  ASSUME NEW s \in Slots, Starting(s)' <=> Starting(s),
         devices'[s].transport_started = devices[s].transport_started,
         devices'[s].quarantined = devices[s].quarantined
  PROVE  StatusOf(s)' = StatusOf(s)
  BY DEF StatusOf, Starting, Attaching

\* A slot a thread is in attach or detach with: nobody else attaches it.
LEMMA WhoIsStarting ==
  ASSUME IInv, NEW t \in Threads, Busy(t)
  PROVE  Starting(threads[t].slot) <=> Attaching(t)
  BY DEF IInv, ThreadInv, Starting, Attaching, Busy

\* Slots that keep their device and status: the registry does not change.
LEMMA RegistryStutters ==
  ASSUME IInv, IInv', UNCHANGED next_device_id,
         \A s \in Slots : /\ devices'[s].active = devices[s].active
                          /\ devices'[s].device_id = devices[s].device_id
                          /\ devices[s].active => StatusOf(s)' = StatusOf(s)
  PROVE  UNCHANGED Registry!vars
<1>1. RegView /\ RegView'
  BY RegistryView, NextRegistryView
<1>2. ActiveIds' = ActiveIds
  BY DEF ActiveIds
<1>3. \A id \in ActiveIds : Reg'[id] = Reg[id]
  <2> SUFFICES ASSUME NEW s \in Slots, devices[s].active
               PROVE  Reg'[devices[s].device_id] = Reg[devices[s].device_id]
    BY <1>1 DEF RegView
  <2> QED BY <1>1 DEF RegView
<1>4. Reg' = Reg
  BY <1>1, <1>2, <1>3 DEF RegView
<1> QED BY <1>4 DEF Reg, Registry!vars

\* One slot gets another status: its id moves.
LEMMA RegistryMoves ==
  ASSUME IInv, IInv', UNCHANGED next_device_id, NEW s \in Slots,
         devices[s].active, NEW from, StatusOf(s) \in from,
         NEW to, StatusOf(s)' = to,
         \A u \in Slots : /\ devices'[u].active = devices[u].active
                          /\ devices'[u].device_id = devices[u].device_id
                          /\ devices[u].active /\ u # s =>
                               StatusOf(u)' = StatusOf(u)
  PROVE  \E id \in DOMAIN Reg : Registry!Move(id, from, to)
<1> DEFINE id == devices[s].device_id
<1>1. RegView /\ RegView'
  BY RegistryView, NextRegistryView
<1>2. ActiveIds' = ActiveIds /\ id \in ActiveIds /\ DOMAIN Reg = ActiveIds
  BY <1>1 DEF ActiveIds, RegView
<1>3. ASSUME NEW i \in ActiveIds
      PROVE  Reg'[i] = IF i = id THEN to ELSE Reg[i]
  <2>1. PICK u \in Slots : devices[u].active /\ devices[u].device_id = i
    BY <1>1 DEF RegView
  <2>2. u = s <=> i = id
    BY <2>1 DEF IInv, DistinctInv
  <2>3. Reg'[i] = StatusOf(u)' /\ Reg[i] = StatusOf(u)
    BY <1>1, <2>1 DEF RegView
  <2> QED BY <2>1, <2>2, <2>3
<1>4. Reg' = [Reg EXCEPT ![id] = to]
  BY <1>1, <1>2, <1>3 DEF RegView
<1>5. Reg[id] \in from
  BY <1>1 DEF RegView
<1>6. Registry!Move(id, from, to)
  BY <1>4, <1>5 DEF Reg, Registry!Move
<1> QED BY <1>2, <1>6

\* One slot is given up: its id is removed.
LEMMA RegistryRemoves ==
  ASSUME IInv, IInv', UNCHANGED next_device_id, NEW s \in Slots,
         devices[s].active, ~devices'[s].active,
         \A u \in Slots \ {s} : /\ devices'[u].active = devices[u].active
                                /\ devices'[u].device_id = devices[u].device_id
                                /\ devices[u].active => StatusOf(u)' = StatusOf(u)
  PROVE  \E id \in DOMAIN Reg :
            /\ Reg[id] = StatusOf(s)
            /\ Registry!Remove(id) /\ UNCHANGED next_device_id
<1> DEFINE id == devices[s].device_id
<1>1. RegView /\ RegView'
  BY RegistryView, NextRegistryView
<1>2. id \in ActiveIds /\ DOMAIN Reg = ActiveIds
  BY <1>1 DEF RegView
<1>3. ActiveIds' = ActiveIds \ {id}
  <2>1. \A u \in Slots \ {s} : devices[u].active => devices[u].device_id # id
    BY DEF IInv, DistinctInv
  <2> QED BY <2>1 DEF ActiveIds
<1>4. ASSUME NEW i \in ActiveIds \ {id}
      PROVE  Reg'[i] = Reg[i]
  <2>1. PICK u \in Slots : devices[u].active /\ devices[u].device_id = i
    BY <1>1 DEF RegView
  <2>2. u # s
    BY <2>1
  <2> QED BY <1>1, <2>1, <2>2 DEF RegView
<1>5. Reg' = [i \in DOMAIN Reg \ {id} |-> Reg[i]]
  BY <1>1, <1>2, <1>3, <1>4 DEF RegView
<1>6. Registry!Remove(id)
  BY <1>5 DEF Reg, Registry!Remove
<1>7. Reg[id] = StatusOf(s)
  BY <1>1 DEF RegView
<1> QED BY <1>2, <1>6, <1>7

\* The broker never registers more devices than there are slots, and while
\* a slot is free it registers fewer.
LEMMA RoomForOne ==
  ASSUME IInv, NEW s \in Slots, ~devices[s].active
  PROVE  Cardinality(ActiveIds) < DeviceMax
<1> DEFINE taken == {x \in Slots : devices[x].active}
           f == [x \in taken |-> devices[x].device_id]
<1>1. /\ IsFiniteSet(Slots) /\ Cardinality(Slots) = DeviceMax
      /\ DeviceMax \in Nat
  BY BrokerAssumption, FS_Interval DEF Slots
<1>2. IsFiniteSet(Slots \ {s}) /\ Cardinality(Slots \ {s}) = DeviceMax - 1
  BY <1>1, FS_RemoveElement
<1>3. IsFiniteSet(taken) /\ Cardinality(taken) <= DeviceMax - 1
  <2>1. taken \in SUBSET (Slots \ {s})
    OBVIOUS
  <2> QED BY <2>1, <1>2, FS_Subset
<1>4. f \in Surjection(taken, ActiveIds)
  <2>1. f \in [taken -> ActiveIds]
    BY DEF ActiveIds
  <2>2. \A id \in ActiveIds : \E x \in taken : f[x] = id
    BY DEF ActiveIds
  <2> QED BY <2>1, <2>2, Fun_IsSurj
<1>5. Cardinality(ActiveIds) <= Cardinality(taken)
  BY <1>3, <1>4, FS_Surjection
<1>6. Cardinality(taken) \in Nat /\ Cardinality(ActiveIds) \in Nat
  BY <1>3, <1>4, FS_Surjection, FS_CardinalityType
<1> QED BY <1>1, <1>3, <1>5, <1>6

\* A free slot is taken for a new id: the id is added.
LEMMA RegistryAdds ==
  ASSUME IInv, IInv', next_device_id' = next_device_id + 1, NEW s \in Slots,
         ~devices[s].active, devices'[s].active,
         devices'[s].device_id = next_device_id + 1,
         StatusOf(s)' = "starting",
         \A u \in Slots \ {s} : /\ devices'[u].active = devices[u].active
                                /\ devices'[u].device_id = devices[u].device_id
                                /\ devices[u].active => StatusOf(u)' = StatusOf(u)
  PROVE  Registry!Reserve
<1> DEFINE id == next_device_id + 1
<1>1. RegView /\ RegView'
  BY RegistryView, NextRegistryView
<1>2. DOMAIN Reg = ActiveIds
  BY <1>1 DEF RegView
<1>3. ActiveIds' = ActiveIds \cup {id}
  BY DEF ActiveIds
<1>4. id \notin ActiveIds
  <2>1. next_device_id \in Nat
    BY BrokerAssumption DEF IInv, TypeOK
  <2> QED BY <2>1 DEF ActiveIds, IInv, SlotInv
<1>5. ASSUME NEW i \in ActiveIds
      PROVE  Reg'[i] = Reg[i]
  <2>1. PICK u \in Slots : devices[u].active /\ devices[u].device_id = i
    BY <1>1 DEF RegView
  <2>2. u # s
    BY <2>1
  <2> QED BY <1>1, <2>1, <2>2 DEF RegView
<1>6. Reg'[id] = "starting"
  BY <1>1 DEF RegView
<1>7. Reg' = [i \in DOMAIN Reg \cup {id} |->
                IF i = id THEN "starting" ELSE Reg[i]]
  BY <1>1, <1>2, <1>3, <1>4, <1>5, <1>6 DEF RegView
<1>8. Cardinality(DOMAIN Reg) < DeviceMax
  BY <1>2, RoomForOne
<1>9. Reg' = [i \in DOMAIN Reg \cup {next_device_id'} |->
                IF i = next_device_id' THEN "starting" ELSE Reg[i]]
  BY <1>7
<1>10. Registry!Cardinality(DOMAIN Reg) < DeviceMax
  BY <1>8 DEF Cardinality, IsFiniteSet, Registry!Cardinality,
              Registry!IsFiniteSet
<1> HIDE DEF id
<1> QED BY <1>9, <1>10 DEF Reg, Registry!Reserve

\* A thread in attach keeps its slot and stays in attach: nobody's status
\* depends on where it is there.
LEMMA StartingSame ==
  ASSUME NEW t \in Threads, TypeOK,
         \A u \in Threads \ {t} : threads'[u] = threads[u],
         threads'[t].slot = threads[t].slot, Attaching(t)' <=> Attaching(t),
         NEW s \in Slots
  PROVE  Starting(s)' <=> Starting(s)
  BY DEF Starting, Attaching

\* A thread that begins or ends: only its slot is affected.
LEMMA StartingElsewhere ==
  ASSUME NEW t \in Threads, NEW s \in Slots, NEW u \in Slots \ {s},
         \A v \in Threads \ {t} : threads'[v] = threads[v],
         Attaching(t) => threads[t].slot = s,
         Attaching(t)' => threads'[t].slot = s
  PROVE  Starting(u)' <=> Starting(u)
  BY DEF Starting, Attaching

\* Reserving a slot is the registry's Reserve.
LEMMA AttachReserveMaps ==
  ASSUME IInv, IInv', NEW t \in Threads, NEW p \in Ports, NEW s \in Slots,
         AttachReserve(t, p, s)
  PROVE  Registry!Reserve
<1>1. /\ threads[t].pc = "idle" /\ ~devices[s].active
      /\ next_device_id' = next_device_id + 1
      /\ threads'[t].pc = "starting" /\ threads'[t].slot = s
      /\ threads'[t].id = next_device_id + 1
      /\ \A v \in Threads \ {t} : threads'[v] = threads[v]
      /\ \A u \in Slots \ {s} : devices'[u] = devices[u]
  BY DEF AttachReserve, FirstFree, IInv, TypeOK
<1>2. OwnsSlot(t)'
  BY <1>1 DEF IInv, ThreadInv, Busy
<1>3. devices'[s].active /\ devices'[s].device_id = next_device_id + 1
  BY <1>1, <1>2 DEF OwnsSlot
<1>4. StatusOf(s)' = "starting"
  BY <1>1, <1>2 DEF StatusOf, OwnsSlot
<1>5. ASSUME NEW u \in Slots \ {s}
      PROVE  StatusOf(u)' = StatusOf(u)
  <2>1. Starting(u)' <=> Starting(u)
    BY <1>1, StartingElsewhere DEF Attaching
  <2> QED BY <1>1, <2>1, SameStatus
<1> QED BY <1>1, <1>3, <1>4, <1>5, RegistryAdds

\* The transport calls of attach and detach are not seen by the registry.
LEMMA TransportCallMaps ==
  ASSUME IInv, IInv', NEW t \in Threads, AttachStart(t) \/ DetachCancel(t)
  PROVE  UNCHANGED Registry!vars
<1>1. /\ UNCHANGED << devices, next_device_id >>
      /\ \A v \in Threads \ {t} : threads'[v] = threads[v]
      /\ threads'[t].slot = threads[t].slot
      /\ Attaching(t)' <=> Attaching(t)
  BY DEF AttachStart, DetachCancel, Goto, Attaching, IInv, TypeOK
<1>2. ASSUME NEW s \in Slots PROVE StatusOf(s)' = StatusOf(s)
  <2>1. Starting(s)' <=> Starting(s)
    BY <1>1, StartingSame DEF IInv
  <2> QED BY <1>1, <2>1, SameStatus
<1> QED BY <1>1, <1>2, RegistryStutters

\* The end of attach opens the device or abandons it.
LEMMA AttachFinishMaps ==
  ASSUME IInv, IInv', NEW t \in Threads, AttachFinish(t)
  PROVE  \E id \in DOMAIN Reg : Registry!Open(id) \/ Registry!Abandon(id)
<1>0. PICK s \in Slots : s = threads[t].slot
  BY DEF IInv, TypeOK
<1>1. /\ Busy(t) /\ Attaching(t) /\ ~Attaching(t)' /\ UNCHANGED next_device_id
      /\ \A v \in Threads \ {t} : threads'[v] = threads[v]
      /\ \/ devices' = [devices EXCEPT ![s].transport_started = TRUE]
         \/ devices' = [devices EXCEPT ![s] = EmptyDevice]
  BY <1>0 DEF AttachFinish, Finished, IdleThread, Busy, Attaching, IInv, TypeOK
<1>2. OwnsSlot(t) /\ devices[s] \in Devices
  BY <1>1, OwnSlot DEF IInv, TypeOK
<1>3. StatusOf(s) = "starting"
  BY <1>0, <1>1, <1>2 DEF StatusOf, OwnsSlot, Attaching
<1>4. \A u \in Slots \ {s} : devices'[u] = devices[u]
  BY <1>1 DEF IInv, TypeOK
<1>5. ASSUME NEW u \in Slots \ {s}
      PROVE  StatusOf(u)' = StatusOf(u)
  <2>1. Starting(u)' <=> Starting(u)
    BY <1>0, <1>1, StartingElsewhere
  <2> QED BY <1>4, <2>1, SameStatus
<1>6. CASE devices' = [devices EXCEPT ![s].transport_started = TRUE]
  <2>1. /\ devices'[s].active = devices[s].active
        /\ devices'[s].device_id = devices[s].device_id
        /\ devices'[s].transport_started /\ ~devices'[s].quarantined
        /\ devices[s].active
    BY <1>0, <1>1, <1>2, <1>6 DEF OwnsSlot, IInv, TypeOK, Devices
  <2>2. StatusOf(s)' = "open"
    BY <2>1 DEF StatusOf
  <2>3. \E id \in DOMAIN Reg : Registry!Move(id, {"starting"}, "open")
    BY <1>1, <1>3, <1>4, <1>5, <2>1, <2>2, RegistryMoves
  <2> QED BY <2>3 DEF Registry!Open
<1>7. CASE devices' = [devices EXCEPT ![s] = EmptyDevice]
  <2>1. devices[s].active /\ ~devices'[s].active
    BY <1>0, <1>2, <1>7, EmptyDeviceType DEF OwnsSlot, IInv, TypeOK
  <2>2. \E id \in DOMAIN Reg : /\ Reg[id] = StatusOf(s)
                               /\ Registry!Remove(id) /\ UNCHANGED next_device_id
    BY <1>1, <1>4, <1>5, <2>1, RegistryRemoves
  <2> QED BY <2>2, <1>3 DEF Reg, Registry!Abandon
<1> QED BY <1>1, <1>6, <1>7

\* The begin of detach closes the device, from quarantine too.
LEMMA DetachBeginMaps ==
  ASSUME IInv, IInv', SerialDetach, NEW t \in Threads, NEW s \in Slots,
         DetachBegin(t, s)
  PROVE  \E id \in DOMAIN Reg : Registry!Close(id)
<1>1. /\ threads[t].pc = "idle" /\ UNCHANGED next_device_id
      /\ devices[s].active /\ devices[s].transport_started
      /\ devices' = [devices EXCEPT ![s].transport_started = FALSE]
      /\ threads'[t].pc = "cancelling" /\ threads'[t].slot = s
      /\ \A v \in Threads \ {t} : threads'[v] = threads[v]
  BY DEF DetachBegin, IInv, TypeOK
<1>2. /\ \A u \in Slots : /\ devices'[u].active = devices[u].active
                          /\ devices'[u].device_id = devices[u].device_id
                          /\ devices'[u].quarantined = devices[u].quarantined
      /\ \A u \in Slots \ {s} :
            devices'[u].transport_started = devices[u].transport_started
      /\ ~devices'[s].transport_started
  BY <1>1 DEF IInv, TypeOK, Devices
<1>3. ASSUME NEW u \in Slots, u # s
      PROVE  StatusOf(u)' = StatusOf(u)
  <2>1. Starting(u)' <=> Starting(u)
    BY <1>1, <1>3, StartingElsewhere DEF Attaching
  <2> QED BY <1>2, <1>3, <2>1, SameStatus
<1>4. StatusOf(s) \in {"open", "quarantined"}
  BY <1>1, StatusValue DEF IInv, TypeOK
<1>5. ~Starting(s)'
  <2>1. \A v \in Threads \ {t} : Attaching(v) => threads[v].slot # s
    BY <1>1, OwnSlot DEF OwnsSlot, Attaching, Busy
  <2> QED BY <2>1, <1>1 DEF Starting, Attaching
<1>6. StatusOf(s)' = "closing"
  BY <1>2, <1>5 DEF StatusOf, Starting, Attaching
<1>7. \E id \in DOMAIN Reg :
         Registry!Move(id, {"open", "quarantined"}, "closing")
  BY <1>1, <1>2, <1>3, <1>4, <1>6, RegistryMoves
<1> QED BY <1>7 DEF Registry!Close

\* The end of detach removes the device or quarantines it.
LEMMA DetachFinishMaps ==
  ASSUME IInv, IInv', NEW t \in Threads, DetachFinish(t)
  PROVE  \E id \in DOMAIN Reg : Registry!Gone(id) \/ Registry!Quarantine(id)
<1>0. PICK s \in Slots : s = threads[t].slot
  BY DEF IInv, TypeOK
<1>1. /\ Busy(t) /\ ~Attaching(t) /\ ~Attaching(t)' /\ UNCHANGED next_device_id
      /\ \A v \in Threads \ {t} : threads'[v] = threads[v]
  BY DEF DetachFinish, Finished, IdleThread, Busy, Attaching, IInv, TypeOK
<1>2. OwnsSlot(t) /\ devices[s] \in Devices
  BY <1>1, OwnSlot DEF IInv, TypeOK
<1>3. \/ devices' = [devices EXCEPT ![s] = EmptyDevice]
      \/ devices' = [devices EXCEPT ![s].transport_started = TRUE,
                                    ![s].quarantined = TRUE]
  BY <1>0, <1>2 DEF DetachFinish, OwnsSlot
<1>4. StatusOf(s) = "closing"
  <2>1. ~Starting(s)
    BY <1>0, <1>1, WhoIsStarting
  <2> QED BY <2>1, <1>0, <1>2, StatusValue DEF OwnsSlot
<1>5. \A u \in Slots \ {s} : devices'[u] = devices[u]
  BY <1>3 DEF IInv, TypeOK
<1>6. ASSUME NEW u \in Slots \ {s}
      PROVE  StatusOf(u)' = StatusOf(u)
  <2>1. Starting(u)' <=> Starting(u)
    BY <1>1, StartingElsewhere
  <2> QED BY <1>5, <2>1, SameStatus
<1>7. CASE devices' = [devices EXCEPT ![s] = EmptyDevice]
  <2>1. devices[s].active /\ ~devices'[s].active
    BY <1>0, <1>2, <1>7, EmptyDeviceType DEF OwnsSlot, IInv, TypeOK
  <2>2. \E id \in DOMAIN Reg : /\ Reg[id] = StatusOf(s)
                               /\ Registry!Remove(id) /\ UNCHANGED next_device_id
    BY <1>1, <1>5, <1>6, <2>1, RegistryRemoves
  <2> QED BY <2>2, <1>4 DEF Reg, Registry!Gone
<1>8. CASE devices' = [devices EXCEPT ![s].transport_started = TRUE,
                                      ![s].quarantined = TRUE]
  <2>1. /\ devices'[s].active = devices[s].active
        /\ devices'[s].device_id = devices[s].device_id
        /\ devices'[s].transport_started /\ devices'[s].quarantined
        /\ devices[s].active
    BY <1>0, <1>2, <1>8 DEF OwnsSlot, IInv, TypeOK, Devices
  <2>2. StatusOf(s)' = "quarantined"
    BY <2>1 DEF StatusOf
  <2>3. \E id \in DOMAIN Reg : Registry!Move(id, {"closing"}, "quarantined")
    BY <1>1, <1>4, <1>5, <1>6, <2>1, <2>2, RegistryMoves
  <2> QED BY <2>3 DEF Registry!Quarantine
<1> QED BY <1>3, <1>7, <1>8

\* The operations on a client are not seen by the registry.
LEMMA OperationMaps ==
  ASSUME IInv, IInv', NEW s \in Slots, Operation(s)
  PROVE  UNCHANGED Registry!vars
<1>1. PICK c \in ClientStates : devices' = [devices EXCEPT ![s].client = c]
  BY OperationStep DEF SetClient
<1>2. UNCHANGED << next_device_id, threads >>
  BY OperationStep
<1>3. \A u \in Slots : /\ devices'[u].active = devices[u].active
                       /\ devices'[u].device_id = devices[u].device_id
                       /\ devices'[u].transport_started =
                            devices[u].transport_started
                       /\ devices'[u].quarantined = devices[u].quarantined
  BY <1>1 DEF IInv, TypeOK, Devices
<1>4. \A u \in Slots : StatusOf(u)' = StatusOf(u)
  BY <1>2, <1>3, SameStatus DEF Starting, Attaching
<1> QED BY <1>2, <1>3, <1>4, RegistryStutters

\* Every step of the broker is a step of the registry or is not seen.
LEMMA NextMaps ==
  ASSUME IInv, IInv', SerialDetach, [Next]_vars
  PROVE  [Registry!Next]_(Registry!vars)
<1>1. CASE UNCHANGED vars \/ OutputDone \/ \E p \in Ports : Replug(p)
  <2>1. UNCHANGED << devices, threads, next_device_id >>
    BY <1>1 DEF vars, OutputDone, Replug
  <2> QED BY <2>1, RegistryStutters DEF StatusOf
<1>2. ASSUME NEW t \in Threads, NEW p \in Ports, NEW s \in Slots,
             AttachReserve(t, p, s)
      PROVE  Registry!Next
  BY <1>2, AttachReserveMaps DEF Registry!Next
<1>3. ASSUME NEW t \in Threads, AttachFinish(t) \/ DetachFinish(t)
      PROVE  Registry!Next
  BY <1>3, AttachFinishMaps, DetachFinishMaps DEF Registry!Next, Reg
<1>4. ASSUME NEW t \in Threads, NEW s \in Slots, DetachBegin(t, s)
      PROVE  Registry!Next
  BY <1>4, DetachBeginMaps DEF Registry!Next, Reg
<1>5. ASSUME NEW t \in Threads, AttachStart(t) \/ DetachCancel(t)
      PROVE  UNCHANGED Registry!vars
  BY <1>5, TransportCallMaps
<1>6. ASSUME NEW s \in Slots, Operation(s)
      PROVE  UNCHANGED Registry!vars
  BY <1>6, OperationMaps
<1> QED BY <1>1, <1>2, <1>3, <1>4, <1>5, <1>6 DEF Next, Operation

\* Slots, threads and the reuse of slots hidden, the broker is the registry
\* of FidoRegistry: each device has an id of its own, given out once, and
\* goes through its life alone.
THEOREM BrokerImplementsRegistry ==
  ASSUME SerialDetach PROVE Spec => ImplementsRegistry
<1>1. Init => Registry!Init
  <2> SUFFICES ASSUME Init PROVE Registry!Init
    OBVIOUS
  <2>1. ActiveIds = {}
    BY DEF Init, EmptyDevice, ActiveIds
  <2> QED BY <2>1 DEF Init, Registry!Init
<1>2. IInv /\ IInv' /\ [Next]_vars => [Registry!Next]_(Registry!vars)
  BY NextMaps
<1> QED BY <1>1, <1>2, BrokerInvariant, PTL
        DEF Spec, ImplementsRegistry, Registry!Spec

==============================================================================
