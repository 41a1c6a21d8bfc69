--------------------------- MODULE InputRingProofs ---------------------------
(***************************************************************************)
(* Proofs about the input ring between the compositor and a client         *)
(* (InputRing), for every capacity and every number of inputs.             *)
(***************************************************************************)
EXTENDS InputRing, Integers, SequenceTheorems, TLAPS

-----------------------------------------------------------------------------
(* The inductive invariant                                                  *)

RecordType == [front : Nat, back : Nat, motion : BOOLEAN, focus : Nat]

InputType ==
  [motion : BOOLEAN, focus : Nat, result : {"dropped", "refused", "coalesced", "admitted"}]

RingTypes ==
  /\ ring \in [producer : Nat, consumer : Nat, wake : Nat, focus : Nat \ {0}]
  /\ ringSlots \in [0..(RingCapacity - 1) -> RecordType]
  /\ producer \in [pc : {"idle", "checked", "loaded", "replacing"}, record : RecordType,
                   consumer : Nat]
  /\ consumer \in [pc : {"idle", "copy", "copied"}, producer : Nat, next : Nat,
                   most : 0..PopMax, taken : Seq(RecordType)]
  /\ inputs \in Seq(InputType)
  /\ popped \in Seq(RecordType)

\* Where the consumer reads next, and what it has still to read.
Pos == IF consumer.pc = "idle" THEN ring.consumer ELSE consumer.next
Unread == Pos..(ring.producer - 1)
Rec(s) == ringSlots[At0(s)]

\* The inputs that have a record.
Made == IF producer.pc = "replacing" THEN Len(inputs) + 1 ELSE Len(inputs)

\* The producer is never a lap ahead, however stale the sequence it loaded.
Positions ==
  /\ ring.consumer <= Pos /\ Pos <= ring.producer
  /\ ring.producer <= ring.consumer + RingCapacity
  /\ consumer.pc # "idle" => consumer.producer <= ring.producer
  /\ consumer.pc = "copy" => consumer.next < consumer.producer
  /\ producer.pc \in {"loaded", "replacing"} => producer.consumer <= ring.consumer

\* A call that is under way: pop holds one record at most, and a record that is
\* being replaced is a motion.
Calls ==
  /\ consumer.pc = "idle" => consumer.taken = <<>>
  /\ (consumer.pc # "idle" /\ consumer.most = 0) =>
       Len(consumer.taken) = IF consumer.pc = "copy" THEN 0 ELSE 1
  /\ producer.pc # "idle" =>
       /\ producer.record.front = Len(inputs) + 1 /\ producer.record.back = Len(inputs) + 1
       /\ producer.record.focus <= ring.focus
  /\ producer.pc = "replacing" =>
       /\ ring.producer > 0 /\ producer.record.motion
       /\ Rec(ring.producer - 1).motion
       /\ Rec(ring.producer - 1).front = Len(inputs) + 1

\* The records are in the order of the inputs, those in the client's hands
\* before those to be read.
Ordered ==
  /\ \A s \in Unread : Rec(s).front <= Made
  /\ \A s, t \in Unread : s < t => Rec(s).front < Rec(t).front
  /\ \A i \in DOMAIN Handed : Handed[i].front <= Made
  /\ \A i, j \in DOMAIN Handed : i < j => Handed[i].front < Handed[j].front
  /\ \A i \in DOMAIN Handed : \A s \in Unread : Handed[i].front < Rec(s).front

CriticalsWhole ==
  /\ \A s \in Unread : ~Rec(s).motion => Rec(s).front = Rec(s).back
  /\ \A i \in DOMAIN Handed : ~Handed[i].motion => Handed[i].front = Handed[i].back

\* A critical input that was admitted is still to be read, in the client's
\* hands, or of a focus that is over.
CriticalsKept ==
  \A n \in DOMAIN inputs :
    /\ inputs[n].focus <= ring.focus
    /\ (inputs[n].result = "admitted" /\ ~inputs[n].motion /\ inputs[n].focus = ring.focus)
         => \/ \E s \in Unread : Rec(s) = Whole(n, FALSE, ring.focus)
            \/ \E i \in DOMAIN Handed : Handed[i] = Whole(n, FALSE, ring.focus)

RingInv == RingTypes /\ Positions /\ Calls /\ Ordered /\ CriticalsWhole /\ CriticalsKept

-----------------------------------------------------------------------------
(* Positions and slots                                                      *)

\* The slot of a position.
LEMMA SlotInRange ==
  ASSUME NEW a \in Nat
  PROVE  At0(a) \in 0..(RingCapacity - 1)
  BY RingAssumption DEF At0

\* Positions less than a lap apart have slots of their own.
LEMMA SlotsDiffer ==
  ASSUME NEW a \in Nat, NEW b \in Nat, a < b, b < a + RingCapacity
  PROVE  At0(a) # At0(b)
<1> SUFFICES ASSUME At0(a) = At0(b) PROVE FALSE
  OBVIOUS
<1> DEFINE n == RingCapacity
           p == a \div n
           q == b \div n
<1>1. n \in Nat \ {0}
  BY RingAssumption
<1>2. a = n * p + (a % n) /\ p \in Int
  BY <1>1
<1>3. b = n * q + (b % n) /\ q \in Int
  BY <1>1
<1>4. a % n = b % n
  BY DEF At0
<1> HIDE DEF n, p, q
<1>5. n * q - n * p > 0 /\ n * q - n * p < n
  BY <1>1, <1>2, <1>3, <1>4 DEF n
<1> QED BY <1>1, <1>2, <1>3, <1>5

\* What the client will have does not depend on where a call keeps it.
LEMMA HandedIsSeq ==
  ASSUME RingTypes
  PROVE  /\ Handed \in Seq(RecordType)
         /\ popped \in Seq(RecordType) /\ consumer.taken \in Seq(RecordType)
         /\ Len(Handed) = Len(popped) + Len(consumer.taken)
         /\ DOMAIN Handed = 1..Len(Handed) /\ Len(popped) \in Nat
         /\ \A i \in 1..Len(popped) : Handed[i] = popped[i]
         /\ Len(inputs) \in Nat /\ DOMAIN inputs = 1..Len(inputs)
<1>1. popped \in Seq(RecordType) /\ consumer.taken \in Seq(RecordType)
  BY DEF RingTypes
<1>2. Len(inputs) \in Nat /\ DOMAIN inputs = 1..Len(inputs)
  BY LenProperties DEF RingTypes
<1>3. /\ Handed \in Seq(RecordType)
      /\ Len(Handed) = Len(popped) + Len(consumer.taken)
      /\ \A i \in 1..(Len(popped) + Len(consumer.taken)) :
           Handed[i] = IF i <= Len(popped) THEN popped[i] ELSE consumer.taken[i - Len(popped)]
  BY <1>1, ConcatProperties DEF Handed
<1>4. Len(popped) \in Nat /\ Len(consumer.taken) \in Nat
  BY <1>1, LenProperties
<1> QED BY <1>1, <1>2, <1>3, <1>4, LenProperties

\* The positions, as numbers.
LEMMA PosFacts ==
  ASSUME RingInv
  PROVE  /\ ring.producer \in Nat /\ ring.consumer \in Nat /\ ring.focus \in Nat /\ Pos \in Nat
         /\ RingCapacity \in Nat \ {0} /\ Made \in Nat
         /\ ring.consumer <= Pos /\ Pos <= ring.producer
         /\ ring.producer <= ring.consumer + RingCapacity
         /\ \A s \in Unread : s \in Nat /\ Pos <= s /\ s < ring.producer
                              /\ Rec(s) \in RecordType
<1>1. /\ ring.producer \in Nat /\ ring.consumer \in Nat /\ ring.focus \in Nat /\ Pos \in Nat
      /\ RingCapacity \in Nat \ {0} /\ Made \in Nat
  BY RingAssumption, HandedIsSeq DEF RingInv, RingTypes, Pos, Made
<1>2. ASSUME NEW s \in Unread
      PROVE  s \in Nat /\ Pos <= s /\ s < ring.producer
  BY <1>1 DEF Unread
<1>3. ASSUME NEW s \in Unread PROVE Rec(s) \in RecordType
  BY <1>2, <1>3, SlotInRange DEF Rec, RingInv, RingTypes
<1> QED BY <1>1, <1>2, <1>3 DEF RingInv, Positions

\* A write of a slot leaves the record of every other unread position.
LEMMA OthersStay ==
  ASSUME RingInv, NEW p \in Nat, NEW r, ringSlots' = [ringSlots EXCEPT ![At0(p)] = r],
         p \in {ring.producer - 1, ring.producer},
         p = ring.producer => ring.producer < ring.consumer + RingCapacity
  PROVE  /\ ringSlots'[At0(p)] = r
         /\ \A s \in Unread : s # p => ringSlots'[At0(s)] = Rec(s)
<1>1. /\ \A s \in Unread : s \in Nat /\ Pos <= s /\ s < ring.producer
      /\ ring.producer \in Nat /\ ring.consumer \in Nat /\ Pos \in Nat
      /\ ring.consumer <= Pos /\ RingCapacity \in Nat \ {0}
      /\ ring.producer <= ring.consumer + RingCapacity
  BY PosFacts
<1>2. ringSlots \in [0..(RingCapacity - 1) -> RecordType]
  BY DEF RingInv, RingTypes
<1>3. At0(p) \in 0..(RingCapacity - 1)
  BY SlotInRange
<1>4. ASSUME NEW s \in Unread, s # p PROVE At0(s) # At0(p)
  <2>1. s \in Nat /\ s < p /\ p < s + RingCapacity
    BY <1>1, <1>4
  <2> QED BY <2>1, SlotsDiffer
<1>5. \A s \in Unread : At0(s) \in 0..(RingCapacity - 1)
  BY <1>1, SlotInRange
<1> QED BY <1>2, <1>3, <1>4, <1>5 DEF Rec

-----------------------------------------------------------------------------
(* What the steps do to the records                                         *)

\* The part of the invariant about the records and the inputs.
Records == Ordered /\ CriticalsWhole /\ CriticalsKept

\* An input that owes the client nothing: it is no critical input in the ring.
OwesNothing(e) == e.focus <= ring.focus /\ (e.result # "admitted" \/ e.motion)

\* A step that leaves the records to be read and those read as they are, except
\* that the newest may be a motion that becomes the input in hand.
LEMMA RecordsStay ==
  ASSUME RingInv,
         Handed' = Handed, DOMAIN Handed' = DOMAIN Handed, Unread' = Unread,
         Made' \in Nat, Made' >= Made,
         ring'.focus \in Nat, ring'.focus >= ring.focus,
         inputs' \in Seq(InputType),
         \A s \in Unread :
           \/ ringSlots'[At0(s)] = Rec(s)
           \/ /\ s = ring.producer - 1
              /\ Rec(s).motion /\ ringSlots'[At0(s)].motion
              /\ ringSlots'[At0(s)].front = Made',
         \A n \in DOMAIN inputs' : n \in DOMAIN inputs \/ OwesNothing(inputs'[n]),
         \A n \in DOMAIN inputs : inputs'[n] = inputs[n]
  PROVE  Records'
<1>1. /\ ring.producer \in Nat /\ Made \in Nat /\ ring.focus \in Nat
      /\ \A s \in Unread : s \in Nat /\ s < ring.producer /\ Rec(s) \in RecordType
  BY PosFacts
<1>2. \A i \in DOMAIN Handed : Handed[i] \in RecordType
  BY HandedIsSeq, ElementOfSeq DEF RingInv
<1>3. Ordered /\ CriticalsWhole /\ CriticalsKept
  BY DEF RingInv
<1>4. \A s \in Unread : Rec(s)' = ringSlots'[At0(s)]
  BY DEF Rec, At0
<1>5. \A s \in Unread : Rec(s)'.front <= Made' /\ Rec(s)'.front >= Rec(s).front
  BY <1>1, <1>3, <1>4 DEF Ordered, RecordType
<1>6. \A s, t \in Unread : s < t => Rec(s)'.front < Rec(t)'.front
  <2> SUFFICES ASSUME NEW s \in Unread, NEW t \in Unread, s < t
               PROVE  Rec(s)'.front < Rec(t)'.front
    OBVIOUS
  <2>1. s # ring.producer - 1
    BY <1>1
  <2>2. Rec(s)' = Rec(s) /\ Rec(s).front < Rec(t).front /\ Rec(t).front <= Rec(t)'.front
    BY <1>3, <1>4, <1>5, <2>1 DEF Ordered
  <2>3. Rec(s).front \in Nat /\ Rec(t).front \in Nat
    BY <1>1 DEF RecordType
  <2>4. Rec(t)'.front \in Nat
    BY <1>4, <2>3
  <2> QED BY <2>2, <2>3, <2>4
<1>7. \A i \in DOMAIN Handed : \A s \in Unread : Handed[i].front < Rec(s)'.front
  <2> SUFFICES ASSUME NEW i \in DOMAIN Handed, NEW s \in Unread
               PROVE  Handed[i].front < Rec(s)'.front
    OBVIOUS
  <2>1. Handed[i].front < Rec(s).front /\ Rec(s).front <= Rec(s)'.front
    BY <1>3, <1>5 DEF Ordered
  <2>2. Handed[i].front \in Nat /\ Rec(s).front \in Nat
    BY <1>1, <1>2 DEF RecordType
  <2>3. Rec(s)'.front \in Nat
    BY <1>4, <2>2
  <2> QED BY <2>1, <2>2, <2>3
<1>8. \A i \in DOMAIN Handed : Handed[i].front <= Made'
  BY <1>1, <1>2, <1>3 DEF Ordered, RecordType
<1>9. Ordered'
  <2>1. \A i, j \in DOMAIN Handed : i < j => Handed[i].front < Handed[j].front
    BY <1>3 DEF Ordered
  <2> QED BY <1>5, <1>6, <1>7, <1>8, <2>1 DEF Ordered
<1>10. CriticalsWhole'
  <2>1. \A s \in Unread : ~Rec(s)'.motion => Rec(s)' = Rec(s)
    BY <1>4
  <2> QED BY <1>3, <2>1 DEF CriticalsWhole
<1>11. CriticalsKept'
  <2> SUFFICES ASSUME NEW n \in DOMAIN inputs'
               PROVE  /\ inputs'[n].focus <= ring'.focus
                      /\ (/\ inputs'[n].result = "admitted" /\ ~inputs'[n].motion
                          /\ inputs'[n].focus = ring'.focus)
                         => \/ \E s \in Unread : Rec(s)' = Whole(n, FALSE, ring'.focus)
                            \/ \E i \in DOMAIN Handed : Handed[i] = Whole(n, FALSE, ring'.focus)
    BY DEF CriticalsKept, Whole
  <2>1. CASE n \notin DOMAIN inputs
    <3>1. OwesNothing(inputs'[n])
      BY <2>1
    <3>2. inputs'[n].focus <= ring.focus
      BY <3>1 DEF OwesNothing
    <3>3. n \in DOMAIN inputs' /\ ~(inputs'[n].result = "admitted" /\ ~inputs'[n].motion)
      BY <3>1 DEF OwesNothing
    <3>4. inputs'[n].focus \in Nat
      <4>1. n \in 1..Len(inputs')
        BY LenProperties
      <4>2. inputs'[n] \in InputType
        BY <4>1, ElementOfSeq
      <4> QED BY <4>2 DEF InputType
    <3>5. inputs'[n].focus <= ring'.focus
      BY <1>1, <3>2, <3>4
    <3> QED BY <3>3, <3>5
  <2>2. CASE n \in DOMAIN inputs
    <3>1. inputs'[n] = inputs[n] /\ inputs[n] \in InputType
      BY <2>2, ElementOfSeq, LenProperties DEF RingInv, RingTypes
    <3>2. inputs[n].focus <= ring.focus /\ inputs[n].focus \in Nat
      BY <1>3, <2>2, <3>1 DEF CriticalsKept, InputType
    <3>3. inputs'[n].focus <= ring'.focus
      BY <1>1, <3>1, <3>2
    <3>4. ASSUME inputs'[n].result = "admitted", ~inputs'[n].motion,
                 inputs'[n].focus = ring'.focus
          PROVE  \/ \E s \in Unread : Rec(s)' = Whole(n, FALSE, ring'.focus)
                 \/ \E i \in DOMAIN Handed : Handed[i] = Whole(n, FALSE, ring'.focus)
      <4>1. ring'.focus = ring.focus
        BY <1>1, <3>1, <3>2, <3>4
      <4>2. \/ \E s \in Unread : Rec(s) = Whole(n, FALSE, ring.focus)
            \/ \E i \in DOMAIN Handed : Handed[i] = Whole(n, FALSE, ring.focus)
        BY <1>3, <2>2, <3>1, <3>4, <4>1 DEF CriticalsKept
      <4>3. \A s \in Unread : Rec(s) = Whole(n, FALSE, ring.focus) => Rec(s)' = Rec(s)
        BY <1>4 DEF Whole
      <4> QED BY <4>1, <4>2, <4>3
    <3> QED BY <3>3, <3>4
  <2> QED BY <2>1, <2>2
<1> QED BY <1>9, <1>10, <1>11 DEF Records

\* What publish returns is the last of the inputs.
LEMMA InputsGrow ==
  ASSUME RingTypes, NEW e \in InputType, inputs' = Append(inputs, e)
  PROVE  /\ inputs' \in Seq(InputType) /\ Len(inputs') = Len(inputs) + 1
         /\ DOMAIN inputs' = 1..(Len(inputs) + 1) /\ DOMAIN inputs = 1..Len(inputs)
         /\ inputs'[Len(inputs) + 1] = e
         /\ \A n \in DOMAIN inputs : inputs'[n] = inputs[n]
         /\ \A n \in DOMAIN inputs' : n \in DOMAIN inputs \/ n = Len(inputs) + 1
<1>1. inputs \in Seq(InputType) /\ Len(inputs) \in Nat /\ DOMAIN inputs = 1..Len(inputs)
  BY LenProperties DEF RingTypes
<1>2. /\ inputs' \in Seq(InputType) /\ Len(inputs') = Len(inputs) + 1
      /\ \A i \in 1..Len(inputs) : inputs'[i] = inputs[i]
      /\ inputs'[Len(inputs) + 1] = e
  BY <1>1, AppendProperties
<1>3. DOMAIN inputs' = 1..(Len(inputs) + 1)
  BY <1>1, <1>2, LenProperties
<1>4. \A n \in 1..(Len(inputs) + 1) : n \in 1..Len(inputs) \/ n = Len(inputs) + 1
  BY <1>1
<1> QED BY <1>1, <1>2, <1>3, <1>4

\* The result of a call of publish that is under way.
LEMMA Result ==
  ASSUME RingInv, producer.pc # "idle", NEW result, Returns(result),
         result \in {"dropped", "refused", "coalesced", "admitted"}
  PROVE  \E e \in InputType :
           /\ inputs' = Append(inputs, e)
           /\ e.result = result /\ e.motion = producer.record.motion
           /\ e.focus = producer.record.focus /\ e.focus <= ring.focus
<1> DEFINE e == [motion |-> producer.record.motion, focus |-> producer.record.focus,
                 result |-> result]
<1>1. producer.record \in RecordType /\ producer.record.focus <= ring.focus
  BY DEF RingInv, RingTypes, Calls
<1>2. e \in InputType /\ e.result = result /\ e.motion = producer.record.motion
      /\ e.focus = producer.record.focus
  BY <1>1 DEF RecordType, InputType
<1>3. inputs' = Append(inputs, e)
  BY DEF Returns
<1> HIDE DEF e
<1> QED BY <1>1, <1>2, <1>3

LEMMA WholeType ==
  ASSUME NEW n \in Nat, NEW motion \in BOOLEAN, NEW focus \in Nat
  PROVE  /\ Whole(n, motion, focus) \in RecordType
         /\ Whole(n, motion, focus).front = n /\ Whole(n, motion, focus).back = n
         /\ Whole(n, motion, focus).motion = motion /\ Whole(n, motion, focus).focus = focus
  BY DEF Whole, RecordType

ProducerType ==
  [pc : {"idle", "checked", "loaded", "replacing"}, record : RecordType, consumer : Nat]

LEMMA IdleTypes ==
  /\ ProducerIdle \in ProducerType /\ ProducerIdle.pc = "idle" /\ ProducerIdle.consumer = 0
  /\ NoRecord \in RecordType
<1>1. NoRecord \in RecordType
  BY WholeType DEF NoRecord
<1> QED BY <1>1 DEF ProducerIdle, ProducerType

-----------------------------------------------------------------------------
(* One lemma for each step                                                  *)

LEMMA BeginKeeps == RingInv /\ PublishBegin => RingInv'
<1> SUFFICES ASSUME RingInv, PublishBegin PROVE RingInv'
  OBVIOUS
<1>1. /\ producer.pc = "idle" /\ Len(inputs) \in Nat /\ ring.focus \in Nat
      /\ UNCHANGED <<ring, ringSlots, consumer, inputs, popped>>
  BY HandedIsSeq, PosFacts DEF PublishBegin, RingInv
<1>2. PICK motion \in BOOLEAN, focus \in {ring.focus, ring.focus - 1} \ {0} :
        producer' = [ProducerIdle EXCEPT !.pc = "checked",
                       !.record = Whole(Len(inputs) + 1, motion, focus)]
  BY DEF PublishBegin
<1> DEFINE r == Whole(Len(inputs) + 1, motion, focus)
<1>3. focus \in Nat /\ focus <= ring.focus /\ Len(inputs) + 1 \in Nat
  <2>1. ring.focus > 0
    BY DEF RingInv, RingTypes
  <2> QED BY <1>1, <1>2, <2>1
<1>4. r \in RecordType /\ r.front = Len(inputs) + 1 /\ r.back = Len(inputs) + 1
      /\ r.focus = focus
  BY <1>2, <1>3, WholeType
<1> HIDE DEF r
<1>5. /\ producer' \in ProducerType /\ producer'.pc = "checked" /\ producer'.record = r
  BY <1>2, <1>4, IdleTypes DEF ProducerType, r
<1>6. RingTypes'
  BY <1>1, <1>5 DEF RingInv, RingTypes, ProducerType
<1>7. Pos' = Pos /\ Unread' = Unread /\ Handed' = Handed
  BY <1>1 DEF Pos, Unread, Handed
<1>8. Positions'
  BY <1>1, <1>5, <1>7 DEF RingInv, Positions
<1>9. Calls'
  BY <1>1, <1>3, <1>4, <1>5 DEF RingInv, Calls
<1>10. Made' = Made /\ Made \in Nat
  BY <1>1, <1>5 DEF Made
<1>11. Records'
  BY <1>1, <1>7, <1>10, RecordsStay DEF RingInv, RingTypes, Rec
<1> QED BY <1>6, <1>8, <1>9, <1>11 DEF RingInv, Records

LEMMA LoadKeeps == RingInv /\ PublishLoad => RingInv'
<1> SUFFICES ASSUME RingInv, PublishLoad PROVE RingInv'
  OBVIOUS
<1>1. /\ producer.pc = "checked" /\ Len(inputs) \in Nat /\ ring.focus \in Nat
      /\ ring.consumer \in Nat
      /\ UNCHANGED <<ring, ringSlots, consumer, inputs, popped>>
  BY HandedIsSeq, PosFacts DEF PublishLoad, RingInv
<1>2. producer \in ProducerType
  BY DEF RingInv, RingTypes, ProducerType
<1>3. /\ producer' \in ProducerType /\ producer'.pc = "loaded"
      /\ producer'.record = producer.record /\ producer'.consumer = ring.consumer
  BY <1>1, <1>2 DEF ProducerType, PublishLoad
<1>4. RingTypes'
  BY <1>1, <1>3 DEF RingInv, RingTypes, ProducerType
<1>5. Pos' = Pos /\ Unread' = Unread /\ Handed' = Handed
  BY <1>1 DEF Pos, Unread, Handed
<1>6. Positions'
  BY <1>1, <1>3, <1>5 DEF RingInv, Positions
<1>7. Calls'
  BY <1>1, <1>3 DEF RingInv, Calls
<1>8. Made' = Made /\ Made \in Nat
  BY <1>1, <1>3 DEF Made
<1>9. Records'
  BY <1>1, <1>5, <1>8, RecordsStay DEF RingInv, RingTypes, Rec
<1> QED BY <1>4, <1>6, <1>7, <1>9 DEF RingInv, Records

\* publish returns without the ring: the focus is over, or the ring is full.
LEMMA ReturnKeeps == RingInv /\ (PublishStale \/ PublishRefused) => RingInv'
<1> SUFFICES ASSUME RingInv, PublishStale \/ PublishRefused PROVE RingInv'
  OBVIOUS
<1>1. /\ producer.pc \in {"checked", "loaded"} /\ Len(inputs) \in Nat /\ ring.focus \in Nat
      /\ UNCHANGED <<ring, ringSlots, consumer, popped>>
  BY HandedIsSeq, PosFacts DEF PublishStale, PublishRefused, RingInv
<1>2. PICK result \in {"dropped", "refused"} : Returns(result)
  BY DEF PublishStale, PublishRefused
<1>3. PICK e \in InputType : /\ inputs' = Append(inputs, e)
                             /\ e.result = result /\ e.focus <= ring.focus
  BY <1>1, <1>2, Result
<1>4. producer' \in ProducerType /\ producer'.pc = "idle"
  BY <1>2, IdleTypes DEF Returns
<1>5. /\ inputs' \in Seq(InputType) /\ Len(inputs') = Len(inputs) + 1
      /\ inputs'[Len(inputs) + 1] = e
      /\ \A n \in DOMAIN inputs : inputs'[n] = inputs[n]
      /\ \A n \in DOMAIN inputs' : n \in DOMAIN inputs \/ n = Len(inputs) + 1
  BY <1>3, InputsGrow DEF RingInv
<1>6. RingTypes'
  BY <1>1, <1>4, <1>5 DEF RingInv, RingTypes, ProducerType
<1>7. Pos' = Pos /\ Unread' = Unread /\ Handed' = Handed
  BY <1>1 DEF Pos, Unread, Handed
<1>8. Positions'
  BY <1>1, <1>4, <1>7 DEF RingInv, Positions
<1>9. Calls'
  BY <1>1, <1>4 DEF RingInv, Calls
<1>10. Made' = Made + 1 /\ Made \in Nat
  BY <1>1, <1>4, <1>5 DEF Made
<1>11. OwesNothing(e)
  BY <1>2, <1>3 DEF OwesNothing
<1>12. Records'
  BY <1>1, <1>5, <1>7, <1>10, <1>11, RecordsStay DEF RingInv, RingTypes, Rec
<1> QED BY <1>6, <1>8, <1>9, <1>12 DEF RingInv, Records

LEMMA MoveFocusKeeps == RingInv /\ MoveFocus => RingInv'
<1> SUFFICES ASSUME RingInv, MoveFocus PROVE RingInv'
  OBVIOUS
<1>1. /\ producer.pc = "idle" /\ Len(inputs) \in Nat /\ ring.focus \in Nat
      /\ UNCHANGED <<ringSlots, producer, consumer, inputs, popped>>
  BY HandedIsSeq, PosFacts DEF MoveFocus, RingInv
<1>2. ring \in [producer : Nat, consumer : Nat, wake : Nat, focus : Nat \ {0}]
  BY DEF RingInv, RingTypes
<1>3. /\ ring' \in [producer : Nat, consumer : Nat, wake : Nat, focus : Nat \ {0}]
      /\ ring'.producer = ring.producer /\ ring'.consumer = ring.consumer
      /\ ring'.focus = ring.focus + 1
  BY <1>1, <1>2 DEF MoveFocus
<1>4. RingTypes'
  BY <1>1, <1>3 DEF RingInv, RingTypes
<1>5. Pos' = Pos /\ Unread' = Unread /\ Handed' = Handed
  BY <1>1, <1>3 DEF Pos, Unread, Handed
<1>6. Positions'
  BY <1>1, <1>3, <1>5 DEF RingInv, Positions
<1>7. Calls'
  BY <1>1, <1>3 DEF RingInv, Calls
<1>8. Made' = Made /\ Made \in Nat
  BY <1>1 DEF Made
<1>9. Records'
  BY <1>1, <1>3, <1>5, <1>8, RecordsStay DEF RingInv, RingTypes, Rec
<1> QED BY <1>4, <1>6, <1>7, <1>9 DEF RingInv, Records

\* The first half of a replacement: the newest record is a motion, and becomes
\* the motion in hand even if the consumer has read it.
LEMMA ReplaceFrontKeeps == RingInv /\ ReplaceFront => RingInv'
<1> SUFFICES ASSUME RingInv, ReplaceFront PROVE RingInv'
  OBVIOUS
<1> DEFINE p == ring.producer - 1
           r == [producer.record EXCEPT !.back = ringSlots[Newest].back]
<1>1. /\ producer.pc = "loaded" /\ Len(inputs) \in Nat /\ ring.focus \in Nat
      /\ UNCHANGED <<ring, consumer, inputs, popped>>
  BY HandedIsSeq, PosFacts DEF ReplaceFront, RingInv
<1>2. ring.producer \in Nat /\ RingCapacity \in Nat \ {0} /\ producer \in ProducerType
  BY PosFacts DEF RingInv, RingTypes, ProducerType
<1>3. ring.producer > 0 /\ p \in Nat
  BY <1>2 DEF ReplaceFront, Full, ProducerType
<1>4. /\ Newest = At0(p) /\ Newest \in 0..(RingCapacity - 1)
      /\ ringSlots[Newest] \in RecordType
  BY <1>3, SlotInRange DEF Newest, RingInv, RingTypes
<1>5. producer.record.motion /\ ringSlots[Newest].motion
  BY DEF ReplaceFront, MayReplace
<1>6. /\ producer.record \in RecordType /\ producer.record.front = Len(inputs) + 1
      /\ producer.record.back = Len(inputs) + 1 /\ producer.record.focus <= ring.focus
  BY <1>1, <1>2 DEF RingInv, Calls, ProducerType
<1>7. r \in RecordType /\ r.motion /\ r.front = Len(inputs) + 1
  BY <1>4, <1>5, <1>6 DEF RecordType
<1>8. ringSlots' = [ringSlots EXCEPT ![At0(p)] = r]
  BY <1>4 DEF ReplaceFront
<1> HIDE DEF r
<1>9. /\ ringSlots'[At0(p)] = r
      /\ \A s \in Unread : s # p => ringSlots'[At0(s)] = Rec(s)
  <2>1. p # ring.producer
    BY <1>2
  <2> HIDE DEF p
  <2>2. p \in {ring.producer - 1, ring.producer}
    BY DEF p
  <2> QED BY <1>3, <1>8, <2>1, <2>2, OthersStay
<1>10. /\ producer' \in ProducerType /\ producer'.pc = "replacing"
       /\ producer'.record = producer.record /\ producer'.consumer = producer.consumer
  BY <1>2 DEF ProducerType, ReplaceFront
<1>11. RingTypes'
  BY <1>1, <1>7, <1>8, <1>10 DEF RingInv, RingTypes, ProducerType
<1>12. Pos' = Pos /\ Unread' = Unread /\ Handed' = Handed
  BY <1>1 DEF Pos, Unread, Handed
<1>13. Positions'
  BY <1>1, <1>10, <1>12 DEF RingInv, Positions
<1>14. Rec(ring.producer - 1)' = r
  BY <1>1, <1>9 DEF Rec, At0
<1>15. Calls'
  BY <1>1, <1>3, <1>5, <1>6, <1>7, <1>10, <1>14 DEF RingInv, Calls
<1>16. Made' = Len(inputs) + 1 /\ Made = Len(inputs)
  BY <1>1, <1>10 DEF Made
<1>17. \A s \in Unread : s = p => Rec(s).motion
  BY <1>4, <1>5 DEF Rec
<1>18. Records'
  BY <1>1, <1>7, <1>9, <1>12, <1>16, <1>17, RecordsStay DEF RingInv, RingTypes
<1> QED BY <1>11, <1>13, <1>15, <1>18 DEF RingInv, Records

\* The second half, after which the input is coalesced.
LEMMA ReplaceBackKeeps == RingInv /\ ReplaceBack => RingInv'
<1> SUFFICES ASSUME RingInv, ReplaceBack PROVE RingInv'
  OBVIOUS
<1> DEFINE p == ring.producer - 1
           r == producer.record
<1>1. /\ producer.pc = "replacing" /\ Len(inputs) \in Nat /\ ring.focus \in Nat
      /\ UNCHANGED <<ring, consumer, popped>>
  BY HandedIsSeq, PosFacts DEF ReplaceBack, RingInv
<1>2. ring.producer \in Nat /\ RingCapacity \in Nat \ {0} /\ producer \in ProducerType
  BY PosFacts DEF RingInv, RingTypes, ProducerType
<1>3. /\ ring.producer > 0 /\ p \in Nat /\ r.motion /\ Rec(p).motion
      /\ r.front = Len(inputs) + 1 /\ r \in RecordType
  BY <1>1, <1>2 DEF RingInv, Calls, ProducerType
<1>4. ringSlots' = [ringSlots EXCEPT ![At0(p)] = r]
  BY DEF ReplaceBack, Newest
<1>5. PICK e \in InputType : /\ inputs' = Append(inputs, e)
                             /\ e.result = "coalesced" /\ e.focus <= ring.focus
  BY <1>1, Result DEF ReplaceBack
<1>6. producer' \in ProducerType /\ producer'.pc = "idle"
  BY IdleTypes DEF Returns, ReplaceBack
<1> HIDE DEF r
<1>7. /\ ringSlots'[At0(p)] = r
      /\ \A s \in Unread : s # p => ringSlots'[At0(s)] = Rec(s)
  <2>1. p # ring.producer
    BY <1>2
  <2> HIDE DEF p
  <2>2. p \in {ring.producer - 1, ring.producer}
    BY DEF p
  <2> QED BY <1>3, <1>4, <2>1, <2>2, OthersStay
<1>8. /\ inputs' \in Seq(InputType) /\ Len(inputs') = Len(inputs) + 1
      /\ inputs'[Len(inputs) + 1] = e
      /\ \A n \in DOMAIN inputs : inputs'[n] = inputs[n]
      /\ \A n \in DOMAIN inputs' : n \in DOMAIN inputs \/ n = Len(inputs) + 1
  BY <1>5, InputsGrow DEF RingInv
<1>9. RingTypes'
  BY <1>1, <1>3, <1>4, <1>6, <1>8 DEF RingInv, RingTypes, ProducerType
<1>10. Pos' = Pos /\ Unread' = Unread /\ Handed' = Handed
  BY <1>1 DEF Pos, Unread, Handed
<1>11. Positions'
  BY <1>1, <1>6, <1>10 DEF RingInv, Positions
<1>12. Calls'
  BY <1>1, <1>6 DEF RingInv, Calls
<1>13. Made' = Len(inputs) + 1 /\ Made = Len(inputs) + 1
  BY <1>1, <1>6, <1>8 DEF Made
<1>14. OwesNothing(e)
  BY <1>5 DEF OwesNothing
<1>15. Records'
  BY <1>1, <1>3, <1>7, <1>8, <1>10, <1>13, <1>14, RecordsStay DEF RingInv, RingTypes
<1> QED BY <1>9, <1>11, <1>12, <1>15 DEF RingInv, Records

\* The record is copied to a slot that the consumer has read, so that nothing to
\* be read is lost, and it is the newest of them.
LEMMA StoreKeeps == RingInv /\ PublishStore => RingInv'
<1> SUFFICES ASSUME RingInv, PublishStore PROVE RingInv'
  OBVIOUS
<1> DEFINE p == ring.producer
           r == producer.record
<1>1. /\ producer.pc = "loaded" /\ Len(inputs) \in Nat /\ ring.focus \in Nat
      /\ UNCHANGED <<consumer, popped>>
  BY HandedIsSeq, PosFacts DEF PublishStore, RingInv
<1>2. /\ p \in Nat /\ RingCapacity \in Nat \ {0} /\ producer \in ProducerType
      /\ ring.consumer \in Nat /\ Pos \in Nat
      /\ ring \in [producer : Nat, consumer : Nat, wake : Nat, focus : Nat \ {0}]
  BY PosFacts DEF RingInv, RingTypes, ProducerType
<1>3. /\ r.front = Len(inputs) + 1 /\ r.back = Len(inputs) + 1 /\ r \in RecordType
  BY <1>1, <1>2 DEF RingInv, Calls, ProducerType
<1>4. ringSlots' = [ringSlots EXCEPT ![At0(p)] = r]
  BY DEF PublishStore
<1>5. p < ring.consumer + RingCapacity
  <2>1. producer.consumer \in Nat /\ producer.consumer <= ring.consumer
    BY <1>1, <1>2 DEF RingInv, Positions, ProducerType
  <2>2. ~(p - producer.consumer >= RingCapacity)
    BY DEF PublishStore, Full
  <2> QED BY <1>2, <2>1, <2>2
<1>6. PICK e \in InputType : /\ inputs' = Append(inputs, e)
                             /\ e.result = "admitted" /\ e.motion = r.motion
                             /\ e.focus = r.focus /\ e.focus <= ring.focus
  BY <1>1, Result DEF PublishStore
<1>7. producer' \in ProducerType /\ producer'.pc = "idle"
  BY IdleTypes DEF Returns, PublishStore
<1>8. /\ ring' \in [producer : Nat, consumer : Nat, wake : Nat, focus : Nat \ {0}]
      /\ ring'.producer = p + 1 /\ ring'.consumer = ring.consumer
      /\ ring'.focus = ring.focus
  <2> DEFINE w == IF ring.producer = producer.consumer THEN ring.wake + 1 ELSE ring.wake
  <2>1. w \in Nat /\ p + 1 \in Nat
    BY <1>2
  <2>2. ring' = [ring EXCEPT !.producer = p + 1, !.wake = w]
    BY DEF PublishStore
  <2> HIDE DEF w
  <2> QED BY <1>2, <2>1, <2>2
<1> HIDE DEF r
<1>9. /\ ringSlots'[At0(p)] = r
      /\ \A s \in Unread : s # p => ringSlots'[At0(s)] = Rec(s)
  <2> HIDE DEF p
  <2>1. p \in {ring.producer - 1, ring.producer}
    BY DEF p
  <2> QED BY <1>2, <1>4, <1>5, <2>1, OthersStay DEF p
<1>10. /\ inputs' \in Seq(InputType) /\ Len(inputs') = Len(inputs) + 1
       /\ inputs'[Len(inputs) + 1] = e
       /\ \A n \in DOMAIN inputs : inputs'[n] = inputs[n]
       /\ \A n \in DOMAIN inputs' : n \in DOMAIN inputs \/ n = Len(inputs) + 1
  BY <1>6, InputsGrow DEF RingInv
<1>11. RingTypes'
  BY <1>1, <1>3, <1>4, <1>7, <1>8, <1>10 DEF RingInv, RingTypes, ProducerType
<1>12. Pos' = Pos /\ Handed' = Handed
  BY <1>1, <1>8 DEF Pos, Handed
<1>13. Positions'
  <2>1. /\ ring.consumer <= Pos /\ Pos <= p
        /\ consumer.pc # "idle" => consumer.producer <= p
        /\ consumer.pc = "copy" => consumer.next < consumer.producer
    BY DEF RingInv, Positions
  <2>2. ring'.consumer <= Pos' /\ Pos' <= ring'.producer
    BY <1>2, <1>8, <1>12, <2>1
  <2>3. ring'.producer <= ring'.consumer + RingCapacity
    BY <1>2, <1>5, <1>8
  <2>4. consumer.pc # "idle" => consumer.producer <= ring'.producer
    BY <1>2, <1>8, <2>1 DEF RingInv, RingTypes
  <2> QED BY <1>1, <1>7, <2>1, <2>2, <2>3, <2>4 DEF Positions
<1>14. Calls'
  BY <1>1, <1>7 DEF RingInv, Calls
<1>15. Made' = Len(inputs) + 1 /\ Made = Len(inputs)
  BY <1>1, <1>7, <1>10 DEF Made
<1>16. \A s \in Unread : /\ s \in Nat /\ s < p /\ Rec(s)' = Rec(s) /\ s \in Unread'
                         /\ Rec(s) \in RecordType
  <2>1. \A s \in Unread : s \in Nat /\ s < p /\ Rec(s) \in RecordType
    BY PosFacts
  <2>2. \A s \in Unread : Rec(s)' = Rec(s)
    BY <1>2, <1>9, <2>1 DEF Rec, At0
  <2>3. \A s \in Unread : s \in Unread'
    BY <1>2, <1>8, <1>12 DEF Unread
  <2> QED BY <2>1, <2>2, <2>3
<1>17. \A s \in Unread' : s \in Unread \/ s = p
  BY <1>2, <1>8, <1>12 DEF Unread
<1>18. \A g : g = p => g \in Unread' /\ Rec(g)' = r
  <2>1. Pos <= p
    BY DEF RingInv, Positions
  <2>2. \A g : g = p => g \in Unread'
    BY <1>2, <1>8, <1>12, <2>1 DEF Unread
  <2>3. \A g : g = p => Rec(g)' = r
    BY <1>9 DEF Rec, At0
  <2> QED BY <2>2, <2>3
<1>19. \A i \in DOMAIN Handed : Handed[i] \in RecordType
  BY HandedIsSeq, ElementOfSeq DEF RingInv
<1>20. Ordered /\ CriticalsWhole /\ CriticalsKept
  BY DEF RingInv
<1>21. Ordered'
  <2>1. \A s \in Unread : Rec(s).front <= Len(inputs) /\ Rec(s).front \in Nat
    BY <1>15, <1>16, <1>20 DEF Ordered, RecordType
  <2>2. \A i \in DOMAIN Handed : Handed[i].front <= Len(inputs) /\ Handed[i].front \in Nat
    BY <1>15, <1>19, <1>20 DEF Ordered, RecordType
  <2>3. \A s \in Unread' : Rec(s)'.front <= Made'
    BY <1>1, <1>3, <1>15, <1>16, <1>17, <1>18, <2>1
  <2>4. \A s, t \in Unread' : s < t => Rec(s)'.front < Rec(t)'.front
    <3> SUFFICES ASSUME NEW s \in Unread', NEW t \in Unread', s < t
                 PROVE  Rec(s)'.front < Rec(t)'.front
      OBVIOUS
    <3>1. s \in Unread
      BY <1>2, <1>16, <1>17
    <3>2. CASE t \in Unread
      BY <1>16, <1>20, <3>1, <3>2 DEF Ordered
    <3>3. CASE t = p
      BY <1>1, <1>3, <1>16, <1>18, <2>1, <3>1, <3>3
    <3> QED BY <1>17, <3>2, <3>3
  <2>5. \A i \in DOMAIN Handed : Handed[i].front <= Made'
    BY <1>1, <1>15, <2>2
  <2>6. \A i, j \in DOMAIN Handed : i < j => Handed[i].front < Handed[j].front
    BY <1>20 DEF Ordered
  <2>7. \A i \in DOMAIN Handed : \A s \in Unread' : Handed[i].front < Rec(s)'.front
    <3> SUFFICES ASSUME NEW i \in DOMAIN Handed, NEW s \in Unread'
                 PROVE  Handed[i].front < Rec(s)'.front
      OBVIOUS
    <3>1. CASE s \in Unread
      BY <1>16, <1>20, <3>1 DEF Ordered
    <3>2. CASE s = p
      BY <1>1, <1>3, <1>18, <2>2, <3>2
    <3> QED BY <1>17, <3>1, <3>2
  <2> QED BY <1>12, <2>3, <2>4, <2>5, <2>6, <2>7 DEF Ordered
<1>22. CriticalsWhole'
  <2>1. \A s \in Unread' : ~Rec(s)'.motion => Rec(s)'.front = Rec(s)'.back
    BY <1>3, <1>16, <1>17, <1>18, <1>20 DEF CriticalsWhole
  <2> QED BY <1>12, <1>20, <2>1 DEF CriticalsWhole
<1>23. CriticalsKept'
  <2> SUFFICES ASSUME NEW n \in DOMAIN inputs'
               PROVE  /\ inputs'[n].focus <= ring.focus
                      /\ (/\ inputs'[n].result = "admitted" /\ ~inputs'[n].motion
                          /\ inputs'[n].focus = ring.focus)
                         => \/ \E s \in Unread' : Rec(s)' = Whole(n, FALSE, ring.focus)
                            \/ \E i \in DOMAIN Handed : Handed[i] = Whole(n, FALSE, ring.focus)
    BY <1>8, <1>12 DEF CriticalsKept, Whole
  <2>1. CASE n \in DOMAIN inputs
    <3>1. inputs'[n] = inputs[n]
      BY <1>10, <2>1
    <3>2. ASSUME \E s \in Unread : Rec(s) = Whole(n, FALSE, ring.focus)
          PROVE  \E s \in Unread' : Rec(s)' = Whole(n, FALSE, ring.focus)
      BY <1>16, <3>2
    <3> QED BY <1>20, <2>1, <3>1, <3>2 DEF CriticalsKept
  <2>2. CASE n = Len(inputs) + 1
    <3>1. inputs'[n] = e
      BY <1>10, <2>2
    <3>2. ASSUME ~e.motion, e.focus = ring.focus
          PROVE  r = Whole(n, FALSE, ring.focus)
      <4>1. r.motion = FALSE /\ r.focus = ring.focus /\ r.front = n /\ r.back = n
        BY <1>3, <1>6, <2>2, <3>2 DEF RecordType
      <4> QED BY <1>3, <4>1 DEF Whole, RecordType
    <3>3. \A g : g = p => g \in Unread' /\ Rec(g)' = r
      BY <1>18
    <3> QED BY <1>6, <3>1, <3>2, <3>3
  <2> QED BY <1>10, <2>1, <2>2
<1> QED BY <1>11, <1>13, <1>14, <1>21, <1>22, <1>23 DEF RingInv

ConsumerType ==
  [pc : {"idle", "copy", "copied"}, producer : Nat, next : Nat, most : 0..PopMax,
   taken : Seq(RecordType)]

LEMMA ConsumerIdleType ==
  /\ ConsumerIdle \in ConsumerType /\ ConsumerIdle.pc = "idle" /\ ConsumerIdle.taken = <<>>
<1>1. 0 \in 0..PopMax
  BY RingAssumption
<1>2. <<>> \in Seq(RecordType)
  BY EmptySeq
<1> QED BY <1>1, <1>2 DEF ConsumerIdle, ConsumerType

LEMMA PopBeginKeeps == RingInv /\ PopBegin => RingInv'
<1> SUFFICES ASSUME RingInv, PopBegin PROVE RingInv'
  OBVIOUS
<1>1. /\ consumer.pc = "idle" /\ ring.consumer < ring.producer /\ Made \in Nat
      /\ ring.producer \in Nat /\ ring.consumer \in Nat /\ ring.focus \in Nat
      /\ consumer \in ConsumerType /\ consumer.taken = <<>>
      /\ UNCHANGED <<ring, ringSlots, producer, inputs, popped>>
  BY PosFacts DEF PopBegin, RingInv, RingTypes, Calls, ConsumerType
<1>2. PICK most \in 0..PopMax :
        consumer' = [ConsumerIdle EXCEPT !.pc = "copy", !.producer = ring.producer,
                       !.next = ring.consumer, !.most = most]
  BY DEF PopBegin
<1>3. /\ consumer' \in ConsumerType /\ consumer'.pc = "copy" /\ consumer'.taken = <<>>
      /\ consumer'.producer = ring.producer /\ consumer'.next = ring.consumer
  BY <1>1, <1>2, ConsumerIdleType DEF ConsumerType
<1>4. RingTypes'
  BY <1>1, <1>3 DEF RingInv, RingTypes, ConsumerType
<1>5. Pos' = Pos /\ Unread' = Unread /\ Handed' = Handed
  BY <1>1, <1>3 DEF Pos, Unread, Handed
<1>6. Positions'
  BY <1>1, <1>3, <1>5 DEF RingInv, Positions
<1>7. Calls'
  <2>1. Len(consumer'.taken) = 0
    BY <1>3, EmptySeq
  <2>2. (consumer'.pc # "idle" /\ consumer'.most = 0) =>
          Len(consumer'.taken) = IF consumer'.pc = "copy" THEN 0 ELSE 1
    BY <1>3, <2>1
  <2>3. consumer'.pc = "idle" => consumer'.taken = <<>>
    BY <1>3
  <2> QED BY <1>1, <2>2, <2>3 DEF RingInv, Calls, Rec, At0
<1>8. Made' = Made
  BY <1>1 DEF Made
<1>9. Records'
  BY <1>1, <1>5, <1>8, RecordsStay DEF RingInv, RingTypes, Rec
<1> QED BY <1>4, <1>6, <1>7, <1>9 DEF RingInv, Records

\* A record that is copied moves from those to be read to those handed over, or
\* is passed over because its focus is over.
LEMMA PopCopyKeeps == RingInv /\ PopCopy => RingInv'
<1> SUFFICES ASSUME RingInv, PopCopy PROVE RingInv'
  OBVIOUS
<1> DEFINE record == ringSlots[At0(consumer.next)]
           next == consumer.next + 1
           taken == IF consumer.most = 0 \/ Current(record)
                      THEN Append(consumer.taken, record) ELSE consumer.taken
           pc == IF BatchGoesOn(next, taken) THEN "copy" ELSE "copied"
<1>1. /\ consumer.pc = "copy" /\ consumer \in ConsumerType
      /\ ring.producer \in Nat /\ ring.consumer \in Nat /\ ring.focus \in Nat /\ Made \in Nat
      /\ UNCHANGED <<ring, ringSlots, producer, inputs, popped>>
      /\ consumer' = [consumer EXCEPT !.next = next, !.taken = taken, !.pc = pc]
  BY PosFacts DEF PopCopy, RingInv, RingTypes, ConsumerType
<1>2. /\ Pos = consumer.next /\ Pos \in Nat /\ Pos < consumer.producer
      /\ consumer.producer <= ring.producer /\ Pos < ring.producer /\ ring.consumer <= Pos
      /\ consumer.producer \in Nat
  BY <1>1 DEF RingInv, Positions, Pos, ConsumerType
<1>3. /\ Pos \in Unread /\ record = Rec(Pos) /\ record \in RecordType
  BY <1>1, <1>2, PosFacts DEF Unread, Rec
<1>4. /\ popped \in Seq(RecordType) /\ consumer.taken \in Seq(RecordType)
      /\ Handed \in Seq(RecordType)
  BY HandedIsSeq DEF RingInv
<1> HIDE DEF record
<1>5. /\ taken \in Seq(RecordType) /\ Len(taken) \in Nat
      /\ \/ taken = consumer.taken /\ consumer.most # 0 /\ ~Current(record)
         \/ taken = Append(consumer.taken, record) /\ Len(taken) = Len(consumer.taken) + 1
  BY <1>3, <1>4, AppendProperties, LenProperties
<1>6. /\ pc \in {"copy", "copied"}
      /\ pc = "copy" => next < consumer.producer /\ Len(taken) < consumer.most
  BY DEF BatchGoesOn
<1>7. next \in Nat /\ next = Pos + 1
  BY <1>2
<1> HIDE DEF taken, next, pc
<1>8. /\ consumer' \in ConsumerType /\ consumer'.pc = pc /\ consumer'.next = next
      /\ consumer'.taken = taken /\ consumer'.most = consumer.most
      /\ consumer'.producer = consumer.producer
  BY <1>1, <1>5, <1>6, <1>7 DEF ConsumerType
<1>9. RingTypes'
  BY <1>1, <1>8 DEF RingInv, RingTypes, ConsumerType
<1>10. Pos' = Pos + 1
  BY <1>6, <1>7, <1>8 DEF Pos
<1>11. Positions'
  BY <1>1, <1>2, <1>6, <1>7, <1>8, <1>10 DEF RingInv, Positions
<1>12. Calls'
  <2>1. ASSUME consumer.most = 0 PROVE pc = "copied" /\ Len(taken) = 1
    <3>1. Len(consumer.taken) = 0
      BY <1>1, <2>1 DEF RingInv, Calls
    <3> QED BY <1>5, <1>6, <2>1, <3>1
  <2>2. (consumer'.pc # "idle" /\ consumer'.most = 0) =>
          Len(consumer'.taken) = IF consumer'.pc = "copy" THEN 0 ELSE 1
    BY <1>8, <2>1
  <2>3. consumer'.pc = "idle" => consumer'.taken = <<>>
    BY <1>6, <1>8
  <2> QED BY <1>1, <2>2, <2>3 DEF RingInv, Calls, Rec, At0
<1>13. Made' = Made
  BY <1>1 DEF Made
<1>14. /\ \A s \in Unread' : s \in Unread /\ s > Pos /\ Rec(s)' = Rec(s)
       /\ \A s \in Unread : s \in Unread' \/ s = Pos
  <2>1. \A s : Rec(s)' = Rec(s)
    BY <1>1 DEF Rec, At0
  <2>2. Unread = Pos..(ring.producer - 1) /\ Unread' = (Pos + 1)..(ring.producer - 1)
    BY <1>1, <1>10 DEF Unread
  <2> QED BY <1>1, <1>2, <2>1, <2>2
<1>15. \/ Handed' = Handed /\ ~Current(record)
       \/ Handed' = Append(Handed, record)
  <2>1. CASE taken = consumer.taken /\ ~Current(record)
    BY <1>1, <1>8, <2>1 DEF Handed
  <2>2. CASE taken = Append(consumer.taken, record)
    <3>1. Handed' = popped \o Append(consumer.taken, record)
      BY <1>1, <1>8, <2>2 DEF Handed
    <3>2. popped \o Append(consumer.taken, record) = Append(popped \o consumer.taken, record)
      BY <1>3, <1>4
    <3> QED BY <3>1, <3>2 DEF Handed
  <2> QED BY <1>5, <2>1, <2>2
<1>16. Ordered /\ CriticalsWhole /\ CriticalsKept
  BY DEF RingInv
<1>17. /\ DOMAIN Handed = 1..Len(Handed) /\ Len(Handed) \in Nat
       /\ \A i \in DOMAIN Handed : Handed[i] \in RecordType
  BY <1>4, ElementOfSeq, LenProperties
<1> DEFINE last == Len(Handed) + 1
<1>18. /\ \A i \in DOMAIN Handed' : \/ i \in DOMAIN Handed /\ Handed'[i] = Handed[i]
                                    \/ i = last /\ Handed'[i] = record
       /\ \A i \in DOMAIN Handed : i \in DOMAIN Handed' /\ Handed'[i] = Handed[i] /\ i < last
       /\ ~Current(record) \/ (last \in DOMAIN Handed' /\ Handed'[last] = record)
  <2>1. CASE Handed' = Handed /\ ~Current(record)
    BY <1>17, <2>1
  <2>2. CASE Handed' = Append(Handed, record)
    <3>1. /\ Handed' \in Seq(RecordType) /\ Len(Handed') = last
          /\ \A i \in 1..Len(Handed) : Handed'[i] = Handed[i]
          /\ Handed'[last] = record
      BY <1>3, <1>4, <2>2, AppendProperties
    <3>2. DOMAIN Handed' = 1..last
      BY <3>1, LenProperties
    <3>3. \A i \in 1..last : i \in 1..Len(Handed) \/ i = last
      BY <1>17
    <3> QED BY <1>17, <3>1, <3>2, <3>3
  <2> QED BY <1>15, <2>1, <2>2
<1> HIDE DEF last
<1>19. \A s \in Unread : Rec(s) \in RecordType /\ s \in Nat
  BY PosFacts
<1>20. Ordered'
  <2>1. \A s \in Unread' : Rec(s)'.front <= Made'
    BY <1>13, <1>14, <1>16 DEF Ordered
  <2>2. \A s, t \in Unread' : s < t => Rec(s)'.front < Rec(t)'.front
    BY <1>14, <1>16 DEF Ordered
  <2>3. \A i \in DOMAIN Handed' : Handed'[i].front <= Made'
    BY <1>3, <1>13, <1>16, <1>18 DEF Ordered
  <2>4. \A i, j \in DOMAIN Handed' : i < j => Handed'[i].front < Handed'[j].front
    <3> SUFFICES ASSUME NEW i \in DOMAIN Handed', NEW j \in DOMAIN Handed', i < j
                 PROVE  Handed'[i].front < Handed'[j].front
      OBVIOUS
    <3>1. i \in DOMAIN Handed /\ Handed'[i] = Handed[i]
      <4>1. last \in Nat /\ DOMAIN Handed = 1..Len(Handed) /\ Len(Handed) \in Nat
        BY <1>17 DEF last
      <4>2. i # last
        BY <1>18, <4>1
      <4> QED BY <1>18, <4>2
    <3>2. CASE j \in DOMAIN Handed /\ Handed'[j] = Handed[j]
      BY <1>16, <3>1, <3>2 DEF Ordered
    <3>3. CASE j = last /\ Handed'[j] = record
      BY <1>3, <1>16, <3>1, <3>3 DEF Ordered
    <3> QED BY <1>18, <3>2, <3>3
  <2>5. \A i \in DOMAIN Handed' : \A s \in Unread' : Handed'[i].front < Rec(s)'.front
    <3> SUFFICES ASSUME NEW i \in DOMAIN Handed', NEW s \in Unread'
                 PROVE  Handed'[i].front < Rec(s)'.front
      OBVIOUS
    <3>1. CASE i \in DOMAIN Handed /\ Handed'[i] = Handed[i]
      BY <1>14, <1>16, <3>1 DEF Ordered
    <3>2. CASE Handed'[i] = record
      <4>1. s \in Unread /\ Pos < s /\ Rec(s)' = Rec(s)
        BY <1>2, <1>14, <1>19
      <4> QED BY <1>3, <1>16, <3>2, <4>1 DEF Ordered
    <3> QED BY <1>18, <3>1, <3>2
  <2> QED BY <2>1, <2>2, <2>3, <2>4, <2>5 DEF Ordered
<1>21. CriticalsWhole'
  <2>1. \A s \in Unread' : ~Rec(s)'.motion => Rec(s)'.front = Rec(s)'.back
    BY <1>14, <1>16 DEF CriticalsWhole
  <2>2. \A i \in DOMAIN Handed' : ~Handed'[i].motion => Handed'[i].front = Handed'[i].back
    BY <1>3, <1>16, <1>18 DEF CriticalsWhole
  <2> QED BY <2>1, <2>2 DEF CriticalsWhole
<1>22. CriticalsKept'
  <2> SUFFICES ASSUME NEW n \in DOMAIN inputs,
                      inputs[n].result = "admitted", ~inputs[n].motion,
                      inputs[n].focus = ring.focus
               PROVE  \/ \E s \in Unread' : Rec(s)' = Whole(n, FALSE, ring.focus)
                      \/ \E i \in DOMAIN Handed' : Handed'[i] = Whole(n, FALSE, ring.focus)
    BY <1>1, <1>16 DEF CriticalsKept, Whole
  <2>1. CASE \E i \in DOMAIN Handed : Handed[i] = Whole(n, FALSE, ring.focus)
    BY <1>18, <2>1
  <2>2. CASE \E s \in Unread : s # Pos /\ Rec(s) = Whole(n, FALSE, ring.focus)
    BY <1>14, <2>2
  <2>3. CASE Rec(Pos) = Whole(n, FALSE, ring.focus)
    <3>1. Current(record)
      BY <1>3, <2>3 DEF Current, Whole
    <3> QED BY <1>3, <1>18, <2>3, <3>1
  <2> QED BY <1>16, <2>1, <2>2, <2>3 DEF CriticalsKept
<1> QED BY <1>9, <1>11, <1>12, <1>20, <1>21, <1>22 DEF RingInv

\* The call hands over what it has copied, or passes over the one record of a
\* focus that is over.
LEMMA PopStoreKeeps == RingInv /\ PopStore => RingInv'
<1> SUFFICES ASSUME RingInv, PopStore PROVE RingInv'
  OBVIOUS
<1>1. /\ consumer.pc = "copied" /\ consumer \in ConsumerType
      /\ ring.producer \in Nat /\ ring.consumer \in Nat /\ ring.focus \in Nat /\ Made \in Nat
      /\ RingCapacity \in Nat
      /\ ring \in [producer : Nat, consumer : Nat, wake : Nat, focus : Nat \ {0}]
      /\ ring' = [ring EXCEPT !.consumer = consumer.next]
      /\ UNCHANGED <<ringSlots, producer, inputs>>
  BY PosFacts DEF PopStore, RingInv, RingTypes, ConsumerType
<1>2. /\ Pos = consumer.next /\ Pos \in Nat
      /\ ring.consumer <= Pos /\ Pos <= ring.producer /\ consumer.producer <= ring.producer
      /\ ring.producer <= ring.consumer + RingCapacity
      /\ consumer.producer \in Nat
  BY <1>1 DEF RingInv, Positions, Pos, ConsumerType
<1>3. /\ popped \in Seq(RecordType) /\ consumer.taken \in Seq(RecordType)
      /\ Handed \in Seq(RecordType)
  BY HandedIsSeq DEF RingInv
<1> DEFINE Stale == consumer.most = 0 /\ ~Current(consumer.taken[1])
           goesOn == [consumer EXCEPT !.pc = "copy", !.taken = <<>>]
<1>4. /\ ring' \in [producer : Nat, consumer : Nat, wake : Nat, focus : Nat \ {0}]
      /\ ring'.consumer = Pos /\ ring'.producer = ring.producer /\ ring'.focus = ring.focus
  BY <1>1, <1>2
<1>5. /\ goesOn \in ConsumerType /\ goesOn.pc = "copy" /\ goesOn.taken = <<>>
      /\ goesOn.next = consumer.next /\ goesOn.producer = consumer.producer
  BY <1>1, EmptySeq DEF ConsumerType
<1>6. \/ consumer' = goesOn /\ consumer.next < consumer.producer /\ Stale
      \/ consumer' = ConsumerIdle
  BY DEF PopStore
<1>7. \/ Stale /\ popped' = popped
      \/ popped' = popped \o consumer.taken /\ consumer' = ConsumerIdle
  BY DEF PopStore
<1> HIDE DEF goesOn
<1>8. /\ consumer' \in ConsumerType /\ consumer'.taken = <<>>
      /\ consumer'.pc \in {"idle", "copy"}
      /\ consumer'.pc = "copy" =>
           /\ consumer'.next = Pos /\ consumer'.producer = consumer.producer
           /\ Pos < consumer.producer
  BY <1>2, <1>5, <1>6, ConsumerIdleType
<1>9. popped' \in Seq(RecordType)
  BY <1>3, <1>7, ConcatProperties
<1>10. RingTypes'
  BY <1>1, <1>4, <1>8, <1>9 DEF RingInv, RingTypes, ConsumerType
<1>11. Pos' = Pos
  BY <1>4, <1>8 DEF Pos
<1>12. Unread' = Unread
  BY <1>4, <1>11 DEF Unread
<1>13. Positions'
  <2>1. producer.pc \in {"loaded", "replacing"} => producer.consumer <= ring'.consumer
    <3>1. producer.consumer \in Nat
      BY DEF RingInv, RingTypes
    <3> QED BY <1>1, <1>2, <1>4, <3>1 DEF RingInv, Positions
  <2>2. ring'.producer <= ring'.consumer + RingCapacity
    BY <1>1, <1>2, <1>4
  <2>3. ring'.consumer <= Pos' /\ Pos' <= ring'.producer
    BY <1>2, <1>4, <1>11
  <2>4. consumer'.pc # "idle" => consumer'.producer <= ring'.producer
    BY <1>2, <1>4, <1>8
  <2>5. consumer'.pc = "copy" => consumer'.next < consumer'.producer
    BY <1>8
  <2> QED BY <1>1, <2>1, <2>2, <2>3, <2>4, <2>5 DEF Positions
<1>14. Calls'
  <2>1. Len(consumer'.taken) = 0
    BY <1>8, EmptySeq
  <2>2. (consumer'.pc # "idle" /\ consumer'.most = 0) =>
          Len(consumer'.taken) = IF consumer'.pc = "copy" THEN 0 ELSE 1
    BY <1>8, <2>1
  <2>3. consumer'.pc = "idle" => consumer'.taken = <<>>
    BY <1>8
  <2> QED BY <1>1, <1>4, <2>2, <2>3 DEF RingInv, Calls, Rec, At0
<1>15. Made' = Made
  BY <1>1 DEF Made
<1>16. Handed' = popped'
  BY <1>8, <1>9, ConcatEmptySeq DEF Handed
<1>17. CASE Handed' = Handed
  <2>1. /\ Made' \in Nat /\ Made' >= Made /\ ring'.focus \in Nat /\ ring'.focus >= ring.focus
        /\ inputs' = inputs /\ inputs' \in Seq(InputType)
    <3>1. inputs \in Seq(InputType)
      BY DEF RingInv, RingTypes
    <3>2. Made' \in Nat /\ Made' >= Made
      BY <1>1, <1>15
    <3>3. ring'.focus \in Nat /\ ring'.focus >= ring.focus
      BY <1>1, <1>4
    <3> QED BY <1>1, <3>1, <3>2, <3>3
  <2>2. \A s \in Unread : ringSlots'[At0(s)] = Rec(s)
    BY <1>1 DEF Rec
  <2>3. DOMAIN Handed' = DOMAIN Handed
    BY <1>17
  <2>4. Records'
    BY <1>12, <1>17, <2>1, <2>2, <2>3, RecordsStay
  <2> QED BY <1>10, <1>13, <1>14, <2>4 DEF RingInv, Records
<1>18. CASE Handed' # Handed
  <2>1. Stale /\ Handed' = popped
    BY <1>7, <1>16, <1>18 DEF Handed
  <2>2. Len(consumer.taken) = 1
    BY <1>1, <2>1 DEF RingInv, Calls
  <2> DEFINE last == Len(popped) + 1
  <2>3. /\ Len(popped) \in Nat /\ DOMAIN popped = 1..Len(popped)
        /\ DOMAIN Handed = 1..last
        /\ \A i \in DOMAIN popped : popped[i] = Handed[i]
        /\ Handed[last] = consumer.taken[1]
    <3>1. /\ Len(popped) \in Nat /\ DOMAIN popped = 1..Len(popped)
          /\ DOMAIN Handed = 1..Len(Handed)
      BY <1>3, LenProperties
    <3>2. /\ Len(Handed) = last
          /\ \A i \in 1..last :
               Handed[i] = IF i <= Len(popped) THEN popped[i]
                                               ELSE consumer.taken[i - Len(popped)]
      <4>1. /\ Len(Handed) = Len(popped) + Len(consumer.taken)
            /\ \A i \in 1..(Len(popped) + Len(consumer.taken)) :
                 Handed[i] = IF i <= Len(popped) THEN popped[i]
                                                 ELSE consumer.taken[i - Len(popped)]
        BY <1>3, ConcatProperties DEF Handed
      <4>2. Len(popped) + Len(consumer.taken) = last
        BY <2>2
      <4> HIDE DEF last
      <4> QED BY <4>1, <4>2
    <3>3. last \in 1..last /\ ~(last <= Len(popped)) /\ last - Len(popped) = 1
      BY <3>1
    <3>4. Handed[last] = consumer.taken[1]
      BY <3>2, <3>3
    <3>5. \A i \in DOMAIN popped : i \in 1..last /\ i <= Len(popped)
      BY <3>1
    <3> QED BY <3>1, <3>2, <3>4, <3>5
  <2>4. /\ \A i \in DOMAIN popped : i \in DOMAIN Handed /\ popped[i] = Handed[i]
        /\ \A i \in DOMAIN Handed : i \in DOMAIN popped \/ i = last
    BY <2>3
  <2> HIDE DEF last
  <2>5. \A s : Rec(s)' = Rec(s)
    BY <1>1 DEF Rec, At0
  <2>6. Ordered /\ CriticalsWhole /\ CriticalsKept
    BY DEF RingInv
  <2>7. Ordered'
    BY <1>12, <1>15, <2>1, <2>4, <2>5, <2>6 DEF Ordered
  <2>8. CriticalsWhole'
    BY <1>12, <2>1, <2>4, <2>5, <2>6 DEF CriticalsWhole
  <2>9. CriticalsKept'
    <3>1. \A n : Handed[last] # Whole(n, FALSE, ring.focus)
      BY <2>1, <2>3 DEF Current, Whole
    <3> SUFFICES ASSUME NEW n \in DOMAIN inputs,
                        inputs[n].result = "admitted", ~inputs[n].motion,
                        inputs[n].focus = ring.focus
                 PROVE  \/ \E s \in Unread : Rec(s)' = Whole(n, FALSE, ring.focus)
                        \/ \E i \in DOMAIN popped : popped[i] = Whole(n, FALSE, ring.focus)
      BY <1>1, <1>4, <1>12, <2>1, <2>6 DEF CriticalsKept, Whole
    <3>2. CASE \E i \in DOMAIN Handed : Handed[i] = Whole(n, FALSE, ring.focus)
      BY <2>4, <3>1, <3>2
    <3> QED BY <2>5, <2>6, <3>2 DEF CriticalsKept
  <2> QED BY <1>10, <1>13, <1>14, <2>7, <2>8, <2>9 DEF RingInv
<1> QED BY <1>17, <1>18

-----------------------------------------------------------------------------
(* The theorem                                                              *)

LEMMA RingBegins == RingInit => RingInv
<1> SUFFICES ASSUME RingInit PROVE RingInv
  OBVIOUS
<1>1. /\ ring = [producer |-> 0, consumer |-> 0, wake |-> 0, focus |-> 1]
      /\ ringSlots = [i \in 0..(RingCapacity - 1) |-> NoRecord]
      /\ producer = ProducerIdle /\ consumer = ConsumerIdle /\ inputs = <<>> /\ popped = <<>>
  BY DEF RingInit
<1>2. <<>> \in Seq(InputType) /\ <<>> \in Seq(RecordType)
  BY EmptySeq
<1>3. RingTypes
  BY <1>1, <1>2, IdleTypes, ConsumerIdleType DEF RingTypes, ProducerType, ConsumerType
<1>4. Pos = 0
  BY <1>1, ConsumerIdleType DEF Pos
<1>5. \A s \in Unread : FALSE
  BY <1>1, <1>4 DEF Unread
<1>6. Handed = <<>>
  BY <1>1, <1>2, ConsumerIdleType, ConcatEmptySeq DEF Handed
<1>7. \A i \in DOMAIN Handed : FALSE
  BY <1>6, EmptySeq
<1>8. \A n \in DOMAIN inputs : FALSE
  BY <1>1, EmptySeq
<1>9. Positions
  BY <1>1, <1>4, RingAssumption, IdleTypes, ConsumerIdleType DEF Positions
<1>10. Calls
  BY <1>1, IdleTypes, ConsumerIdleType DEF Calls
<1> QED BY <1>3, <1>5, <1>7, <1>8, <1>9, <1>10 DEF RingInv, Ordered, CriticalsWhole, CriticalsKept

LEMMA RingNextKeeps == RingInv /\ [RingNext]_ringVars => RingInv'
<1> SUFFICES ASSUME RingInv, [RingNext]_ringVars PROVE RingInv'
  OBVIOUS
<1>1. CASE UNCHANGED ringVars
  <2>1. UNCHANGED <<ring, ringSlots, producer, consumer, inputs, popped>>
    BY <1>1 DEF ringVars
  <2>2. Pos' = Pos /\ Unread' = Unread /\ Handed' = Handed /\ Made' = Made
    BY <2>1 DEF Pos, Unread, Handed, Made
  <2>3. \A s : Rec(s)' = Rec(s)
    BY <2>1 DEF Rec, At0
  <2>4. RingTypes'
    BY <2>1 DEF RingInv, RingTypes
  <2>5. Positions'
    BY <2>1, <2>2 DEF RingInv, Positions
  <2>6. Calls'
    BY <2>1, <2>2 DEF RingInv, Calls, Rec, At0
  <2>7. Ordered' /\ CriticalsWhole'
    BY <2>2, <2>3 DEF RingInv, Ordered, CriticalsWhole
  <2>8. CriticalsKept'
    BY <2>1, <2>2, <2>3 DEF RingInv, CriticalsKept, Whole
  <2> QED BY <2>4, <2>5, <2>6, <2>7, <2>8 DEF RingInv
<1>2. CASE RingNext
  BY <1>2, BeginKeeps, ReturnKeeps, LoadKeeps, ReplaceFrontKeeps, ReplaceBackKeeps, StoreKeeps,
     MoveFocusKeeps, PopBeginKeeps, PopCopyKeeps, PopStoreKeeps DEF RingNext
<1> QED BY <1>1, <1>2

LEMMA RingStays == RingSpec => []RingInv
  BY RingBegins, RingNextKeeps, PTL DEF RingSpec

LEMMA RingDelivers == RingInv => CriticalsDelivered
<1> SUFFICES ASSUME RingInv PROVE CriticalsDelivered
  OBVIOUS
<1>1. \A i \in DOMAIN Handed : i \in Nat /\ Handed[i] \in RecordType
  <2>1. Handed \in Seq(RecordType) /\ DOMAIN Handed = 1..Len(Handed)
    BY HandedIsSeq DEF RingInv
  <2>2. Len(Handed) \in Nat
    BY <2>1, LenProperties
  <2>3. \A i \in 1..Len(Handed) : i \in Nat
    BY <2>2
  <2> QED BY <2>1, <2>3, ElementOfSeq
<1>2. ASSUME NEW i \in DOMAIN Handed, NEW j \in DOMAIN Handed
      PROVE  /\ i < j => Handed[i].front <= Handed[j].front
             /\ (i # j /\ ~Handed[i].motion) => Handed[i].front # Handed[j].front
             /\ ~Handed[i].motion => Handed[i].front = Handed[i].back
  <2>1. Handed[i].front \in Nat /\ Handed[j].front \in Nat /\ i \in Nat /\ j \in Nat
    BY <1>1 DEF RecordType
  <2>2. /\ i < j => Handed[i].front < Handed[j].front
        /\ j < i => Handed[j].front < Handed[i].front
    BY DEF RingInv, Ordered
  <2> QED BY <2>1, <2>2 DEF RingInv, CriticalsWhole
<1>3. \A s \in Unread : Rec(s) \in InRing
  <2>1. \A s \in Unread : s \in ring.consumer..(ring.producer - 1)
    BY PosFacts
  <2> QED BY <2>1 DEF InRing, Rec
<1> QED BY <1>2, <1>3 DEF CriticalsDelivered, RingInv, CriticalsKept

\* A critical input that publish admitted (compositor_input_ring.h) reaches the
\* client once, whole and in the order of the inputs, or is in the ring, or its
\* focus is over, for every capacity and however the copies of the two sides
\* overlap.
THEOREM CriticalsArrive == RingSpec => []CriticalsDelivered
  BY RingStays, RingDelivers, PTL

==============================================================================
