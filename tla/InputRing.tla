------------------------------ MODULE InputRing -----------------------------
(***************************************************************************)
(* The input ring between the compositor and a client                      *)
(* (compositor_input_ring.h): shared memory with one producer and one      *)
(* consumer and no lock.  A step is one access to the shared sequences or  *)
(* one copy of a record; the copy over a record that the consumer may be   *)
(* reading takes two steps, half a record each.                            *)
(***************************************************************************)
EXTENDS Naturals, Sequences, FiniteSets

CONSTANTS
  RingCapacity,    \* capacity
  MaxInputs,       \* bound: records the compositor publishes
  MaxFocus,        \* bound: focus generations
  PopMax           \* bound: the capacity given to pop_batch

ASSUME RingAssumption == RingCapacity \in Nat \ {0} /\ PopMax \in Nat \ {0}

VARIABLES
  ring,            \* header: producer, consumer, wake and focus sequence
  ringSlots,       \* the records
  producer,        \* the call of publish under way
  consumer,        \* the call of pop or pop_batch under way
  inputs,          \* history: records made, with what publish returned
  popped           \* history: records handed to the client

ringVars == <<ring, ringSlots, producer, consumer, inputs, popped>>

\* A record in its two halves: the number of the input that each is of.
Whole(n, motion, focus) == [front |-> n, back |-> n, motion |-> motion, focus |-> focus]
NoRecord == Whole(0, FALSE, 0)
At0(sequence) == sequence % RingCapacity

ProducerIdle == [pc |-> "idle", record |-> NoRecord, consumer |-> 0]
ConsumerIdle == [pc |-> "idle", producer |-> 0, next |-> 0, most |-> 0, taken |-> <<>>]

RingInit ==
  /\ ring = [producer |-> 0, consumer |-> 0, wake |-> 0, focus |-> 1]
  /\ ringSlots = [i \in 0..(RingCapacity - 1) |-> NoRecord]
  /\ producer = ProducerIdle
  /\ consumer = ConsumerIdle
  /\ inputs = <<>>
  /\ popped = <<>>

-----------------------------------------------------------------------------
(* publish.                                                                 *)

\* rin_compositor_input_ring_event_current.
Current(record) == record.focus = ring.focus

\* What became of the input in hand.
Returns(result) ==
  /\ inputs' = Append(inputs, [motion |-> producer.record.motion, focus |-> producer.record.focus,
                               result |-> result])
  /\ producer' = ProducerIdle

\* The compositor publishes an input of the focus that is current, or was when
\* the input was made.
PublishBegin ==
  /\ producer.pc = "idle" /\ Len(inputs) < MaxInputs
  /\ \E motion \in BOOLEAN, focus \in {ring.focus, ring.focus - 1} \ {0} :
       producer' = [ProducerIdle EXCEPT !.pc = "checked",
                      !.record = Whole(Len(inputs) + 1, motion, focus)]
  /\ UNCHANGED <<ring, ringSlots, consumer, inputs, popped>>

PublishStale ==
  /\ producer.pc = "checked" /\ ~Current(producer.record)
  /\ Returns("dropped")
  /\ UNCHANGED <<ring, ringSlots, consumer, popped>>

PublishLoad ==
  /\ producer.pc = "checked" /\ Current(producer.record)
  /\ producer' = [producer EXCEPT !.pc = "loaded", !.consumer = ring.consumer]
  /\ UNCHANGED <<ring, ringSlots, consumer, inputs, popped>>

Full == ring.producer - producer.consumer >= RingCapacity
Newest == At0(ring.producer - 1)

\* Mutant: the newest record is replaced whatever it is.
MayReplaceAny(old, new) == new.motion /\ old.focus = new.focus

\* A motion replaces a motion of the same surface and focus.
MayReplace(old, new) == new.motion /\ old.motion /\ old.focus = new.focus

PublishRefused ==
  /\ producer.pc = "loaded" /\ Full
  /\ ~MayReplace(ringSlots[Newest], producer.record)
  /\ Returns("refused")
  /\ UNCHANGED <<ring, ringSlots, consumer, popped>>

\* The replacement is copied over the newest record, half by half.
ReplaceFront ==
  /\ producer.pc = "loaded" /\ Full
  /\ MayReplace(ringSlots[Newest], producer.record)
  /\ ringSlots' = [ringSlots EXCEPT ![Newest] = [producer.record EXCEPT !.back = ringSlots[Newest].back]]
  /\ producer' = [producer EXCEPT !.pc = "replacing"]
  /\ UNCHANGED <<ring, consumer, inputs, popped>>

ReplaceBack ==
  /\ producer.pc = "replacing"
  /\ ringSlots' = [ringSlots EXCEPT ![Newest] = producer.record]
  /\ Returns("coalesced")
  /\ UNCHANGED <<ring, consumer, popped>>

\* The slot is not the consumer's to read before the sequence is stored.  The
\* wake-up is decided on the consumer's sequence as it was loaded.
PublishStore ==
  /\ producer.pc = "loaded" /\ ~Full
  /\ ringSlots' = [ringSlots EXCEPT ![At0(ring.producer)] = producer.record]
  /\ ring' = [ring EXCEPT !.producer = @ + 1,
                            !.wake = IF ring.producer = producer.consumer THEN @ + 1 ELSE @]
  /\ Returns("admitted")
  /\ UNCHANGED <<consumer, popped>>

\* The compositor moves the focus between two inputs.
MoveFocus ==
  /\ producer.pc = "idle" /\ ring.focus < MaxFocus
  /\ ring' = [ring EXCEPT !.focus = @ + 1]
  /\ UNCHANGED <<ringSlots, producer, consumer, inputs, popped>>

-----------------------------------------------------------------------------
(* pop, with most = 0, and pop_batch of at most most records.               *)

PopBegin ==
  /\ consumer.pc = "idle"
  /\ ring.consumer < ring.producer
  /\ \E most \in 0..PopMax :
       consumer' = [ConsumerIdle EXCEPT !.pc = "copy", !.producer = ring.producer,
                      !.next = ring.consumer, !.most = most]
  /\ UNCHANGED <<ring, ringSlots, producer, inputs, popped>>

\* Whether pop_batch goes on after the record it has just copied.
BatchGoesOn(next, taken) == next < consumer.producer /\ Len(taken) < consumer.most

\* A copy of one record.  pop_batch keeps it if the focus is still its own.
PopCopy ==
  LET record == ringSlots[At0(consumer.next)]
      next == consumer.next + 1
      taken == IF consumer.most = 0 \/ Current(record)
                 THEN Append(consumer.taken, record) ELSE consumer.taken
  IN  /\ consumer.pc = "copy"
      /\ consumer' = [consumer EXCEPT !.next = next, !.taken = taken,
                        !.pc = IF BatchGoesOn(next, taken) THEN "copy" ELSE "copied"]
      /\ UNCHANGED <<ring, ringSlots, producer, inputs, popped>>

\* The consumer's sequence is stored: by pop after each record, of which it goes
\* on to the next if the focus has moved on, by pop_batch at its end.
PopStore ==
  /\ consumer.pc = "copied"
  /\ ring' = [ring EXCEPT !.consumer = consumer.next]
  /\ IF consumer.most = 0 /\ ~Current(consumer.taken[1])
       THEN /\ consumer' = IF consumer.next < consumer.producer
                             THEN [consumer EXCEPT !.pc = "copy", !.taken = <<>>]
                             ELSE ConsumerIdle
            /\ UNCHANGED popped
       ELSE /\ consumer' = ConsumerIdle
            /\ popped' = popped \o consumer.taken
  /\ UNCHANGED <<ringSlots, producer, inputs>>

RingNext ==
  \/ PublishBegin \/ PublishStale \/ PublishLoad \/ PublishRefused
  \/ ReplaceFront \/ ReplaceBack \/ PublishStore \/ MoveFocus
  \/ PopBegin \/ PopCopy \/ PopStore

RingSpec == RingInit /\ [][RingNext]_ringVars

-----------------------------------------------------------------------------
(* Properties.                                                              *)

Handed == popped \o consumer.taken
InRing == {ringSlots[At0(s)] : s \in ring.consumer..(ring.producer - 1)}

\* A critical input that was admitted reaches the client once, whole and in the
\* order of the inputs, unless the focus moved on: it is in the client's hands or
\* in the ring.  A motion may be replaced, even while it is read, but it never
\* takes the place of a critical input or overtakes one.
CriticalsDelivered ==
  /\ \A i, j \in DOMAIN Handed :
       /\ i < j => Handed[i].front <= Handed[j].front
       /\ (i # j /\ ~Handed[i].motion) => Handed[i].front # Handed[j].front
       /\ ~Handed[i].motion => Handed[i].front = Handed[i].back
  /\ \A n \in DOMAIN inputs :
       (inputs[n].result = "admitted" /\ ~inputs[n].motion /\ inputs[n].focus = ring.focus)
         => Whole(n, FALSE, ring.focus) \in InRing \cup {Handed[i] : i \in DOMAIN Handed}
=============================================================================
