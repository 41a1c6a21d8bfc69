------------------------------ MODULE Virtqueue -----------------------------
(***************************************************************************)
(* The split virtqueue of the VirtIO drivers (virtqueue_v3.c): the free    *)
(* list of descriptors, the chains that are submitted and the completions  *)
(* that a device writes into the used ring.  The device is honest, and     *)
(* completes what it was given in any order, or writes what it likes.      *)
(* Indices of the rings wrap at a multiple of the queue's size.            *)
(***************************************************************************)
EXTENDS Naturals, FiniteSets, Sequences

CONSTANTS
  QueueSize,      \* size, a power of two
  IndexWrap,      \* 2^16, the range of the ring indices
  MaxBatch,       \* RIN_VIRTQUEUE_V3_MAX_BATCH
  MaxBadWrites    \* bound: completions a device makes up

ASSUME QueueAssumption ==
  /\ QueueSize \in Nat \ {0} /\ MaxBatch \in Nat \ {0}
  /\ \E k \in 2..IndexWrap : IndexWrap = k * QueueSize

VARIABLES
  vq,             \* RinVirtqueueV3: free_head, free_count, last_used
  desc,           \* its descriptors and descriptor_state
  vqRings,        \* the available and the used ring with their indices
  vqDevice,       \* the device: honest or not, what it has read and holds
  vqBatch,        \* pop_used_batch: entries it may still pop, and those it has
  vqOutstanding   \* history: chains that the driver was not told of yet

vqVars == <<vq, desc, vqRings, vqDevice, vqBatch, vqOutstanding>>

Descriptors == 0..(QueueSize - 1)
VqEnd == QueueSize                  \* UINT16_MAX
ChainHead == "head"

\* rin_virtqueue_v3_init.
VqInit ==
  /\ vq = [head |-> 0, free |-> QueueSize, lastUsed |-> 0]
  /\ desc = [i \in Descriptors |-> [state |-> "free", next |-> i + 1, more |-> FALSE]]
  /\ vqRings = [available |-> [i \in Descriptors |-> VqEnd], availableIndex |-> 0,
                used |-> [i \in Descriptors |-> [id |-> VqEnd, long |-> FALSE]], usedIndex |-> 0]
  /\ vqDevice \in [honest : BOOLEAN, bad : {0}, read : {0}, holds : {{}}]
  /\ vqBatch = [left |-> 0, popped |-> {}]
  /\ vqOutstanding = {}

\* The n-th entry of the free list.
FreeAt ==
  LET at[n \in 0..QueueSize] ==
        IF n = 0 THEN vq.head
        ELSE IF at[n - 1] = VqEnd THEN VqEnd ELSE desc[at[n - 1]].next
  IN  at

Pending == (vqRings.usedIndex + IndexWrap - vq.lastUsed) % IndexWrap

\* virtqueue_shape_valid.
ShapeValid ==
  /\ Pending <= QueueSize
  /\ Cardinality({i \in Descriptors : desc[i].state = "free"}) = vq.free
  /\ {FreeAt[n] : n \in 0..(vq.free - 1)} = {i \in Descriptors : desc[i].state = "free"}
  /\ FreeAt[vq.free] = VqEnd

\* The n-th descriptor of a chain; it ends with VqEnd.
ChainAt(first) ==
  LET at[n \in 0..QueueSize] ==
        IF n = 0 THEN first
        ELSE IF at[n - 1] = VqEnd \/ ~desc[at[n - 1]].more THEN VqEnd ELSE desc[at[n - 1]].next
  IN  at

ChainLength(first) == Cardinality({n \in 0..QueueSize : ChainAt(first)[n] # VqEnd})

-----------------------------------------------------------------------------
\* rin_virtqueue_v3_submit_chain of n buffers.
SubmitChain(n) ==
  /\ vqBatch.left = 0
  /\ ShapeValid
  /\ n <= vq.free
  /\ desc' = [i \in Descriptors |->
       IF \E k \in 1..n : FreeAt[k - 1] = i
         THEN LET k == CHOOSE k \in 1..n : FreeAt[k - 1] = i
              IN  [state |-> IF k = 1 THEN ChainHead ELSE "tail",
                   next |-> IF k = n THEN VqEnd ELSE FreeAt[k], more |-> k # n]
         ELSE desc[i]]
  /\ vq' = [vq EXCEPT !.head = FreeAt[n], !.free = @ - n]
  /\ vqRings' = [vqRings EXCEPT
       !.available[vqRings.availableIndex % QueueSize] = vq.head,
       !.availableIndex = (@ + 1) % IndexWrap]
  /\ vqOutstanding' = vqOutstanding \cup {vq.head}
  /\ UNCHANGED <<vqDevice, vqBatch>>

\* Mutant: a completion of any descriptor that is not free is accepted.
CompletesAny(element) ==
  element.id \in Descriptors /\ desc[element.id].state # "free" /\ ~element.long

\* A completion names the head of a chain and no more bytes than it has.
CompletesChain(element) ==
  element.id \in Descriptors /\ desc[element.id].state = ChainHead /\ ~element.long

\* Freeing in chain order puts the last descriptor in front.
FreeChain(first) ==
  LET length == ChainLength(first)
      at == ChainAt(first)
  IN  /\ desc' = [i \in Descriptors |->
           IF \E n \in 0..(length - 1) : at[n] = i
             THEN LET n == CHOOSE n \in 0..(length - 1) : at[n] = i
                  IN  [state |-> "free", next |-> IF n = 0 THEN vq.head ELSE at[n - 1],
                       more |-> FALSE]
             ELSE desc[i]]
      /\ vq' = [head |-> at[length - 1], free |-> vq.free + length,
                lastUsed |-> (vq.lastUsed + 1) % IndexWrap]

\* The driver begins a batch; pop_used is one of a single entry.
BeginBatch(capacity) ==
  /\ vqBatch.left = 0
  /\ ShapeValid
  /\ Pending # 0
  /\ vqBatch' = [left |-> capacity, popped |-> {}]
  /\ UNCHANGED <<vq, desc, vqRings, vqDevice, vqOutstanding>>

\* Mutant: a batch that meets a bad completion reports none.
ReportedOnError(popped) == {}

Reported(popped) == popped

\* The batch ends, full, with nothing pending or on a bad completion, and hands
\* the driver what it has popped.
EndBatch(reported) ==
  /\ vqOutstanding' = vqOutstanding \ reported
  /\ vqBatch' = [left |-> 0, popped |-> {}]

PopUsed ==
  LET element == vqRings.used[vq.lastUsed % QueueSize]
      popped == vqBatch.popped \cup {element.id}
  IN  /\ vqBatch.left > 0
      /\ \/ /\ Pending \in 1..QueueSize /\ CompletesChain(element)
            /\ FreeChain(element.id)
            /\ IF vqBatch.left = 1
                 THEN EndBatch(popped)
                 ELSE /\ vqBatch' = [left |-> vqBatch.left - 1, popped |-> popped]
                      /\ UNCHANGED vqOutstanding
         \/ /\ Pending = 0
            /\ EndBatch(vqBatch.popped)
            /\ UNCHANGED <<vq, desc>>
         \/ /\ Pending > QueueSize \/ (Pending # 0 /\ ~CompletesChain(element))
            /\ EndBatch(Reported(vqBatch.popped))
            /\ UNCHANGED <<vq, desc>>
      /\ UNCHANGED <<vqRings, vqDevice>>

-----------------------------------------------------------------------------
(* The device.                                                              *)

DeviceReads ==
  /\ vqDevice.read # vqRings.availableIndex
  /\ vqDevice' = [vqDevice EXCEPT !.read = (@ + 1) % IndexWrap,
                    !.holds = @ \cup {vqRings.available[vqDevice.read % QueueSize]}]
  /\ UNCHANGED <<vq, desc, vqRings, vqBatch, vqOutstanding>>

WritesUsed(element) ==
  vqRings' = [vqRings EXCEPT !.used[vqRings.usedIndex % QueueSize] = element,
                             !.usedIndex = (@ + 1) % IndexWrap]

DeviceCompletes ==
  /\ \E id \in vqDevice.holds :
       /\ WritesUsed([id |-> id, long |-> FALSE])
       /\ vqDevice' = [vqDevice EXCEPT !.holds = @ \ {id}]
  /\ UNCHANGED <<vq, desc, vqBatch, vqOutstanding>>

\* Any descriptor, one that does not exist, or more bytes than a chain has.
DeviceMisbehaves ==
  /\ ~vqDevice.honest /\ vqDevice.bad < MaxBadWrites
  /\ vqDevice' = [vqDevice EXCEPT !.bad = @ + 1]
  /\ \/ \E id \in Descriptors \cup {VqEnd} : WritesUsed([id |-> id, long |-> FALSE])
     \/ WritesUsed([id |-> 0, long |-> TRUE])
  /\ UNCHANGED <<vq, desc, vqBatch, vqOutstanding>>

VqNext ==
  \/ \E n \in 1..QueueSize : SubmitChain(n)
  \/ \E capacity \in 1..MaxBatch : BeginBatch(capacity)
  \/ PopUsed
  \/ DeviceReads \/ DeviceCompletes \/ DeviceMisbehaves

VqSpec == VqInit /\ [][VqNext]_vqVars

-----------------------------------------------------------------------------
(* Properties.                                                              *)

\* Whatever the device writes, the free list is a list of the free descriptors
\* without a repeat or a cycle, and the rest are in chains of one head each, no
\* two of which share a descriptor: nothing is freed twice or lost.
QueueIntact ==
  LET Chain(i) == {ChainAt(i)[n] : n \in 0..(ChainLength(i) - 1)}
      heads == {i \in Descriptors : desc[i].state = ChainHead}
  IN  /\ {FreeAt[n] : n \in 0..(vq.free - 1)} = {i \in Descriptors : desc[i].state = "free"}
      /\ FreeAt[vq.free] = VqEnd
      /\ UNION {Chain(i) : i \in heads} = {i \in Descriptors : desc[i].state # "free"}
      /\ \A i, j \in heads : i # j => Chain(i) \cap Chain(j) = {}

\* The driver is told of every chain that was freed, exactly when it is no longer
\* in the queue, also when a batch ends on a bad completion; and with an honest
\* device a completion is never refused, wherever the indices wrap.
CompletionsReported ==
  /\ vqOutstanding =
       {i \in Descriptors : desc[i].state = ChainHead} \cup vqBatch.popped
  /\ vqDevice.honest =>
       /\ Pending <= QueueSize
       /\ \A n \in 0..(QueueSize - 1) :
            n < Pending => CompletesChain(vqRings.used[(vq.lastUsed + n) % QueueSize])
       /\ vqDevice.holds \subseteq vqOutstanding
=============================================================================
