----------------------------- MODULE RingBuffer -----------------------------
(***************************************************************************)
(* core/audio/ring_buffer.cpp: the lock-free ring that hands samples from  *)
(* one producer thread to one consumer thread.  A step is one access to    *)
(* shared memory: a load or a store of an index, or the copy of one slot.  *)
(*                                                                         *)
(* The indexes are size_t counters that are never reduced modulo the       *)
(* capacity; they wrap at IndexMod (2^64 in the code), so the model is     *)
(* finite without any bound on how long it runs.                           *)
(*                                                                         *)
(* An acquire load of the other thread's index may return an old value,    *)
(* but never one older than this thread has already seen; the release      *)
(* store of an index makes the slot accesses before it visible to whoever  *)
(* sees the new value.  `seen' is the last value each thread has loaded.   *)
(***************************************************************************)
EXTENDS Integers, Sequences

CONSTANTS Capacity,     \* capacity_, a power of two in the code
          IndexMod,     \* number of values of a size_t
          Sample,       \* the values a sample can have
          Zero,         \* 0.0f, what buffer_ is filled with at construction
          Batches,      \* what the producer may pass to push()
          Counts        \* what the consumer may ask pop() for

ASSUME RingAssumption ==
  /\ Capacity \in Nat \ {0}
  /\ IndexMod \in Nat
  /\ Capacity < IndexMod
  /\ IndexMod % Capacity = 0
  /\ Zero \in Sample
  /\ Batches \subseteq Seq(Sample)
  /\ Counts \subseteq Nat

VARIABLES slots,        \* buffer_
          writeIndex,   \* writeIndex_, stored only by the producer
          readIndex,    \* readIndex_, stored only by the consumer
          producer,     \* the producer thread: where it is in push(), its locals
          consumer,     \* the consumer thread: where it is in pop() or clear()
          delivered     \* what the last pop() wrote to its caller's buffer

vars == <<slots, writeIndex, readIndex, producer, consumer, delivered>>

Index == 0 .. IndexMod - 1
Least(a, b) == IF a =< b THEN a ELSE b

(* size_t arithmetic. *)
Add(a, b) == (a + b) % IndexMod
Dist(a, b) == (b - a) % IndexMod

(* index & mask_ *)
Slot(index) == index % Capacity

(* What an acquire load can return to a thread that has seen `old'. *)
Visible(old, current) == {x \in Index : Dist(old, x) =< Dist(old, current)}

Init ==
  /\ slots = [s \in 0 .. Capacity - 1 |-> Zero]
  /\ writeIndex = 0
  /\ readIndex = 0
  /\ producer = [pc |-> "idle", seen |-> 0, src |-> <<>>, n |-> 0, i |-> 0]
  /\ consumer = [pc |-> "idle", seen |-> 0, n |-> 0, dst |-> <<>>]
  /\ delivered = <<>>
-----------------------------------------------------------------------------
(***************************************************************************)
(* The producer thread.                                                    *)
(***************************************************************************)
(* Faults: the subtraction of ring_buffer.cpp:24 the wrong way round, and off by one. *)
FreeSwapped(w, r) == Dist(Capacity, Dist(r, w))
FreeOneMore(w, r) == Dist(Dist(r, w), Capacity) + 1

Free(w, r) == Dist(Dist(r, w), Capacity)

(* push(): both loads; only that of readIndex_ is shared with the consumer. *)
PushBegin(src) ==
  /\ producer.pc = "idle"
  /\ \E r \in Visible(producer.seen, readIndex) :
       producer' = [pc |-> "copy", seen |-> r, src |-> src, i |-> 0,
                    n |-> Least(Len(src), Free(writeIndex, r))]
  /\ UNCHANGED <<slots, writeIndex, readIndex, consumer, delivered>>

PushCopy ==
  /\ producer.pc = "copy"
  /\ producer.i < producer.n
  /\ slots' = [slots EXCEPT ![Slot(Add(writeIndex, producer.i))]
                              = producer.src[producer.i + 1]]
  /\ producer' = [producer EXCEPT !.i = @ + 1]
  /\ UNCHANGED <<writeIndex, readIndex, consumer, delivered>>

(* Fault: the release store overtakes the last copies. *)
PushPublishEarly ==
  /\ producer.pc = "copy"
  /\ writeIndex' = Add(writeIndex, producer.n)
  /\ producer' = [producer EXCEPT !.pc = "idle", !.src = <<>>, !.n = 0, !.i = 0]
  /\ UNCHANGED <<slots, readIndex, consumer, delivered>>

(* Fault: push() stays until the whole batch is written. *)
PushPublishWhole ==
  /\ producer.pc = "copy"
  /\ producer.i = Len(producer.src)
  /\ writeIndex' = Add(writeIndex, producer.n)
  /\ producer' = [producer EXCEPT !.pc = "idle", !.src = <<>>, !.n = 0, !.i = 0]
  /\ UNCHANGED <<slots, readIndex, consumer, delivered>>

PushPublish ==
  /\ producer.pc = "copy"
  /\ producer.i = producer.n
  /\ writeIndex' = Add(writeIndex, producer.n)
  /\ producer' = [producer EXCEPT !.pc = "idle", !.src = <<>>, !.n = 0, !.i = 0]
  /\ UNCHANGED <<slots, readIndex, consumer, delivered>>

(* availableToWrite(), or availableToRead() on the producer's thread: the    *)
(* answer depends on readIndex_ alone, which the thread has then seen.       *)
AvailableToWrite ==
  /\ producer.pc = "idle"
  /\ \E r \in Visible(producer.seen, readIndex) : producer' = [producer EXCEPT !.seen = r]
  /\ UNCHANGED <<slots, writeIndex, readIndex, consumer, delivered>>
-----------------------------------------------------------------------------
(***************************************************************************)
(* The consumer thread.                                                    *)
(***************************************************************************)
(* Fault: pop() trusts its caller and does not look at what is available. *)
PopBeginUnbounded(count) ==
  /\ consumer.pc = "idle"
  /\ \E w \in Visible(consumer.seen, writeIndex) :
       consumer' = [pc |-> "copy", seen |-> w, dst |-> <<>>, n |-> Least(count, Capacity)]
  /\ UNCHANGED <<slots, writeIndex, readIndex, producer, delivered>>

PopBegin(count) ==
  /\ consumer.pc = "idle"
  /\ \E w \in Visible(consumer.seen, writeIndex) :
       consumer' = [pc |-> "copy", seen |-> w, dst |-> <<>>,
                    n |-> Least(count, Dist(readIndex, w))]
  /\ UNCHANGED <<slots, writeIndex, readIndex, producer, delivered>>

PopCopy ==
  /\ consumer.pc = "copy"
  /\ Len(consumer.dst) < consumer.n
  /\ consumer' = [consumer EXCEPT !.dst = Append(@, slots[Slot(Add(readIndex, Len(@)))])]
  /\ UNCHANGED <<slots, writeIndex, readIndex, producer, delivered>>

PopPublish ==
  /\ consumer.pc = "copy"
  /\ Len(consumer.dst) = consumer.n
  /\ readIndex' = Add(readIndex, consumer.n)
  /\ delivered' = consumer.dst
  /\ consumer' = [consumer EXCEPT !.pc = "idle", !.n = 0, !.dst = <<>>]
  /\ UNCHANGED <<slots, writeIndex, producer>>

AvailableToRead ==
  /\ consumer.pc = "idle"
  /\ \E w \in Visible(consumer.seen, writeIndex) : consumer' = [consumer EXCEPT !.seen = w]
  /\ UNCHANGED <<slots, writeIndex, readIndex, producer, delivered>>

(* clear(): the load of writeIndex_, then the store to readIndex_. *)
ClearBegin ==
  /\ consumer.pc = "idle"
  /\ \E w \in Visible(consumer.seen, writeIndex) :
       consumer' = [consumer EXCEPT !.pc = "clear", !.seen = w]
  /\ UNCHANGED <<slots, writeIndex, readIndex, producer, delivered>>

ClearPublish ==
  /\ consumer.pc = "clear"
  /\ readIndex' = consumer.seen
  /\ consumer' = [consumer EXCEPT !.pc = "idle"]
  /\ UNCHANGED <<slots, writeIndex, producer, delivered>>
-----------------------------------------------------------------------------
ProducerStep ==
  \/ \E src \in Batches : PushBegin(src)
  \/ PushCopy
  \/ PushPublish
  \/ AvailableToWrite

ConsumerStep ==
  \/ \E count \in Counts : PopBegin(count)
  \/ PopCopy
  \/ PopPublish
  \/ AvailableToRead
  \/ ClearBegin
  \/ ClearPublish

Next == ProducerStep \/ ConsumerStep

Spec == Init /\ [][Next]_vars
-----------------------------------------------------------------------------
(* The number of samples between the two indexes. *)
Used == Dist(readIndex, writeIndex)

TypeOK ==
  /\ slots \in [0 .. Capacity - 1 -> Sample]
  /\ writeIndex \in Index
  /\ readIndex \in Index
  /\ producer \in [pc : {"idle", "copy"}, seen : Index, src : Seq(Sample),
                   n : 0 .. Capacity, i : 0 .. Capacity]
  /\ consumer \in [pc : {"idle", "copy", "clear"}, seen : Index,
                   n : 0 .. Capacity, dst : Seq(Sample)]
  /\ delivered \in Seq(Sample)

(* No slot that a push() in progress has still to write is one the consumer  *)
(* may yet read: the copy loops of ring_buffer.cpp:27-29 and 40-42 never      *)
(* touch the same slot at the same time, and no unread sample is overwritten, *)
(* however the indexes wrap and however old the loaded indexes are.           *)
NoDataRace ==
  producer.pc = "copy" =>
    \A i \in producer.i .. producer.n - 1, k \in 0 .. Used - 1 :
      Slot(Add(writeIndex, i)) # Slot(Add(readIndex, k))

(* The two threads together never let the indexes pass each other: the        *)
(* consumer never reads past what was published, a push() in progress fits    *)
(* beside the unread samples, and clear() never moves readIndex_ past or      *)
(* behind where it is (unsigned subtractions at ring_buffer.cpp:24 and 37     *)
(* never underflow).                                                          *)
IndexesInStep ==
  /\ Used + producer.n =< Capacity
  /\ consumer.n =< Used
  /\ Dist(readIndex, consumer.seen) =< Used
  /\ Dist(producer.seen, readIndex) + Used =< Capacity

(* The queue the indexes delimit, oldest sample first. *)
Queue == [k \in 1 .. Used |-> slots[Slot(Add(readIndex, k - 1))]]

(* What the header promises, whatever the interleaving: the ring is a bounded *)
(* FIFO.  What push() accepts of a batch becomes visible at once, in order and *)
(* unharmed, pop() returns the oldest samples, and a copy in progress changes *)
(* nothing.                                                                   *)
Fifo == INSTANCE BoundedFifo WITH offered <- producer.src, queue <- Queue
ImplementsFifo == Fifo!Spec

(* Neither thread waits for the other: a push() returns as long as its own     *)
(* thread runs, a pop() or clear() as long as its own does, even if the other  *)
(* thread is stopped in the middle of a copy for ever, the ring being full,    *)
(* empty or neither.  That is why the realtime threads may call them           *)
(* ("without locks", ring_buffer.h:13).                                        *)
WaitFree ==
  /\ WF_vars(PushCopy \/ PushPublish) => (producer.pc # "idle" ~> producer.pc = "idle")
  /\ WF_vars(PopCopy \/ PopPublish \/ ClearPublish) =>
       (consumer.pc # "idle" ~> consumer.pc = "idle")
=============================================================================
