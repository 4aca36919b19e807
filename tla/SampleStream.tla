---------------------------- MODULE SampleStream ----------------------------
(***************************************************************************)
(* What the platform front ends share: blocks of samples, and the two      *)
(* queues of core/audio seen from a thread that finds them at rest.  A     *)
(* sample is its position in the captured stream, 1, 2, 3, ..., so that an *)
(* order, a gap or a repetition shows; what a model computes from it keeps *)
(* the position.                                                           *)
(***************************************************************************)
EXTENDS Naturals, Sequences

(* The 0.0f that fills a buffer on underrun. *)
Silence == 0

Least(a, b) == IF a =< b THEN a ELSE b

(* The samples at positions first, ..., first + n - 1. *)
Block(first, n) == [k \in 1 .. n |-> first + k - 1]

First(queue, n) == SubSeq(queue, 1, n)
Rest(queue, n) == SubSeq(queue, n + 1, Len(queue))

(* Fault: a ring that keeps one slot free to tell full from empty. *)
AcceptedButOne(ring, batch, capacity) ==
  First(batch, Least(Len(batch), capacity - 1 - Len(ring)))

(* RingBuffer::push(): what fits of the batch, the rest is not written.    *)
Accepted(ring, batch, capacity) == First(batch, Least(Len(batch), capacity - Len(ring)))

(* A caller's buffer of n samples after `got' was written to its start and  *)
(* std::fill to the rest.                                                   *)
Padded(got, n) == got \o [k \in 1 .. n - Len(got) |-> Silence]

(* RingBuffer::nextPowerOfTwo. *)
NextPowerOfTwo(v) ==
  LET double[p \in Nat] == IF p < v THEN double[2 * p] ELSE p
  IN  IF v < 2 THEN 2 ELSE double[1]
=============================================================================
