---------------------------- MODULE BoundedFifo ----------------------------
(***************************************************************************)
(* What core/include/denoise/ring_buffer.h promises its two threads: a     *)
(* bounded first-in first-out queue of samples.  push() appends a prefix   *)
(* of what it is given, pop() removes and returns the oldest samples, and  *)
(* clear() forgets some of the oldest samples.  Each takes effect in one   *)
(* step, although the code copies one sample at a time.                    *)
(***************************************************************************)
EXTENDS Naturals, Sequences

CONSTANTS Capacity,     \* most samples the queue holds
          Batches       \* what the producer may pass to push()

VARIABLES offered,      \* the batch of the push() in progress, else <<>>
          queue,        \* the samples pushed and not yet popped, oldest first
          delivered     \* what the last pop() wrote to its caller's buffer

vars == <<offered, queue, delivered>>

Init == offered = <<>> /\ queue = <<>> /\ delivered = <<>>

(* The call of push(). *)
Offer(batch) ==
  /\ offered = <<>>
  /\ offered' = batch
  /\ UNCHANGED <<queue, delivered>>

(* Its effect: the first n samples of the batch, as many as push() returns, *)
(* become visible together, behind all that is queued.                      *)
Push(n) ==
  /\ Len(queue) + n =< Capacity
  /\ queue' = queue \o SubSeq(offered, 1, n)
  /\ offered' = <<>>
  /\ UNCHANGED delivered

(* pop(): the oldest n samples go to the caller. *)
Pop(n) ==
  /\ delivered' = SubSeq(queue, 1, n)
  /\ queue' = SubSeq(queue, n + 1, Len(queue))
  /\ UNCHANGED offered

(* clear(): the oldest n samples are forgotten.  n is all that clear() saw, *)
(* which may be less than all there is by the time it takes effect.         *)
Clear(n) ==
  /\ queue' = SubSeq(queue, n + 1, Len(queue))
  /\ UNCHANGED <<offered, delivered>>

Next ==
  \/ \E batch \in Batches : Offer(batch)
  \/ \E n \in 0 .. Len(offered) : Push(n)
  \/ \E n \in 0 .. Len(queue) : Pop(n) \/ Clear(n)

Spec == Init /\ [][Next]_vars
=============================================================================
