---------------------------- MODULE MCRingBuffer ----------------------------
(* A small ring whose indexes wrap after a few rounds; the batches are every  *)
(* sequence of up to MaxBatch samples, longer than the ring included.         *)
EXTENDS RingBuffer

CONSTANTS zero, tone, MaxBatch

MCSample == {zero, tone}
MCBatches == UNION {[1 .. k -> MCSample] : k \in 1 .. MaxBatch}
=============================================================================
