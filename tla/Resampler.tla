------------------------------ MODULE Resampler ------------------------------
(***************************************************************************)
(* core/audio/resampler.cpp: linear interpolation of a stream given in     *)
(* chunks.  The read position is a multiple of 1/outputRate of an input    *)
(* sample, so it is an integer here; the rounding of doubles is left out.  *)
(* An input sample is its position in the stream, and an output sample is  *)
(* the two inputs and the fraction it is interpolated from.                *)
(***************************************************************************)
EXTENDS SampleStream, FiniteSets, Integers

CONSTANTS Rates,        \* the pairs <<inputRate, outputRate>> to construct it with
          Chunks,       \* sizes of the chunks given to process()
          MaxReceived   \* bound on the length of the stream

(* The constructor throws unless both rates are positive. *)
ASSUME ResamplerAssumption ==
  /\ Rates \subseteq (Nat \ {0}) \X (Nat \ {0})
  /\ Chunks \subseteq Nat
  /\ MaxReceived \in Nat

VARIABLES rates,
          phase,        \* phase_, in units of 1/outputRate of an input sample
          pending,      \* pending_
          received,     \* input samples given to process() so far
          output        \* output samples it has returned so far

vars == <<rates, phase, pending, received, output>>

inputRate == rates[1]       \* also step: inputRate_/outputRate_ in those units
outputRate == rates[2]

Init ==
  /\ rates \in Rates
  /\ phase = 0
  /\ pending = <<>>
  /\ received = 0
  /\ output = <<>>
-----------------------------------------------------------------------------
(* Fault: the loop stops a sample early. *)
DeterminableInside(size) ==
  Cardinality({k \in 0 .. size * outputRate :
                 (phase + k * inputRate) \div outputRate + 2 < size})

(* The turns of the loop for a buffer of this size. *)
Determinable(size) ==
  Cardinality({k \in 0 .. size * outputRate :
                 (phase + k * inputRate) \div outputRate + 1 < size})

(* The output sample at a read position. *)
Interpolated(buffer, pos) ==
  LET i0 == pos \div outputRate
  IN  [s0 |-> buffer[i0 + 1], s1 |-> buffer[i0 + 2], frac |-> pos % outputRate]

(* consumedWhole, clamped to leave at least one sample. *)
Consumed(pos, size) == Least(pos \div outputRate, size - 1)

(* Fault: only the fraction of a sample is kept. *)
PhaseTruncated(pos, consumed) == pos % outputRate

PhaseAfter(pos, consumed) == pos - consumed * outputRate

Process(n) ==
  LET buffer == pending \o Block(received + 1, n)
      turns == IF Len(buffer) < 2 THEN 0 ELSE Determinable(Len(buffer))
      pos == phase + turns * inputRate
      consumed == Consumed(pos, Len(buffer))
  IN  /\ received + n =< MaxReceived
      /\ received' = received + n
      /\ output' = output \o [k \in 1 .. turns |->
                                Interpolated(buffer, phase + (k - 1) * inputRate)]
      /\ IF Len(buffer) < 2
         THEN pending' = buffer /\ phase' = phase
         ELSE pending' = Rest(buffer, consumed) /\ phase' = PhaseAfter(pos, consumed)
      /\ UNCHANGED rates

Next == \E n \in Chunks : Process(n)

Spec == Init /\ [][Next]_vars
-----------------------------------------------------------------------------
(* The read position of output sample k in the whole stream. *)
Position(k) == (k - 1) * inputRate

(* Cutting the stream into chunks changes nothing: every output sample is the *)
(* one that resampling the whole stream at once gives, however short the      *)
(* chunks are for the ratio, where the clamp at resampler.cpp:46 carries a    *)
(* phase of more than a sample over to the next call.                         *)
ChunksDoNotMatter ==
  \A k \in DOMAIN output :
    output[k] = [s0 |-> Position(k) \div outputRate + 1,
                 s1 |-> Position(k) \div outputRate + 2,
                 frac |-> Position(k) % outputRate]

(* "as many output samples as are currently determinable" (resampler.h:22-23):*)
(* the next one needs an input sample that has not been received.             *)
NothingHeldBack ==
  Position(Len(output) + 1) \div outputRate + 2 > received
=============================================================================
