-------------------------- MODULE DenoiseCli_proofs --------------------------
(***************************************************************************)
(* denoise_cli and the resampler it calls.  A stream resampled in chunks   *)
(* is the stream resampled at once, for every ratio of rates and every way *)
(* to cut it; the tool, which resamples in one call, decodes only what is  *)
(* inside its input file and writes the input as --rate has it.            *)
(***************************************************************************)
EXTENDS DenoiseCli, SampleStream_proofs

(* A resampler by itself. *)
CONSTANTS Rates, Chunks, MaxReceived
VARIABLES rates, phase, pending, received, resampled

Stream == INSTANCE Resampler WITH output <- resampled

(* The instance's blocks and counts are those the lemmas are about.           *)
LEMMA SameOperators ==
  /\ \A a, n : Stream!Block(a, n) = Block(a, n)
  /\ \A q, n : Stream!Rest(q, n) = Rest(q, n)
  /\ \A a, b : Stream!Least(a, b) = Least(a, b)
  /\ \A S : Stream!Cardinality(S) = Cardinality(S)
<1>1. /\ \A a, n : Stream!Block(a, n) = Block(a, n)
      /\ \A q, n : Stream!Rest(q, n) = Rest(q, n)
      /\ \A a, b : Stream!Least(a, b) = Least(a, b)
  BY Zenon DEF Stream!Block, Block, Stream!Rest, Rest, Stream!Least, Least
<1>2. \A S : Stream!Cardinality(S) = Cardinality(S)
  BY Zenon DEF Stream!Cardinality, Cardinality
<1> QED
  BY <1>1, <1>2

OutputSamples == [s0 : Nat, s1 : Nat, frac : Nat]

(* What is pending follows what was dropped, and the phase is where the next  *)
(* output sample lies in it.                                                  *)
Dropped == received - Len(pending)

StreamInv ==
  /\ rates \in (Nat \ {0}) \X (Nat \ {0})
  /\ phase \in Nat /\ received \in Nat
  /\ pending \in Seq(Nat) /\ Len(pending) =< received
  /\ pending = Block(Dropped + 1, Len(pending))
  /\ resampled \in Seq(OutputSamples)
  /\ Dropped * rates[2] + phase = Len(resampled) * rates[1]
  /\ Stream!ChunksDoNotMatter
  /\ Stream!NothingHeldBack

(* One process(): with less than two samples it waits; otherwise it goes as   *)
(* far as it can, and one sample is left.                                     *)
LEMMA ProcessStream ==
  ASSUME StreamInv, Stream!ResamplerAssumption, NEW n \in Chunks, Stream!Process(n)
  PROVE  StreamInv'
<1>0. PICK in \in Nat \ {0}, out \in Nat \ {0}, held \in Nat, made \in Nat, dropped \in Nat :
        /\ rates[1] = in /\ rates[2] = out /\ Len(pending) = held /\ Len(resampled) = made
        /\ Dropped = dropped
  <2>1. /\ rates[1] \in Nat \ {0} /\ rates[2] \in Nat \ {0}
        /\ Len(pending) \in Nat /\ Len(resampled) \in Nat
        /\ received \in Nat /\ Len(pending) =< received
    BY DEF StreamInv
  <2>2. Dropped \in Nat
    BY <2>1 DEF Dropped
  <2> QED
    BY <2>1, <2>2
<1> DEFINE size == held + n
           buffer == Block(dropped + 1, size)
<1>1. /\ in \in Nat \ {0} /\ out \in Nat \ {0} /\ held \in Nat /\ made \in Nat /\ dropped \in Nat
      /\ phase \in Nat /\ received \in Nat /\ held =< received /\ n \in Nat
      /\ pending \in Seq(Nat) /\ resampled \in Seq(OutputSamples)
  BY <1>0 DEF StreamInv, Stream!ResamplerAssumption
<1>2. /\ pending = Block(dropped + 1, held)
      /\ dropped * out + phase = made * in
      /\ \A k \in 1 .. made :
           resampled[k] = [s0 |-> ((k - 1) * in) \div out + 1,
                           s1 |-> ((k - 1) * in) \div out + 2,
                           frac |-> ((k - 1) * in) % out]
  <2>1. pending = Block(Dropped + 1, Len(pending))
        /\ Dropped * rates[2] + phase = Len(resampled) * rates[1]
    BY DEF StreamInv
  <2>2. DOMAIN resampled = 1 .. made
    BY <1>0, <1>1
  <2>3. \A k \in DOMAIN resampled :
          resampled[k] = [s0 |-> ((k - 1) * rates[1]) \div rates[2] + 1,
                          s1 |-> ((k - 1) * rates[1]) \div rates[2] + 2,
                          frac |-> ((k - 1) * rates[1]) % rates[2]]
    BY Zenon DEF StreamInv, Stream!ChunksDoNotMatter, Stream!Position, Stream!inputRate,
             Stream!outputRate
  <2> QED
    BY <1>0, <2>1, <2>2, <2>3
<1>3. rates' = rates /\ received' = received + n
  BY DEF Stream!Process
<1>4. /\ (dropped + 1) + held = received + 1 /\ dropped + 1 \in Nat \ {0}
      /\ size \in Nat /\ dropped + size = received + n
  <2>1. dropped = received - held
    BY <1>0 DEF Dropped
  <2> QED
    BY <1>1, <2>1
<1>5. pending \o Stream!Block(received + 1, n) = buffer
  <2>0. dropped + 1 \in Nat \ {0} /\ held \in Nat /\ n \in Nat
    BY <1>1
  <2>1. Block(dropped + 1, held) \o Block((dropped + 1) + held, n) = Block(dropped + 1, held + n)
    BY <2>0, JoinBlocks, Zenon
  <2>2. Stream!Block(received + 1, n) = Block(received + 1, n)
    BY SameOperators
  <2> QED
    BY <1>2, <1>4, <2>1, <2>2
<1>6. buffer \in Seq(Nat) /\ Len(buffer) = size
  BY <1>4, BlockLength
<1> DEFINE turns == IF size < 2 THEN 0 ELSE Stream!Determinable(size)
           pos == phase + turns * in
           new == [k \in 1 .. turns |-> Stream!Interpolated(buffer, phase + (k - 1) * in)]
           consumed == Stream!Consumed(pos, size)
<1>7. /\ resampled' = resampled \o new
      /\ size < 2 => pending' = buffer /\ phase' = phase
      /\ ~(size < 2) => pending' = Stream!Rest(buffer, consumed)
                        /\ phase' = pos - consumed * out
  <2> HIDE DEF buffer, size
  <2> QED
    BY <1>0, <1>5, <1>6 DEF Stream!Process, Stream!inputRate, Stream!outputRate, Stream!PhaseAfter
<1>8. /\ turns \in Nat
      /\ \A k \in Nat : k < turns => (phase + k * in) \div out + 1 < size
      /\ ~((phase + turns * in) \div out + 1 < size)
  <2>1. CASE size < 2
    <3>1. turns = 0 /\ phase + turns * in = phase /\ phase \div out \in Nat
      BY <1>1, <2>1, Quotient
    <3> HIDE DEF turns, size
    <3>2. ~(phase \div out + 1 < size)
      BY <1>1, <1>4, <2>1, <3>1
    <3> QED
      BY <3>1, <3>2
  <2>2. CASE ~(size < 2)
    <3>1. turns = Cardinality({k \in 0 .. size * out : (phase + k * in) \div out + 1 < size})
      BY <1>0, <2>2, SameOperators
         DEF Stream!Determinable, Stream!inputRate, Stream!outputRate
    <3> HIDE DEF turns, size
    <3>2. size \in Nat \ {0}
      BY <1>4, <2>2
    <3>3. PICK t \in Nat :
            /\ Cardinality({k \in 0 .. size * out : (phase + k * in) \div out + 1 < size}) = t
            /\ \A k \in Nat : (phase + k * in) \div out + 1 < size <=> k < t
      BY <1>1, <3>2, TurnsAre
    <3>4. turns = t /\ ~(t < t)
      BY <3>1, <3>3
    <3> QED
      BY <3>3, <3>4
  <2> QED
    BY <2>1, <2>2
<1> HIDE DEF turns
<1>9. /\ new \in Seq(OutputSamples) /\ Len(new) = turns
      /\ \A k \in 1 .. turns :
           new[k] = [s0 |-> (((made + k) - 1) * in) \div out + 1,
                     s1 |-> (((made + k) - 1) * in) \div out + 2,
                     frac |-> (((made + k) - 1) * in) % out]
  <2>1. ASSUME NEW k \in 1 .. turns
        PROVE  /\ Stream!Interpolated(buffer, phase + (k - 1) * in)
                    = [s0 |-> (((made + k) - 1) * in) \div out + 1,
                       s1 |-> (((made + k) - 1) * in) \div out + 2,
                       frac |-> (((made + k) - 1) * in) % out]
               /\ Stream!Interpolated(buffer, phase + (k - 1) * in) \in OutputSamples
    <3> DEFINE j == k - 1
               p == phase + j * in
               i == p \div out
               f == p % out
               there == (made + j) * in
    <3>1. j \in Nat /\ j < turns /\ (made + k) - 1 = made + j
      BY <1>1, <1>8
    <3> HIDE DEF j
    <3>0. /\ in \in Nat \ {0} /\ out \in Nat \ {0} /\ dropped \in Nat /\ made \in Nat
          /\ phase \in Nat /\ dropped * out + phase = made * in /\ j \in Nat
      BY <1>1, <1>2, <3>1
    <3>2. p \in Nat /\ there \div out = dropped + i /\ there % out = f
      BY <3>0
    <3>3. i + 1 < size
      BY <1>8, <3>1
    <3> HIDE DEF p
    <3>4. i \in Nat /\ f \in Nat
      BY <1>1, <3>2, Quotient
    <3>5. Stream!Interpolated(buffer, p)
            = [s0 |-> dropped + i + 1, s1 |-> dropped + i + 2, frac |-> f]
      <4>1. Stream!Interpolated(buffer, p)
              = [s0 |-> buffer[i + 1], s1 |-> buffer[i + 2], frac |-> f]
        <5> HIDE DEF buffer
        <5> QED
          BY <1>0 DEF Stream!Interpolated, Stream!outputRate
      <4> HIDE DEF i, f, size
      <4>2. i + 1 \in 1 .. size /\ i + 2 \in 1 .. size
        BY <1>4, <3>3, <3>4
      <4>3. buffer[i + 1] = dropped + i + 1 /\ buffer[i + 2] = dropped + i + 2
        BY <1>1, <3>4, <4>2 DEF Block
      <4> QED
        BY <4>1, <4>3
    <3>6. dropped + i + 1 \in Nat /\ dropped + i + 2 \in Nat
      <4> HIDE DEF i
      <4> QED
        BY <1>4, <3>4
    <3>7. Stream!Interpolated(buffer, p)
            = [s0 |-> there \div out + 1, s1 |-> there \div out + 2, frac |-> there % out]
      BY <3>2, <3>5
    <3>8. Stream!Interpolated(buffer, p) \in OutputSamples
      <4> HIDE DEF i, f
      <4> QED
        BY <3>4, <3>5, <3>6 DEF OutputSamples
    <3> QED
      BY <3>1, <3>7, <3>8 DEF p, j
  <2> HIDE DEF buffer
  <2>2. \A k \in 1 .. turns : Stream!Interpolated(buffer, phase + (k - 1) * in) \in OutputSamples
    BY <2>1
  <2>3. new \in Seq(OutputSamples) /\ Len(new) = turns
    BY <1>8, <2>2, IsASeq
  <2> QED
    BY <2>1, <2>3
<1> HIDE DEF new
<1>10. /\ resampled' \in Seq(OutputSamples) /\ Len(resampled') = made + turns
       /\ \A k \in 1 .. made + turns :
            resampled'[k] = IF k =< made THEN resampled[k] ELSE new[k - made]
  <2>1. /\ resampled \o new \in Seq(OutputSamples)
        /\ Len(resampled \o new) = Len(resampled) + Len(new)
        /\ \A k \in 1 .. Len(resampled) + Len(new) :
             (resampled \o new)[k] = IF k =< Len(resampled) THEN resampled[k]
                                     ELSE new[k - Len(resampled)]
    BY <1>1, <1>9, ConcatProperties
  <2> QED
    BY <1>0, <1>7, <1>9, <2>1
<1>11. Stream!ChunksDoNotMatter'
  <2>1. ASSUME NEW k \in 1 .. made + turns
        PROVE  resampled'[k] = [s0 |-> ((k - 1) * in) \div out + 1,
                                s1 |-> ((k - 1) * in) \div out + 2,
                                frac |-> ((k - 1) * in) % out]
    <3>1. CASE k =< made
      <4>1. k \in 1 .. made
        BY <3>1
      <4> QED
        BY <1>2, <1>10, <3>1, <4>1
    <3>2. CASE ~(k =< made)
      <4>1. k - made \in 1 .. turns /\ made + (k - made) = k
        BY <1>8, <3>2
      <4> QED
        BY <1>9, <1>10, <3>2, <4>1
    <3> QED
      BY <3>1, <3>2
  <2>2. DOMAIN resampled' = 1 .. made + turns
    BY <1>10
  <2>3. rates'[1] = in /\ rates'[2] = out
    BY <1>0, <1>3
  <2> QED
    BY <2>1, <2>2, <2>3, Zenon
       DEF Stream!ChunksDoNotMatter, Stream!Position, Stream!inputRate, Stream!outputRate
(* The next sample lies in or behind the last one there is.                   *)
<1> DEFINE steps == turns * in
<1>12. /\ steps \in Nat /\ pos \in Nat
       /\ pos \div out \in Nat /\ size =< pos \div out + 1
       /\ ((made + turns) * in) \div out = dropped + (pos \div out)
       /\ (made + turns) * in = made * in + steps
  <2>1. pos \in Nat /\ ((made + turns) * in) \div out = dropped + (pos \div out)
    <3>1. /\ in \in Nat \ {0} /\ out \in Nat \ {0} /\ dropped \in Nat /\ made \in Nat
          /\ phase \in Nat /\ dropped * out + phase = made * in /\ turns \in Nat
      BY <1>1, <1>2, <1>8
    <3> QED
      BY <3>1
  <2>2. steps \in Nat /\ (made + turns) * in = made * in + steps
    BY <1>8
  <2>3. ~(pos \div out + 1 < size)
    BY <1>8
  <2> DEFINE q == pos \div out
  <2>4. q \in Nat
    BY <2>1, Quotient
  <2> HIDE DEF q
  <2>5. size =< q + 1
    BY <1>4, <2>3, <2>4 DEF q
  <2> QED
    BY <2>1, <2>2, <2>4, <2>5 DEF q
<1>13. Stream!NothingHeldBack'
  <2>1. ((made + turns) + 1 - 1) * in = (made + turns) * in
    BY <1>8
  <2> DEFINE q == pos \div out
  <2>2. q \in Nat /\ size =< q + 1 /\ ((made + turns) * in) \div out = dropped + q
    BY <1>12
  <2> HIDE DEF q, size
  <2>3. (dropped + q) + 2 > received + n
    BY <1>1, <1>4, <2>2
  <2>4. rates'[1] = in /\ rates'[2] = out /\ Len(resampled') = made + turns
    BY <1>0, <1>3, <1>10
  <2> QED
    BY <1>3, <2>1, <2>2, <2>3, <2>4
       DEF Stream!NothingHeldBack, Stream!Position, Stream!inputRate, Stream!outputRate
<1>14. PICK rest \in Nat, gone \in Nat, at \in Nat :
         /\ gone + rest = received + n
         /\ pending' = Block(gone + 1, rest) /\ phase' = at
         /\ gone * out + at = (made + turns) * in
  <2>1. CASE size < 2
    <3>1. turns = 0
      BY <2>1 DEF turns
    <3>2. pending' = Block(dropped + 1, size) /\ phase' = phase
      BY <1>7, <2>1
    <3>3. (made + turns) * in = made * in
      BY <1>1, <3>1
    <3> HIDE DEF size
    <3> QED
      BY <1>1, <1>2, <1>4, <3>2, <3>3
  <2>2. CASE ~(size < 2)
    <3> DEFINE q == pos \div out
               before == size - 1
               at == pos - before * out
               gone == dropped + before
    <3>1. /\ pos \in Nat /\ q \in Nat /\ size =< q + 1
          /\ (made + turns) * in = made * in + steps /\ pos = phase + steps
          /\ steps \in Nat
      BY <1>12
    <3>2. before \in Nat /\ before \in 0 .. size /\ size - before = 1 /\ gone \in Nat
          /\ gone + 1 = received + n /\ (dropped + 1) + before = gone + 1
      <4> HIDE DEF size
      <4> QED
        BY <1>1, <1>4, <2>2
    <3>3. consumed = before
      <4>1. Stream!Least(q, before) = Least(q, before)
        BY SameOperators
      <4>2. Stream!Consumed(pos, size) = Stream!Least(q, before)
        BY <1>0 DEF Stream!Consumed, Stream!outputRate
      <4> HIDE DEF q, pos, size
      <4>3. Least(q, before) = before
        BY <1>4, <3>1 DEF Least
      <4> QED
        BY <4>1, <4>2, <4>3
    <3>4. pending' = Rest(buffer, before) /\ phase' = at
      <4>1. Stream!Rest(buffer, before) = Rest(buffer, before)
        BY SameOperators
      <4> HIDE DEF buffer, before, size, pos
      <4> QED
        BY <1>7, <2>2, <3>3, <4>1
    <3>5. Rest(buffer, before) = Block(gone + 1, 1)
      <4>1. dropped + 1 \in Nat \ {0} /\ size \in Nat /\ before \in 0 .. size
        BY <1>1, <1>4, <3>2
      <4> HIDE DEF size, before
      <4>2. Rest(Block(dropped + 1, size), before) = Block((dropped + 1) + before, size - before)
        BY <4>1, SplitBlock
      <4> QED
        BY <3>2, <4>2
    <3>6. at \in Nat
      <4>0. before =< q
        <5> HIDE DEF q, size
        <5> QED
          BY <1>4, <3>1
      <4>1. /\ pos = q * out + (pos % out) /\ pos % out \in Nat
        <5>1. pos \in Nat /\ out \in Nat \ {0}
          BY <1>1, <3>1
        <5> HIDE DEF pos
        <5> QED
          BY <5>1, Quotient
      <4> DEFINE r == pos % out
                 low == before * out
                 high == q * out
      <4>2. low \in Nat /\ high \in Nat /\ low =< high
        <5> HIDE DEF before, q
        <5> QED
          BY <1>1, <3>1, <3>2, <4>0, Later
      <4> HIDE DEF r, low, high
      <4>3. pos = high + r /\ r \in Nat
        BY <4>1 DEF r, high
      <4>4. pos - low \in Nat
        <5> HIDE DEF pos
        <5> QED
          BY <4>2, <4>3
      <4> QED
        BY <4>4 DEF low
    <3>7. gone * out + at = (made + turns) * in
      <4> DEFINE low == before * out
                 kept == dropped * out
                 was == made * in
      <4>1. gone * out = kept + low /\ kept \in Nat /\ low \in Nat /\ was \in Nat
        <5> HIDE DEF before
        <5> QED
          BY <1>1, <3>2
      <4>2. kept + phase = was /\ at = (phase + steps) - low
        BY <1>2, <3>1
      <4> HIDE DEF low, kept, was, steps, at
      <4>3. (kept + low) + at = was + steps
        BY <1>1, <3>1, <4>1, <4>2
      <4> QED
        BY <3>1, <4>1, <4>3 DEF was
    <3> HIDE DEF at, gone, before
    <3> QED
      BY <3>2, <3>4, <3>5, <3>6, <3>7
  <2> QED
    BY <2>1, <2>2
<1>15. /\ pending' \in Seq(Nat) /\ Len(pending') = rest /\ Dropped' = gone
       /\ rest =< received + n
  <2>1. Block(gone + 1, rest) \in Seq(Nat) /\ Len(Block(gone + 1, rest)) = rest
    <3>1. gone + 1 \in Nat \ {0}
      BY <1>14
    <3> QED
      BY <1>14, <3>1, BlockLength
  <2>2. (received + n) - rest = gone /\ rest =< received + n
    BY <1>1, <1>14
  <2> QED
    BY <1>3, <1>14, <2>1, <2>2 DEF Dropped
<1>16. received' \in Nat /\ phase' \in Nat
  BY <1>1, <1>3, <1>14
<1>17. rates' \in (Nat \ {0}) \X (Nat \ {0}) /\ rates'[1] = in /\ rates'[2] = out
  BY <1>0, <1>3 DEF StreamInv
<1>18. pending' = Block(Dropped' + 1, Len(pending')) /\ Len(pending') =< received'
  BY <1>3, <1>14, <1>15
<1>19. Dropped' * rates'[2] + phase' = Len(resampled') * rates'[1]
  BY <1>10, <1>14, <1>15, <1>17
<1> QED
  BY <1>10, <1>11, <1>13, <1>15, <1>16, <1>17, <1>18, <1>19 DEF StreamInv

LEMMA InitStream ==
  ASSUME Stream!ResamplerAssumption, Stream!Init
  PROVE  StreamInv
<1>1. /\ rates \in (Nat \ {0}) \X (Nat \ {0}) /\ phase = 0 /\ received = 0
      /\ pending = <<>> /\ resampled = <<>>
  BY DEF Stream!Init, Stream!ResamplerAssumption
<1>2. /\ pending \in Seq(Nat) /\ Len(pending) = 0 /\ Dropped = 0
      /\ resampled \in Seq(OutputSamples) /\ Len(resampled) = 0 /\ DOMAIN resampled = {}
  <2>1. pending \in Seq(Nat) /\ Len(pending) = 0
    BY <1>1
  <2>2. Dropped = 0
    <3>1. received = 0
      BY <1>1
    <3>2. 0 - 0 = 0
      OBVIOUS
    <3> QED
      BY <2>1, <3>1, <3>2, Zenon DEF Dropped
  <2>3. resampled \in Seq(OutputSamples) /\ Len(resampled) = 0
    BY <1>1
  <2> QED
    BY <2>1, <2>2, <2>3
<1>3. pending = Block(Dropped + 1, Len(pending))
  <2>1. Len(Block(1, 0)) = 0 /\ Block(1, 0) \in Seq(Nat)
    BY BlockLength
  <2>2. Block(1, 0) = <<>>
    BY <2>1
  <2> QED
    BY <1>1, <1>2, <2>2
<1>4. PICK in \in Nat \ {0}, out \in Nat \ {0} : rates[1] = in /\ rates[2] = out
  BY <1>1
<1>5. Stream!NothingHeldBack
  <2>1. (Len(resampled) + 1 - 1) * in = 0
    BY <1>2, <1>4
  <2>2. 0 \div out = 0
    BY <1>4
  <2> QED
    BY <1>1, <1>4, <2>1, <2>2
       DEF Stream!NothingHeldBack, Stream!Position, Stream!inputRate, Stream!outputRate
<1>6. Stream!ChunksDoNotMatter
  BY <1>2 DEF Stream!ChunksDoNotMatter
<1>7. Dropped * rates[2] + phase = Len(resampled) * rates[1]
  BY <1>1, <1>2, <1>4
<1> QED
  BY <1>1, <1>2, <1>3, <1>5, <1>6, <1>7 DEF StreamInv

LEMMA StreamInductive ==
  ASSUME Stream!ResamplerAssumption
  PROVE  Stream!Spec => []StreamInv
<1>1. Stream!Init => StreamInv
  BY InitStream
<1>2. StreamInv /\ [Stream!Next]_Stream!vars => StreamInv'
  <2> SUFFICES ASSUME StreamInv, [Stream!Next]_Stream!vars
               PROVE  StreamInv'
    OBVIOUS
  <2>1. CASE Stream!Next
    BY <2>1, ProcessStream DEF Stream!Next
  <2>2. CASE UNCHANGED Stream!vars
    <3>1. /\ rates' = rates /\ phase' = phase /\ pending' = pending /\ received' = received
          /\ resampled' = resampled
      BY <2>2 DEF Stream!vars
    <3> QED
      BY <3>1 DEF StreamInv, Dropped, Stream!ChunksDoNotMatter, Stream!NothingHeldBack,
                  Stream!Position, Stream!inputRate, Stream!outputRate
  <2> QED
    BY <2>1, <2>2
<1> QED
  BY <1>1, <1>2, PTL DEF Stream!Spec

(* A stream resampled in chunks is the stream resampled at once, for every      *)
(* ratio of rates and every way to cut it: output sample k is interpolated at   *)
(* k - 1 steps from the start, although the phase is carried over a chunk, by   *)
(* more than a sample when the chunk was too short (resampler.cpp:40-51).       *)
THEOREM ChunksAreNothing ==
  ASSUME Stream!ResamplerAssumption
  PROVE  Stream!Spec => []Stream!ChunksDoNotMatter
<1>1. StreamInv => Stream!ChunksDoNotMatter
  BY DEF StreamInv
<1> QED
  BY <1>1, StreamInductive, PTL

(* Every output sample that can be computed is returned by the call that brings *)
(* the input for it (resampler.cpp:27-38): none waits for a later call.         *)
THEOREM NothingWaits ==
  ASSUME Stream!ResamplerAssumption
  PROVE  Stream!Spec => []Stream!NothingHeldBack
<1>1. StreamInv => Stream!NothingHeldBack
  BY DEF StreamInv
<1> QED
  BY <1>1, StreamInductive, PTL

-----------------------------------------------------------------------------
(* The tool.  A file it wrote, or the first bytes of one: two headers, samples *)
(* of 16 bits, and what these spell.                                           *)
IsWritten(f) ==
  /\ f.opens = TRUE
  /\ f.length \in Nat /\ f.length =< 44 + 2 * Len(Stored(f))
  /\ f.chunks[12] = [id |-> "fmt", size |-> 16, format |-> "pcm", channels |-> 1,
                     rate |-> f.chunks[12].rate, bits |-> 16]
  /\ f.chunks[12].rate \in Nat
  /\ f.chunks[36].id = "data" /\ f.chunks[36].size = DataSize(Len(Stored(f)))
  /\ Stored(f) \in Seq(-Scale .. Scale - 1)
  /\ \A p \in 13 .. 43 : p # 36 => f.chunks[p].id = "other" /\ f.chunks[p].size = 0
  /\ \A p \in 12 .. f.length : IsChunk(f.chunks[p])

Types ==
  /\ pc \in {"start", "chunks", "resample", "load", "frames", "write", "exited"}
  /\ args \in Commands
  /\ again \in BOOLEAN
  /\ samples \in Seq(Int)
  /\ output \in Seq(Int)
  /\ exit \in {"running", "usage", "failed", "aborted", "ok"}
  /\ err \in BOOLEAN
  /\ runs \in 1 .. MaxRuns

(* The files there are.                                                       *)
FilesInv ==
  /\ file.opens /\ file.riff => IsWavFile(file)
  /\ again => IsWritten(file)
  /\ outFile = NoOutput \/ IsWritten(outFile)

(* The last "fmt " and "data" chunks found are chunks of the file.            *)
ReaderInv ==
  /\ DOMAIN reader = {"pos", "fmt", "data", "start"}
  /\ reader.pos \in Nat /\ reader.pos >= 12
  /\ \/ reader.fmt = NoChunk
     \/ \E p \in 12 .. file.length : reader.fmt = file.chunks[p] /\ file.chunks[p].id = "fmt"
  /\ \/ reader.data = NoChunk
     \/ \E p \in 12 .. file.length :
          /\ reader.data = file.chunks[p] /\ file.chunks[p].id = "data"
          /\ reader.start = p + 8
          /\ p + 8 + reader.data.size =< file.length

(* Of a file the tool wrote, the walk finds the two headers in turn, and then  *)
(* at most what the samples spell behind a size that wrapped.                  *)
WalkInv ==
  again =>
    \/ reader.pos = 12 /\ reader.fmt = NoChunk /\ reader.data = NoChunk
    \/ reader.pos = 36 /\ reader.fmt = file.chunks[12] /\ reader.data = NoChunk
    \/ /\ reader.pos >= 44 + file.chunks[36].size
       /\ \/ reader.fmt = file.chunks[12] /\ reader.data = file.chunks[36]
          \/ Misleads(file)

(* What main() has passed by the time it is at a call.                        *)
PhaseInv ==
  /\ pc # "exited" => exit = "running"
  /\ pc = "start" => reader = NewReader
  /\ pc \in {"chunks", "resample", "load", "frames", "write"} => file.opens /\ file.riff
  /\ exit = "ok" => file.opens /\ file.riff
  /\ Loaded => Readable
  /\ pc \in {"start", "chunks", "resample", "load"} => output = <<>>
  /\ pc = "resample" => samples = Mono
  /\ pc = "write" \/ exit = "ok" => Len(samples) < args.frameSize
  /\ pc \in {"frames", "write"} => args.model # "refused"

(* How many samples of rate `out' the input has, and what sample k of them is. *)
DueLength(in, out, input) ==
  CASE in = out -> Len(input)
    [] in # out /\ Len(input) = 0 -> 0
    [] OTHER -> ((Len(input) - 1) * out + in - 1) \div in

Between(out, input, i, frac) ==
  IF frac = 0 THEN out * input[i] ELSE (out - frac) * input[i] + frac * input[i + 1]

IsDue(in, out, input, k, v) ==
  IF in = out
  THEN v = input[k]
  ELSE Between(out, input, (((k - 1) * in) \div out) + 1, ((k - 1) * in) % out)
         - out * v \in 0 .. out - 1

(* The output and what is still in the framer are the input at --rate.        *)
StreamFollows ==
  pc \in {"load", "frames", "write"} \/ exit = "ok" =>
    /\ reader.fmt.rate # args.rate => reader.fmt.rate # 0 /\ args.rate # 0
    /\ Len(output) + Len(samples) = DueLength(reader.fmt.rate, args.rate, Mono)
    /\ \A k \in 1 .. Len(output) : IsDue(reader.fmt.rate, args.rate, Mono, k, output[k])
    /\ \A k \in 1 .. Len(samples) :
         IsDue(reader.fmt.rate, args.rate, Mono, Len(output) + k, samples[k])

WrittenInv ==
  exit = "ok" =>
    /\ IsWritten(outFile)
    /\ Len(Stored(outFile)) = Len(output)
    /\ \A k \in 1 .. Len(output) : Stored(outFile)[k] = Quantized(output[k])

CliInv ==
  /\ Types
  /\ FilesInv
  /\ ReaderInv
  /\ WalkInv
  /\ PhaseInv
  /\ StreamFollows
  /\ WrittenInv


(* A quantised sample fits 16 bits, with the full scale to spare.             *)
LEMMA QuantizedRange ==
  ASSUME NEW v \in Int
  PROVE  Quantized(v) \in -Scale .. Scale - 1
<1>1. PICK s \in Nat \ {0} : Scale = s
  BY CliAssumption
<1> DEFINE m == Magnitude(Clamped(v))
           a == 2 * m * (s - 1) + 4 * s
           d == 8 * s
           q == a \div d
<1>2. m \in Nat /\ m =< 4 * s
  BY <1>1 DEF Magnitude, Clamped, Full
<1> HIDE DEF m
<1>3. a \in Nat /\ d \in Nat \ {0} /\ a < s * d
  <2> DEFINE p == 2 * (m * (s - 1))
  <2>1. m * (s - 1) \in Nat /\ m * (s - 1) =< (4 * s) * (s - 1)
    <3>1. s - 1 \in Nat /\ 4 * s \in Nat
      BY <1>1
    <3> QED
      BY <1>2, <3>1, Later
  <2>2. (4 * s) * (s - 1) = 4 * (s * s) - 4 * s /\ s * d = 8 * (s * s) /\ s * s \in Nat
    BY <1>1
  <2>3. a = p + 4 * s
    BY <1>1, <1>2
  <2> QED
    BY <1>1, <2>1, <2>2, <2>3
<1>4. q \in Nat /\ q < s
  <2> HIDE DEF a, d
  <2> QED
    BY <1>1, <1>3, Quotient, QuotientBelow
<1>5. Quantized(v) = IF v < 0 THEN -q ELSE q
  BY <1>1, <1>2 DEF Quantized, Full, m
<1> HIDE DEF q
<1> QED
  BY <1>1, <1>4, <1>5

(* A sample that was read, multiplied by 2^15 - 1 and rounded, is the one that  *)
(* was written or the next one to zero.                                         *)
LEMMA SecondStep ==
  ASSUME NEW f \in -Scale .. Scale - 1
  PROVE  /\ Magnitude(Quantized(4 * f) - f) =< 1
         /\ Magnitude(Quantized(4 * f)) =< Magnitude(f)
<1>1. PICK s \in Nat \ {0} : Scale = s
  BY CliAssumption
<1>2. PICK g \in Nat : g = Magnitude(f) /\ g =< s
  BY <1>1 DEF Magnitude
<1> DEFINE a == 2 * (4 * g) * (s - 1) + 4 * s
           d == 8 * s
           q == a \div d
<1>3. Magnitude(Clamped(4 * f)) = 4 * g
  BY <1>1, <1>2 DEF Magnitude, Clamped, Full
<1>4. Quantized(4 * f) = IF f < 0 THEN -q ELSE q
  <2>1. 2 * (4 * g) * (Scale - 1) + Full = a /\ 2 * Full = d
    BY <1>1 DEF Full
  <2>2. 4 * f < 0 <=> f < 0
    BY <1>1
  <2> HIDE DEF a, d
  <2>3. Quantized(4 * f) = IF 4 * f < 0 THEN -q ELSE q
    BY <1>3, <2>1, Zenon DEF Quantized
  <2> QED
    BY <2>2, <2>3
<1>5. a = g * d + (4 * s - 8 * g)
  BY <1>1, <1>2
<1>6. q \in Nat /\ q =< g /\ g =< q + 1
  <2>1. CASE 2 * g =< s
    <3>1. 4 * s - 8 * g \in Nat /\ 4 * s - 8 * g < d /\ d \in Nat \ {0} /\ a \in Nat
      BY <1>1, <1>2, <1>5, <2>1
    <3> HIDE DEF a, d
    <3> DEFINE r == 4 * s - 8 * g
    <3>2. r \in Nat /\ r < d /\ a = g * d + r
      BY <1>5, <3>1
    <3> HIDE DEF r
    <3>3. q = g
      BY <1>2, <3>1, <3>2, QuotientUnique
    <3> QED
      BY <1>2, <3>3
  <2>2. CASE ~(2 * g =< s)
    <3> DEFINE h == g - 1
               r == 12 * s - 8 * g
    <3>1. h \in Nat /\ r \in Nat /\ r < d /\ d \in Nat \ {0} /\ g = h + 1
      BY <1>1, <1>2, <2>2
    <3>2. a = h * d + r
      BY <1>1, <1>2, <1>5
    <3>3. h * d \in Nat
      BY <3>1
    <3>4. a \in Nat
      <4> HIDE DEF h, r, d, a
      <4> QED
        BY <3>1, <3>2, <3>3
    <3> HIDE DEF a, d, r, h
    <3>5. q = h
      BY <3>1, <3>2, <3>4, QuotientUnique
    <3> QED
      BY <1>2, <3>1, <3>5
  <2> QED
    BY <2>1, <2>2
<1> HIDE DEF q
<1> QED
  BY <1>1, <1>2, <1>4, <1>6 DEF Magnitude

(* The size in the header of a file that was written never says too much, and   *)
(* is the size of the samples unless it wrapped.                                *)
LEMMA DataSizeFits ==
  ASSUME NEW n \in Nat
  PROVE  /\ DataSize(n) \in Nat /\ DataSize(n) =< 2 * n /\ DataSize(n) < SizeMod
         /\ ~(2 * n >= SizeMod) => DataSize(n) = 2 * n
<1>1. PICK m \in Nat \ {0} : SizeMod = m
  BY CliAssumption
<1> DEFINE a == 2 * n
           q == a \div m
           r == a % m
<1>2. a \in Nat
  OBVIOUS
<1> HIDE DEF a
<1>3. q \in Nat /\ r \in Nat /\ a = q * m + r /\ r < m
  BY <1>1, <1>2, Quotient
<1>4. a < m => r = a
  <2>1. a < m => a = 0 * m + a
    BY <1>1, <1>2
  <2> QED
    BY <1>1, <1>2, <2>1, QuotientUnique
<1> HIDE DEF q, r
<1>5. q * m \in Nat
  BY <1>1, <1>3
<1>6. r \in Nat /\ r =< a /\ r < m /\ (~(a >= m) => r = a)
  BY <1>1, <1>2, <1>3, <1>4, <1>5
<1> QED
  BY <1>1, <1>6 DEF DataSize, r, a

(* What the tool writes is such a file, cut short or not.                       *)
LEMMA WrittenIsWritten ==
  ASSUME Types, NEW spelling \in Spellings
  PROVE  /\ IsWritten(Written(spelling))
         /\ Written(spelling).length = 44 + 2 * Len(output)
         /\ Stored(Written(spelling)) = [k \in 1 .. Len(output) |-> Quantized(output[k])]
         /\ \A length \in 0 .. Written(spelling).length :
              /\ IsWritten(CutOff(Written(spelling), length))
              /\ CutOff(Written(spelling), length).chunks = Written(spelling).chunks
<1> DEFINE n == Len(output)
           quantized == [k \in 1 .. n |-> Quantized(output[k])]
           fmt == [id |-> "fmt", size |-> 16, format |-> "pcm", channels |-> 1,
                   rate |-> args.rate, bits |-> 16]
           payload == [spelling.readings EXCEPT ![<<"pcm", 16>>] = quantized]
           data == [id |-> "data", size |-> DataSize(n), payload |-> payload]
           other == [id |-> "other", size |-> 0]
           chunks == [pos \in 12 .. 44 + 2 * n |->
                        CASE pos = 12 -> fmt
                          [] pos = 36 -> data
                          [] pos \in DOMAIN spelling.chunks -> spelling.chunks[pos]
                          [] OTHER -> other]
           all == Written(spelling)
<1>1. n \in Nat /\ args.rate \in Nat /\ \A k \in 1 .. n : output[k] \in Int
  BY InputAssumption DEF Types
<1>2. quantized \in Seq(-Scale .. Scale - 1) /\ quantized \in Seq(Int) /\ Len(quantized) = n
  <2>1. \A k \in 1 .. n : Quantized(output[k]) \in -Scale .. Scale - 1
    BY <1>1, QuantizedRange
  <2>2. \A k \in 1 .. n : Quantized(output[k]) \in Int
    BY <2>1, CliAssumption
  <2> HIDE DEF n
  <2> QED
    BY <1>1, <2>1, <2>2, IsASeq
<1>3. all = [opens |-> TRUE, riff |-> TRUE, length |-> 44 + 2 * n, chunks |-> chunks]
  BY DEF Written
<1>4. /\ \A p \in DOMAIN spelling.chunks : p \in Nat /\ p >= 44 /\ IsChunk(spelling.chunks[p])
      /\ spelling.readings \in [Encodings -> Seq(Int)]
      /\ \A e \in Encodings : SizeMod =< Len(spelling.readings[e]) * (Bits(e) \div 8)
  BY SpellingAssumption
<1> HIDE DEF quantized, n, all
<1>5. chunks[12] = fmt /\ chunks[36] = data
  <2>1. /\ 12 \in 12 .. 44 + 2 * n /\ 36 \in 12 .. 44 + 2 * n
        /\ 12 \notin DOMAIN spelling.chunks /\ 36 \notin DOMAIN spelling.chunks
    BY <1>1, <1>4
  <2> HIDE DEF fmt, data, other
  <2> QED
    BY <2>1
<1>6. \A p \in 13 .. 43 : p # 36 => chunks[p] = other
  <2> SUFFICES ASSUME NEW p \in 13 .. 43, p # 36
               PROVE  chunks[p] = other
    OBVIOUS
  <2>1. p \in 12 .. 44 + 2 * n /\ p # 12 /\ p \notin DOMAIN spelling.chunks
    BY <1>1, <1>4
  <2> HIDE DEF fmt, data, other
  <2> QED
    BY <2>1
<1>7. payload[<<"pcm", 16>>] = quantized
      /\ \A e \in Encodings : e # <<"pcm", 16>> => payload[e] = spelling.readings[e]
  <2>1. <<"pcm", 16>> \in Encodings
    BY DEF Encodings
  <2> QED
    BY <1>4, <2>1
<1>8. IsChunk(data)
  <2>1. DataSize(n) \in Nat /\ DataSize(n) =< 2 * n /\ DataSize(n) < SizeMod /\ SizeMod \in Nat
    BY <1>1, DataSizeFits, CliAssumption
  <2>2. ASSUME NEW e \in Encodings
        PROVE  payload[e] \in Seq(Int) /\ DataSize(n) =< Len(payload[e]) * (Bits(e) \div 8)
    <3>1. CASE e = <<"pcm", 16>>
      <4>1. Bits(e) \div 8 = 2
        BY <3>1 DEF Bits
      <4>2. DataSize(n) =< n * 2
        BY <1>1, <2>1
      <4> QED
        BY <1>2, <1>7, <3>1, <4>1, <4>2
    <3>2. CASE e # <<"pcm", 16>>
      <4>1. payload[e] = spelling.readings[e] /\ payload[e] \in Seq(Int)
        BY <1>4, <1>7, <3>2
      <4>2. SizeMod =< Len(payload[e]) * (Bits(e) \div 8)
        <5> HIDE DEF payload
        <5> QED
          BY <1>4, <4>1
      <4>3. Bits(e) \in {8, 16, 24, 32}
        BY DEF Encodings, Bits
      <4> DEFINE l == Len(payload[e])
                 w == Bits(e) \div 8
      <4>4. l \in Nat /\ w \in Nat
        BY <4>1, <4>3
      <4> HIDE DEF payload, l, w
      <4>5. l * w \in Nat
        BY <4>4, Later
      <4> DEFINE m == l * w
      <4>6. m \in Nat /\ SizeMod =< m
        BY <4>2, <4>5 DEF l, w
      <4> HIDE DEF m
      <4>7. DataSize(n) =< m
        BY <2>1, <4>6
      <4> QED
        BY <4>1, <4>7 DEF m, l, w
    <3> QED
      BY <3>1, <3>2
  <2> HIDE DEF payload
  <2> QED
    BY <2>1, <2>2 DEF IsChunk
<1>9. \A p \in 12 .. 44 + 2 * n : IsChunk(chunks[p])
  <2>1. IsChunk(fmt) /\ IsChunk(other)
    BY <1>1 DEF IsChunk
  <2> SUFFICES ASSUME NEW p \in 12 .. 44 + 2 * n
               PROVE  IsChunk(chunks[p])
    OBVIOUS
  <2> HIDE DEF fmt, data, other
  <2>2. \/ chunks[p] = fmt
        \/ chunks[p] = data
        \/ chunks[p] = other
        \/ p \in DOMAIN spelling.chunks /\ chunks[p] = spelling.chunks[p]
    OBVIOUS
  <2> HIDE DEF chunks
  <2> QED
    BY <1>4, <1>8, <2>1, <2>2
<1>10. /\ fmt = [id |-> "fmt", size |-> 16, format |-> "pcm", channels |-> 1,
                 rate |-> fmt.rate, bits |-> 16]
       /\ fmt.rate \in Nat
       /\ data.id = "data" /\ data.size = DataSize(n) /\ data.payload = payload
       /\ other.id = "other" /\ other.size = 0
  BY <1>1
<1> HIDE DEF chunks, fmt, data, other, payload
<1>11. ASSUME NEW w, w.opens = TRUE, w.chunks = chunks,
              w.length \in Nat, w.length =< 44 + 2 * n
       PROVE  IsWritten(w) /\ Stored(w) = quantized
  <2>1. Stored(w) = quantized
    BY <1>5, <1>7, <1>10, <1>11 DEF Stored
  <2>2. \A p \in 12 .. w.length : IsChunk(chunks[p])
    BY <1>1, <1>9, <1>11
  <2> QED
    BY <1>2, <1>5, <1>6, <1>10, <1>11, <2>1, <2>2 DEF IsWritten
<1>12. /\ all.opens = TRUE /\ all.chunks = chunks /\ all.length = 44 + 2 * n
       /\ DOMAIN all = {"opens", "riff", "length", "chunks"}
  BY <1>3
<1>13. all.length \in Nat /\ all.length =< 44 + 2 * n
  BY <1>1, <1>12
<1>14. ASSUME NEW length \in 0 .. all.length
       PROVE  IsWritten(CutOff(all, length)) /\ CutOff(all, length).chunks = all.chunks
  <2> DEFINE cut == CutOff(all, length)
  <2>1. cut.opens = TRUE /\ cut.chunks = chunks /\ cut.length = length
    BY <1>12 DEF CutOff
  <2>2. length \in Nat /\ length =< 44 + 2 * n
    BY <1>1, <1>12
  <2> HIDE DEF cut
  <2>3. IsWritten(cut)
    BY <1>11, <2>1, <2>2
  <2> QED
    BY <1>12, <2>1, <2>3 DEF cut
<1> QED
  BY <1>11, <1>12, <1>13, <1>14 DEF quantized, n, all

(* Whatever becomes of the write, the file is such a one.                       *)
LEMMA OutputWritten ==
  ASSUME Types, WriteOutput \/ WriteFails \/ CloseFails
  PROVE  /\ IsWritten(outFile')
         /\ Stored(outFile') = [k \in 1 .. Len(output) |-> Quantized(output[k])]
<1>1. PICK spelling \in Spellings :
        \/ outFile' = Written(spelling)
        \/ \E length \in 0 .. Written(spelling).length - 1 :
             outFile' = CutOff(Written(spelling), length)
  <2>1. CASE WriteOutput
    BY <2>1 DEF WriteOutput
  <2>2. CASE WriteFails
    BY <2>2 DEF WriteFails
  <2>3. CASE CloseFails
    BY <2>3 DEF CloseFails
  <2> QED
    BY <2>1, <2>2, <2>3
<1> DEFINE all == Written(spelling)
           quantized == [k \in 1 .. Len(output) |-> Quantized(output[k])]
<1>2. /\ IsWritten(all) /\ Stored(all) = quantized
      /\ \A length \in 0 .. all.length :
           /\ IsWritten(CutOff(all, length))
           /\ CutOff(all, length).chunks = all.chunks
  BY WrittenIsWritten
<1> HIDE DEF all, quantized
<1>3. CASE outFile' = all
  BY <1>2, <1>3 DEF quantized
<1>4. ASSUME NEW length \in 0 .. all.length - 1, outFile' = CutOff(all, length)
      PROVE  IsWritten(outFile') /\ Stored(outFile') = quantized
  <2>1. all.length \in Nat
    BY <1>2 DEF IsWritten
  <2>2. length \in 0 .. all.length
    BY <2>1
  <2>3. IsWritten(CutOff(all, length)) /\ CutOff(all, length).chunks = all.chunks
    BY <1>2, <2>2
  <2> QED
    BY <1>2, <1>4, <2>3 DEF Stored
<1> QED
  BY <1>1, <1>3, <1>4 DEF all, quantized

LEMMA WrittenIsWav ==
  ASSUME NEW f, IsWritten(f)
  PROVE  IsWavFile(f)
BY DEF IsWritten, IsWavFile

(* Induction up to n.                                                           *)
LEMMA UpTo ==
  ASSUME NEW n \in Nat, NEW S, 0 \in S,
         \A m \in Nat : m < n /\ m \in S => m + 1 \in S
  PROVE  \A m \in 0 .. n : m \in S
<1> DEFINE Missing == {m \in 0 .. n : m \notin S}
<1> SUFFICES ASSUME Missing # {} PROVE FALSE
  OBVIOUS
<1>1. Missing \in SUBSET Nat
  OBVIOUS
<1>2. PICK m \in Missing : \A k \in Missing : m =< k
  <2> HIDE DEF Missing
  <2> QED
    BY <1>1, LeastElement
<1>3. m \in 0 .. n /\ m \notin S /\ m # 0
  OBVIOUS
<1>4. m - 1 \in Nat /\ m - 1 < n /\ m - 1 \in 0 .. n /\ (m - 1) + 1 = m
  BY <1>3
<1>5. m - 1 \notin Missing
  BY <1>2, <1>4
<1>6. m - 1 \in S
  BY <1>4, <1>5
<1> QED
  BY <1>3, <1>4, <1>6

(* The sums of a sequence: there are such, and they are integers.               *)
LEMMA SumsDefined ==
  ASSUME NEW s \in Seq(Int)
  PROVE  /\ Sums(s)[0] = 0
         /\ \A k \in 0 .. Len(s) : Sums(s)[k] \in Int
         /\ \A k \in 1 .. Len(s) : Sums(s)[k] = Sums(s)[k - 1] + s[k]
<1> DEFINE n == Len(s)
           AreSums(f, m) == f = [k \in 0 .. m |-> IF k = 0 THEN 0 ELSE f[k - 1] + s[k]]
           Defined == {m \in Nat : \E f : AreSums(f, m)}
<1>1. n \in Nat /\ \A k \in 1 .. n : s[k] \in Int
  BY ElementOfSeq
<1>2. 0 \in Defined
  <2> DEFINE f == [k \in 0 .. 0 |-> 0]
  <2>1. AreSums(f, 0)
    OBVIOUS
  <2> HIDE DEF AreSums, f
  <2> QED
    BY <2>1
<1>3. ASSUME NEW m \in Nat, m < n, m \in Defined
      PROVE  m + 1 \in Defined
  <2>1. PICK g : AreSums(g, m)
    BY <1>3
  <2> DEFINE f == [k \in 0 .. m + 1 |-> IF k = m + 1 THEN g[m] + s[m + 1] ELSE g[k]]
  <2>2. \A k \in 0 .. m : g[k] = IF k = 0 THEN 0 ELSE g[k - 1] + s[k]
    BY <2>1
  <2>3. ASSUME NEW k \in 0 .. m + 1
        PROVE  f[k] = IF k = 0 THEN 0 ELSE f[k - 1] + s[k]
    <3>1. CASE k = m + 1
      <4>1. f[k] = g[m] + s[k] /\ k # 0 /\ k - 1 = m /\ m \in 0 .. m + 1 /\ m # m + 1
        BY <3>1
      <4> QED
        BY <4>1
    <3>2. CASE k # m + 1
      <4>1. k \in 0 .. m /\ f[k] = g[k]
        BY <3>2
      <4>2. k # 0 => k - 1 \in 0 .. m + 1 /\ k - 1 # m + 1
        BY <3>2
      <4>3. k # 0 => f[k - 1] = g[k - 1]
        BY <4>2
      <4> HIDE DEF f
      <4> QED
        BY <2>2, <4>1, <4>3
    <3> QED
      BY <3>1, <3>2
  <2>4. f = [k \in 0 .. m + 1 |-> f[k]]
    OBVIOUS
  <2> HIDE DEF f
  <2>5. AreSums(f, m + 1)
    BY <2>3, <2>4
  <2> HIDE DEF AreSums
  <2> QED
    BY <2>5
<1>4. n \in Defined
  <2> HIDE DEF Defined
  <2>1. \A m \in 0 .. n : m \in Defined
    BY <1>1, <1>2, <1>3, UpTo
  <2> QED
    BY <1>1, <2>1
<1>5. Sums(s) = CHOOSE f : AreSums(f, n)
  BY DEF Sums
<1>6. AreSums(Sums(s), n)
  <2>1. \E f : AreSums(f, n)
    BY <1>4
  <2> HIDE DEF AreSums
  <2> QED
    BY <1>5, <2>1
<1> DEFINE sum == Sums(s)
<1>7. \A k \in 0 .. n : sum[k] = IF k = 0 THEN 0 ELSE sum[k - 1] + s[k]
  <2>1. sum = [k \in 0 .. n |-> IF k = 0 THEN 0 ELSE sum[k - 1] + s[k]]
    BY <1>6
  <2> HIDE DEF sum
  <2> QED
    BY <2>1
<1> HIDE DEF sum, AreSums
<1> DEFINE Integral == {m \in Nat : m =< n => sum[m] \in Int}
<1>8. \A m \in 0 .. n : m \in Integral
  <2>1. 0 \in Integral
    BY <1>1, <1>7
  <2>2. ASSUME NEW m \in Nat, m < n, m \in Integral
        PROVE  m + 1 \in Integral
    <3>1. sum[m] \in Int /\ m + 1 \in 1 .. n /\ m + 1 \in 0 .. n /\ m + 1 # 0 /\ (m + 1) - 1 = m
      BY <1>1, <2>2
    <3>2. sum[m + 1] = sum[m] + s[m + 1] /\ s[m + 1] \in Int
      BY <1>1, <1>7, <3>1
    <3> QED
      BY <3>1, <3>2
  <2> HIDE DEF Integral
  <2> QED
    BY <1>1, <2>1, <2>2, UpTo
<1>9. \A k \in 0 .. n : sum[k] \in Int
  BY <1>8
<1>10. \A k \in 1 .. n : sum[k] = sum[k - 1] + s[k]
  BY <1>1, <1>7
<1>11. sum[0] = 0
  BY <1>1, <1>7
<1> QED
  BY <1>9, <1>10, <1>11 DEF sum

(* What a part of a sequence adds to its sums.                                  *)
LEMMA SumsOfPart ==
  ASSUME NEW s \in Seq(Int), NEW a \in Nat, NEW n \in Nat, a + n =< Len(s)
  PROVE  /\ Sums(SubSeq(s, a + 1, a + n))[n] = Sums(s)[a + n] - Sums(s)[a]
         /\ Sums(s)[a + n] \in Int /\ Sums(s)[a] \in Int
<1> DEFINE part == SubSeq(s, a + 1, a + n)
           sum == Sums(s)
           partSum == Sums(part)
<1>1. Len(s) \in Nat
  OBVIOUS
<1>2. part \in Seq(Int) /\ Len(part) = n /\ \A k \in 1 .. n : part[k] = s[a + k]
  <2>1. \A k \in a + 1 .. a + n : s[k] \in Int
    BY <1>1, ElementOfSeq
  <2>2. /\ a + 1 \in Int /\ a + n \in Int /\ (a + n) - (a + 1) + 1 = n
        /\ (IF a + 1 =< a + n THEN n ELSE 0) = n
        /\ \A k \in 1 .. n : ((a + 1) + k) - 1 = a + k
    OBVIOUS
  <2> QED
    BY <2>1, <2>2, SubSeqProperties
<1>3. /\ \A k \in 0 .. Len(s) : sum[k] \in Int
      /\ \A k \in 1 .. Len(s) : sum[k] = sum[k - 1] + s[k]
  BY SumsDefined
<1>4. /\ partSum[0] = 0
      /\ \A k \in 0 .. n : partSum[k] \in Int
      /\ \A k \in 1 .. n : partSum[k] = partSum[k - 1] + part[k]
  <2> HIDE DEF part
  <2> QED
    BY <1>2, SumsDefined
<1> HIDE DEF part, sum, partSum
<1> DEFINE Good == {m \in Nat : m =< n => partSum[m] = sum[a + m] - sum[a]}
<1>5. 0 \in Good
  <2>1. sum[a] \in Int /\ a + 0 = a
    BY <1>1, <1>3
  <2> QED
    BY <1>4, <2>1
<1>6. ASSUME NEW m \in Nat, m < n, m \in Good
      PROVE  m + 1 \in Good
  <2>1. /\ m + 1 \in 1 .. n /\ (m + 1) - 1 = m
        /\ a + m + 1 \in 1 .. Len(s) /\ (a + m + 1) - 1 = a + m /\ a + (m + 1) = a + m + 1
        /\ a \in 0 .. Len(s) /\ a + m \in 0 .. Len(s)
    BY <1>1, <1>6
  <2>2. /\ partSum[m + 1] = partSum[m] + s[a + m + 1]
        /\ sum[a + m + 1] = sum[a + m] + s[a + m + 1]
    <3>1. partSum[m + 1] = partSum[m] + part[m + 1] /\ part[m + 1] = s[a + (m + 1)]
      BY <1>2, <1>4, <2>1
    <3>2. sum[a + m + 1] = sum[a + m] + s[a + m + 1]
      BY <1>3, <2>1
    <3> QED
      BY <2>1, <3>1, <3>2
  <2>3. /\ sum[a] \in Int /\ sum[a + m] \in Int /\ partSum[m] = sum[a + m] - sum[a]
        /\ s[a + m + 1] \in Int
    BY <1>3, <1>6, <2>1, ElementOfSeq
  <2>4. partSum[m + 1] = sum[a + m + 1] - sum[a]
    BY <2>2, <2>3
  <2> QED
    BY <2>1, <2>4
<1>7. n \in Good
  <2> HIDE DEF Good
  <2>1. \A m \in 0 .. n : m \in Good
    BY <1>5, <1>6, UpTo
  <2> QED
    BY <2>1
<1>8. a \in 0 .. Len(s) /\ a + n \in 0 .. Len(s)
  BY <1>1
<1> QED
  BY <1>3, <1>7, <1>8 DEF sum, partSum, part

(* The sum over the channels of frame k, from the sums of what the chunk holds. *)
FrameSum(k) ==
  Sums(reader.data.payload[Encoding])[k * reader.fmt.channels]
    - Sums(reader.data.payload[Encoding])[(k - 1) * reader.fmt.channels]

(* When readWav() returns true, it decoded an integer for every frame, which is *)
(* the average of the channels to a unit.                                       *)
LEMMA MonoDecoded ==
  ASSUME ReaderInv, Readable, IsWavFile(file)
  PROVE  /\ Mono \in Seq(Int) /\ Len(Mono) = NumFrames /\ NumFrames \in Nat
         /\ reader.fmt.rate \in Nat /\ reader.fmt.channels \in Nat \ {0}
         /\ \A k \in 1 .. NumFrames :
              /\ FrameSum(k) \in Int
              /\ 4 * FrameSum(k) - reader.fmt.channels * Mono[k] \in 0 .. reader.fmt.channels - 1
         /\ reader.fmt.channels = 1 =>
              \A k \in 1 .. NumFrames : Mono[k] = 4 * reader.data.payload[Encoding][k]
<1> DEFINE fmt == reader.fmt
           data == reader.data
           width == fmt.bits \div 8
           payload == data.payload[Encoding]
<1>1. PICK p \in 12 .. file.length, q \in 12 .. file.length :
        /\ fmt = file.chunks[p] /\ file.chunks[p].id = "fmt"
        /\ data = file.chunks[q] /\ file.chunks[q].id = "data"
  BY DEF ReaderInv, Readable
<1>2. /\ fmt.rate \in Nat /\ fmt.channels \in Nat /\ fmt.bits \in Nat /\ data.size \in Nat
      /\ \A e \in Encodings : /\ data.payload[e] \in Seq(Int)
                              /\ data.size =< Len(data.payload[e]) * (Bits(e) \div 8)
  BY <1>1 DEF IsWavFile, IsChunk
<1>3. fmt.channels # 0 /\ width # 0
  BY DEF Readable
<1>4. PICK c \in Nat \ {0}, w \in Nat \ {0}, size \in Nat :
        fmt.channels = c /\ width = w /\ data.size = size
  <2>1. width \in Nat
    BY <1>2, Quotient
  <2> QED
    BY <1>2, <1>3, <2>1
<1> DEFINE n == size \div (w * c)
<1>5. NumFrames = n
  BY <1>4 DEF NumFrames, FrameBytes
<1>6. w * c \in Nat \ {0} /\ n \in Nat /\ n * (w * c) =< size
  <2>1. w * c \in Nat \ {0}
    BY <1>4
  <2> DEFINE d == w * c
             r == size % d
  <2>2. d \in Nat \ {0}
    BY <2>1
  <2> HIDE DEF d
  <2>3. size \div d \in Nat /\ r \in Nat /\ size = (size \div d) * d + r
    BY <1>4, <2>2, Quotient
  <2> DEFINE m == size \div d
  <2>4. m * d \in Nat /\ m \in Nat
    BY <2>2, <2>3
  <2>5. m * d =< size
    <3> HIDE DEF m, r
    <3>1. size = m * d + r
      BY <2>3 DEF m
    <3> QED
      BY <1>4, <2>3, <2>4, <3>1
  <2> QED
    BY <2>2, <2>4, <2>5 DEF d
<1> DEFINE first(k) == (k - 1) * c
           value(k) == (4 * ChannelSum(k)) \div c
<1>7. ASSUME n # 0
      PROVE  payload \in Seq(Int) /\ Len(payload) \in Nat /\ size =< Len(payload) * w
  <2>1. Encoding \in Encodings /\ Bits(Encoding) = fmt.bits
    BY <1>5, <1>7 DEF Readable, Supported, Encoding, Bits
  <2>2. payload \in Seq(Int) /\ data.size =< Len(payload) * (fmt.bits \div 8)
    BY <1>2, <2>1
  <2> HIDE DEF payload
  <2> QED
    BY <1>4, <2>2
<1> HIDE DEF n
<1>8. ASSUME NEW k \in 1 .. n
      PROVE  /\ first(k) \in Nat /\ first(k) + c =< Len(payload) /\ k * c = first(k) + c
             /\ payload \in Seq(Int)
  <2>1. payload \in Seq(Int) /\ Len(payload) \in Nat /\ size =< Len(payload) * w /\ k \in Nat
    BY <1>6, <1>7
  <2>2. PICK l \in Nat : Len(payload) = l
    BY <2>1
  <2> HIDE DEF payload
  <2>3. k - 1 \in Nat /\ (k - 1) + 1 = k
    OBVIOUS
  <2>4. first(k) \in Nat /\ k * c = first(k) + c
    BY <1>4, <2>3, Later
  <2>5. k * c =< n * c /\ k * c \in Nat /\ n * c \in Nat
    BY <1>4, <1>6, <2>1, Later
  <2>6. n * c =< l
    <3> DEFINE m == n * c
    <3>1. m * w = n * (w * c) /\ m \in Nat /\ n * (w * c) \in Nat
      BY <1>4, <1>6, <2>5
    <3>2. m * w =< l * w
      <4> DEFINE x == n * (w * c)
                 y == l * w
      <4>1. x \in Nat /\ y \in Nat
        BY <1>4, <2>2, <3>1, Later
      <4>2. x =< size /\ size =< y
        BY <1>6, <2>1, <2>2
      <4> HIDE DEF x, y
      <4>3. x =< y
        BY <1>4, <4>1, <4>2
      <4> QED
        BY <3>1, <4>3 DEF x, y
    <3> HIDE DEF m
    <3>3. ASSUME l + 1 =< m
          PROVE  FALSE
      <4>1. (l + 1) * w =< m * w /\ (l + 1) * w = l * w + w /\ l * w \in Nat /\ m * w \in Nat
        BY <1>4, <2>2, <3>1, <3>3, Later
      <4> QED
        BY <1>4, <3>2, <4>1
    <3>4. m =< l
      BY <2>2, <3>1, <3>3
    <3> QED
      BY <3>4 DEF m
  <2> DEFINE a == k * c
             b == n * c
             f == first(k)
  <2> HIDE DEF a, b, f
  <2>7. f + c =< l
    <3>1. a =< b /\ b =< l /\ a = f + c /\ a \in Nat /\ b \in Nat /\ f \in Nat
      BY <2>4, <2>5, <2>6 DEF a, b, f
    <3> QED
      BY <1>4, <2>2, <3>1
  <2> QED
    BY <2>1, <2>2, <2>4, <2>7 DEF f
<1>9. ASSUME NEW k \in 1 .. n
      PROVE  /\ ChannelSum(k) = FrameSum(k) /\ FrameSum(k) \in Int
             /\ c = 1 => FrameSum(k) = payload[k]
  <2>1. /\ first(k) \in Nat /\ first(k) + c =< Len(payload) /\ k * c = first(k) + c
        /\ payload \in Seq(Int)
    BY <1>8
  <2>2. ChannelSum(k) = Sums(SubSeq(payload, first(k) + 1, first(k) + c))[c]
    BY <1>4 DEF ChannelSum
  <2>3. FrameSum(k) = Sums(payload)[k * c] - Sums(payload)[first(k)]
    BY <1>4 DEF FrameSum
  <2> DEFINE f == first(k)
  <2>4. f \in Nat /\ f + c =< Len(payload)
    BY <2>1
  <2> HIDE DEF f, payload
  <2>5. /\ Sums(SubSeq(payload, f + 1, f + c))[c] = Sums(payload)[f + c] - Sums(payload)[f]
        /\ Sums(payload)[f + c] \in Int /\ Sums(payload)[f] \in Int
    BY <1>4, <2>1, <2>4, SumsOfPart
  <2>6. ChannelSum(k) = FrameSum(k) /\ FrameSum(k) \in Int
    BY <2>1, <2>2, <2>3, <2>5 DEF f
  <2>7. ASSUME c = 1
        PROVE  FrameSum(k) = payload[k]
    <3>1. f = k - 1 /\ f + c = k /\ Len(payload) \in Nat
      BY <2>1, <2>7 DEF f
    <3>2. k \in 1 .. Len(payload) /\ k * c = k
      BY <2>4, <2>7, <3>1
    <3>3. Sums(payload)[k] = Sums(payload)[k - 1] + payload[k] /\ payload[k] \in Int
      BY <2>1, <3>2, SumsDefined, ElementOfSeq
    <3>4. FrameSum(k) = Sums(payload)[k] - Sums(payload)[k - 1] /\ Sums(payload)[k - 1] \in Int
      BY <2>3, <2>5, <3>1, <3>2 DEF f
    <3> QED
      BY <3>3, <3>4
  <2> QED
    BY <2>6, <2>7
<1> HIDE DEF payload
<1>10. ASSUME NEW k \in 1 .. n
       PROVE  value(k) \in Int /\ 4 * FrameSum(k) - c * value(k) \in 0 .. c - 1
  <2> DEFINE x == 4 * FrameSum(k)
  <2>1. x \in Int /\ value(k) = x \div c
    BY <1>9
  <2> HIDE DEF x
  <2>2. x \div c \in Int /\ x - c * (x \div c) \in 0 .. c - 1
    BY <1>4, <2>1
  <2> QED
    BY <2>1, <2>2 DEF x
<1> HIDE DEF value
<1>11. Mono = [k \in 1 .. n |-> value(k)]
  BY <1>4, <1>5 DEF Mono, value
<1>12. [k \in 1 .. n |-> value(k)] \in Seq(Int) /\ Len([k \in 1 .. n |-> value(k)]) = n
  BY <1>6, <1>10, IsASeq
<1>13. ASSUME NEW k \in 1 .. n
       PROVE  /\ FrameSum(k) \in Int
              /\ 4 * FrameSum(k) - c * Mono[k] \in 0 .. c - 1
              /\ c = 1 => Mono[k] = 4 * payload[k]
  <2>1. Mono[k] = value(k)
    BY <1>11
  <2>2. FrameSum(k) \in Int /\ value(k) \in Int /\ 4 * FrameSum(k) - c * value(k) \in 0 .. c - 1
    BY <1>9, <1>10
  <2>3. c = 1 => value(k) = 4 * FrameSum(k)
    BY <2>2
  <2> QED
    BY <1>9, <2>1, <2>2, <2>3
<1> QED
  BY <1>2, <1>4, <1>5, <1>6, <1>11, <1>12, <1>13 DEF payload

(* How far the loop of process() gets on a stream given at once.                *)
LEMMA TurnsCounted ==
  ASSUME NEW in \in Nat \ {0}, NEW out \in Nat \ {0}, NEW size \in Nat \ {0}
  PROVE  \E t \in Nat :
           /\ Cardinality({k \in 0 .. size * out : (0 + k * in) \div out + 1 < size}) = t
           /\ \A k \in Nat : k < t => (k * in) \div out + 1 < size
           /\ t = ((size - 1) * out + in - 1) \div in
<1>1. PICK t \in Nat :
        /\ Cardinality({k \in 0 .. size * out : (0 + k * in) \div out + 1 < size}) = t
        /\ \A k \in Nat : (0 + k * in) \div out + 1 < size <=> k < t
  <2>1. 0 \in Nat
    OBVIOUS
  <2> QED
    BY <2>1, TurnsAre, Zenon
<1>2. t \in Nat
  BY <1>1
<1> DEFINE b == (size - 1) * out
           e == (b + in - 1) \div in
           r == (b + in - 1) % in
<1>3. size - 1 \in Nat /\ b \in Nat
  BY Later
<1>4. ASSUME NEW k \in Nat
      PROVE  /\ (0 + k * in) \div out = (k * in) \div out
             /\ k < t <=> k * in < b
  <2>1. k * in \in Nat
    BY Later
  <2>2. 0 + k * in = k * in
    BY <2>1
  <2> DEFINE a == k * in
             c == a \div out
  <2>3. c < size - 1 <=> a < b
    <3> HIDE DEF a
    <3> QED
      BY <1>3, <2>1, QuotientBelow DEF a
  <2>4. c \in Nat
    BY <2>1, Quotient
  <2>5. c + 1 < size <=> k < t
    BY <1>1, <2>2
  <2> HIDE DEF c, b
  <2>6. k < t <=> a < b
    BY <2>3, <2>4, <2>5
  <2> QED
    BY <2>2, <2>6
<1>5. /\ e \in Nat /\ r \in Nat /\ r < in /\ b + in - 1 = e * in + r /\ e * in \in Nat
  <2> HIDE DEF b
  <2> DEFINE a == b + in - 1
  <2>1. a \in Nat
    BY <1>3
  <2> HIDE DEF a
  <2>2. a \div in \in Nat /\ a % in \in Nat /\ a % in < in /\ a = (a \div in) * in + (a % in)
    BY <2>1, Quotient
  <2>3. (a \div in) * in \in Nat
    BY <2>2, Later
  <2> QED
    BY <2>2, <2>3 DEF a
<1> HIDE DEF b, e, r
<1>6. ~(e < t)
  <2>1. ~(e * in < b)
    <3> DEFINE x == e * in
    <3> HIDE DEF x
    <3>1. x \in Nat /\ b + in - 1 = x + r
      BY <1>5 DEF x
    <3> QED
      BY <1>3, <1>5, <3>1 DEF x
  <2> QED
    BY <1>4, <1>5, <2>1
<1>7. e # 0 => e - 1 < t
  <2> SUFFICES ASSUME e # 0
               PROVE  e - 1 < t
    OBVIOUS
  <2> DEFINE h == e - 1
  <2>1. h \in Nat /\ e = h + 1
    BY <1>5
  <2> HIDE DEF h
  <2>2. h * in \in Nat /\ e * in = h * in + in
    BY <2>1, Later
  <2> DEFINE x == h * in
             y == e * in
  <2> HIDE DEF x, y
  <2>3. x \in Nat /\ y = x + in /\ b + in - 1 = y + r
    BY <1>5, <2>2 DEF x, y
  <2>4. x < b
    BY <1>3, <1>5, <2>3
  <2> QED
    BY <1>4, <2>1, <2>4 DEF x, h
<1>8. t = e
  BY <1>2, <1>5, <1>6, <1>7
<1>9. \A k \in Nat : k < t => (k * in) \div out + 1 < size
  BY <1>1, <1>4
<1> QED
  BY <1>1, <1>2, <1>8, <1>9 DEF e, b

(* The fraction that rounding down to a unit loses.                             *)
LEMMA RoundedDown ==
  ASSUME NEW out \in Nat \ {0}, NEW s0 \in Int, NEW s1 \in Int, NEW f \in Nat, f < out
  PROVE  /\ s0 + ((s1 - s0) * f) \div out \in Int
         /\ ((out - f) * s0 + f * s1) - out * (s0 + ((s1 - s0) * f) \div out) \in 0 .. out - 1
         /\ f = 0 => out * s0 - out * (s0 + ((s1 - s0) * f) \div out) \in 0 .. out - 1
<1> DEFINE a == (s1 - s0) * f
           q == a \div out
           r == a % out
<1>1. a \in Int /\ (out - f) * s0 + f * s1 = out * s0 + a
  OBVIOUS
<1>2. f = 0 => a = 0
  OBVIOUS
<1> HIDE DEF a
<1>3. q \in Int /\ r \in 0 .. out - 1 /\ a = q * out + r
  BY <1>1
<1>4. a = 0 => q = 0
  OBVIOUS
<1> HIDE DEF q, r
<1>5. out * (s0 + q) = out * s0 + q * out /\ out * s0 \in Int /\ q * out \in Int
  BY <1>3
<1> DEFINE x == out * s0
           y == q * out
           z == out * (s0 + q)
           w == (out - f) * s0 + f * s1
<1>6. /\ w = x + a /\ z = x + y /\ a = y + r /\ x \in Int /\ y \in Int
  BY <1>1, <1>3, <1>5
<1> HIDE DEF x, y, z, w
<1>7. w - z \in 0 .. out - 1
  BY <1>3, <1>6
<1>8. f = 0 => x - z \in 0 .. out - 1
  BY <1>2, <1>3, <1>6, <1>7
<1> QED
  BY <1>3, <1>7, <1>8 DEF w, x, z, q, a

(* What one call of the resampler makes of the whole input.                     *)
LEMMA ResampledIsDue ==
  ASSUME ReaderInv, Readable, IsWavFile(file), samples = Mono, args.rate \in Nat,
         reader.fmt.rate # args.rate, reader.fmt.rate # 0, args.rate # 0
  PROVE  /\ Resampled(reader.fmt.rate, args.rate) \in Seq(Int)
         /\ Len(Resampled(reader.fmt.rate, args.rate))
              = DueLength(reader.fmt.rate, args.rate, Mono)
         /\ \A k \in 1 .. Len(Resampled(reader.fmt.rate, args.rate)) :
              IsDue(reader.fmt.rate, args.rate, Mono, k, Resampled(reader.fmt.rate, args.rate)[k])
<1>1. PICK in \in Nat \ {0}, out \in Nat \ {0}, size \in Nat :
        reader.fmt.rate = in /\ args.rate = out /\ Len(samples) = size
  <2>1. reader.fmt.rate \in Nat \ {0} /\ args.rate \in Nat \ {0} /\ Len(samples) \in Nat
    BY MonoDecoded
  <2> QED
    BY <2>1
<1>2. /\ in \in Nat \ {0} /\ out \in Nat \ {0} /\ size \in Nat /\ in # out
      /\ Mono \in Seq(Int) /\ Len(Mono) = size
      /\ \A k \in 1 .. size : Mono[k] \in Int
  BY <1>1, MonoDecoded, ElementOfSeq
<1> DEFINE turns == Resampling(in, out)!Determinable(size)
           at(k) == (k - 1) * in
           between(k) == Resampling(in, out)!Interpolated(Mono, at(k))
           value(k) == between(k).s0 + ((between(k).s1 - between(k).s0) * between(k).frac) \div out
           all == [k \in 1 .. turns |-> value(k)]
<1>3. Resampled(reader.fmt.rate, args.rate) = all
  BY <1>1 DEF Resampled
<1>4. turns = Cardinality({k \in 0 .. size * out : (0 + k * in) \div out + 1 < size})
  <2>1. Resampling(in, out)!Cardinality({k \in 0 .. size * out : (0 + k * in) \div out + 1 < size})
          = Cardinality({k \in 0 .. size * out : (0 + k * in) \div out + 1 < size})
    BY Zenon DEF Resampling!Cardinality, Cardinality
  <2>2. <<in, out>>[1] = in /\ <<in, out>>[2] = out
    OBVIOUS
  <2> QED
    BY <2>1, <2>2 DEF Resampling!Determinable, Resampling!outputRate, Resampling!inputRate
<1>5. /\ turns \in Nat /\ turns = DueLength(in, out, Mono)
      /\ \A k \in Nat : k < turns => (k * in) \div out + 1 < size
  <2>1. CASE size = 0
    <3>1. {k \in 0 .. size * out : (0 + k * in) \div out + 1 < size} = {}
      <4>1. ASSUME NEW k \in Nat
            PROVE  ~((0 + k * in) \div out + 1 < 0)
        <5>1. 0 + k * in \in Nat
          BY <1>2
        <5> DEFINE a == 0 + k * in
                   q == a \div out
        <5>2. q \in Nat
          BY <1>2, <5>1, Quotient
        <5> HIDE DEF q
        <5>3. ~(q + 1 < 0)
          BY <5>2
        <5> QED
          BY <5>3 DEF q
      <4> QED
        BY <1>2, <2>1, <4>1
    <3>2. turns = 0
      BY <1>4, <3>1, FS_EmptySet
    <3>3. DueLength(in, out, Mono) = 0
      BY <1>1, <1>2, <2>1 DEF DueLength
    <3> HIDE DEF turns
    <3> QED
      BY <3>2, <3>3
  <2>2. CASE size # 0
    <3>1. size \in Nat \ {0}
      BY <1>2, <2>2
    <3>2. PICK t \in Nat :
            /\ Cardinality({k \in 0 .. size * out : (0 + k * in) \div out + 1 < size}) = t
            /\ \A k \in Nat : k < t => (k * in) \div out + 1 < size
            /\ t = ((size - 1) * out + in - 1) \div in
      BY <1>2, <3>1, TurnsCounted
    <3>3. DueLength(in, out, Mono) = ((size - 1) * out + in - 1) \div in
      BY <1>1, <1>2, <2>2 DEF DueLength
    <3>4. turns = t
      BY <1>4, <3>2
    <3> HIDE DEF turns
    <3> QED
      BY <3>2, <3>3, <3>4
  <2> QED
    BY <2>1, <2>2
<1> HIDE DEF turns
<1>6. ASSUME NEW k \in 1 .. turns
      PROVE  value(k) \in Int /\ IsDue(in, out, Mono, k, value(k))
  <2> DEFINE a == at(k)
             i == a \div out
             f == a % out
  <2>1. k - 1 \in Nat /\ k - 1 < turns
    BY <1>5
  <2>2. a \in Nat /\ i + 1 < size
    BY <1>2, <1>5, <2>1, Later
  <2>3. between(k) = [s0 |-> Mono[i + 1], s1 |-> Mono[i + 2], frac |-> f]
    <3>1. <<in, out>>[2] = out
      OBVIOUS
    <3> HIDE DEF a
    <3> QED
      BY <3>1, Zenon DEF Resampling!Interpolated, Resampling!outputRate, a
  <2> HIDE DEF a
  <2>4. i \in Nat /\ f \in Nat /\ f < out
    BY <1>2, <2>2, Quotient
  <2> HIDE DEF i, f, between
  <2>5. Mono[i + 1] \in Int /\ Mono[i + 2] \in Int
    <3>1. i + 1 \in 1 .. size /\ i + 2 \in 1 .. size
      BY <1>2, <2>2, <2>4
    <3> QED
      BY <1>2, <3>1
  <2>6. value(k) = Mono[i + 1] + ((Mono[i + 2] - Mono[i + 1]) * f) \div out
    BY <2>3
  <2> HIDE DEF value
  <2> DEFINE s0 == Mono[i + 1]
             s1 == Mono[i + 2]
             v == value(k)
  <2>7. /\ v \in Int
        /\ ((out - f) * s0 + f * s1) - out * v \in 0 .. out - 1
        /\ f = 0 => out * s0 - out * v \in 0 .. out - 1
    <3>1. v = s0 + ((s1 - s0) * f) \div out /\ s0 \in Int /\ s1 \in Int
      BY <2>5, <2>6
    <3> HIDE DEF s0, s1, v
    <3> QED
      BY <1>2, <2>4, <3>1, RoundedDown
  <2>8. IsDue(in, out, Mono, k, v) <=> Between(out, Mono, i + 1, f) - out * v \in 0 .. out - 1
    BY <1>2, Zenon DEF IsDue, i, f, a
  <2>9. Between(out, Mono, i + 1, f) = IF f = 0 THEN out * s0 ELSE (out - f) * s0 + f * s1
    <3>1. (i + 1) + 1 = i + 2
      BY <2>4
    <3> QED
      BY <3>1 DEF Between
  <2>10. v \in Int /\ IsDue(in, out, Mono, k, v)
    <3> HIDE DEF s0, s1, v
    <3>1. Between(out, Mono, i + 1, f) - out * v \in 0 .. out - 1
      <4>1. CASE f = 0
        <5>1. Between(out, Mono, i + 1, f) = out * s0
          BY <2>9, <4>1
        <5> QED
          BY <2>7, <4>1, <5>1
      <4>2. CASE f # 0
        <5>1. Between(out, Mono, i + 1, f) = (out - f) * s0 + f * s1
          BY <2>9, <4>2
        <5> QED
          BY <2>7, <5>1
      <4> QED
        BY <4>1, <4>2
    <3> QED
      BY <2>7, <2>8, <3>1
  <2> QED
    BY <2>10 DEF v
<1>7. all \in Seq(Int) /\ Len(all) = turns
  <2> HIDE DEF value
  <2> QED
    BY <1>5, <1>6, IsASeq
<1>8. \A k \in 1 .. turns : all[k] = value(k)
  <2> HIDE DEF value
  <2> QED
    OBVIOUS
<1> HIDE DEF all, value
<1>9. \A k \in 1 .. turns : IsDue(in, out, Mono, k, all[k])
  BY <1>6, <1>8
<1> QED
  BY <1>1, <1>3, <1>5, <1>7, <1>9
-----------------------------------------------------------------------------
LEMMA InitCli ==
  ASSUME Init
  PROVE  CliInv
<1>1. Types
  <2>1. /\ pc = "start" /\ args \in Commands /\ again = FALSE /\ samples = <<>> /\ output = <<>>
        /\ exit = "running" /\ err = FALSE /\ runs = 1
    BY DEF Init
  <2>2. 1 \in 1 .. MaxRuns /\ <<>> \in Seq(Int)
    BY CliAssumption
  <2> QED
    BY <2>1, <2>2 DEF Types
<1>2. FilesInv
  BY InputAssumption DEF Init, FilesInv
<1>3. ReaderInv /\ WalkInv
  <2>1. /\ reader = [pos |-> 12, fmt |-> NoChunk, data |-> NoChunk, start |-> 0]
        /\ again = FALSE
    BY DEF Init, NewReader
  <2>2. /\ reader.pos = 12 /\ reader.fmt = NoChunk /\ reader.data = NoChunk /\ reader.start = 0
        /\ DOMAIN reader = {"pos", "fmt", "data", "start"}
    BY <2>1
  <2> QED
    BY <2>1, <2>2 DEF ReaderInv, WalkInv
<1>4. PhaseInv
  BY DEF Init, PhaseInv, Loaded
<1>5. StreamFollows /\ WrittenInv
  BY DEF Init, StreamFollows, WrittenInv
<1> QED
  BY <1>1, <1>2, <1>3, <1>4, <1>5 DEF CliInv

(* Who changes what.                                                            *)
LEMMA Effects ==
  ASSUME Next
  PROVE  /\ RunAgain \/ UNCHANGED <<args, file, again, runs>>
         /\ RunAgain \/ ReadChunk \/ UNCHANGED reader
         /\ RunAgain \/ EndOfChunks \/ Resample \/ ProcessFrame \/ UNCHANGED samples
         /\ RunAgain \/ ProcessFrame \/ UNCHANGED output
         /\ WriteOutput \/ WriteFails \/ CloseFails \/ UNCHANGED outFile
BY DEF Next, Step, Usage, MalformedNumber, OpenInput, ReadChunk, EndOfChunks, Resample, LoadModels, ProcessFrame,
       FrameThrows, EndOfFrames, WriteOutput, OpenOutputFails, WriteFails, CloseFails, Exit,
       RunAgain

LEMMA StepTypes ==
  ASSUME CliInv, Next
  PROVE  Types'
<1>1. /\ pc' \in {"start", "chunks", "resample", "load", "frames", "write", "exited"}
      /\ exit' \in {"running", "usage", "failed", "aborted", "ok"}
      /\ err' \in BOOLEAN
  <2>1. pc' \in {"start", "chunks", "resample", "load", "frames", "write", "exited"}
    BY DEF CliInv, Types, Next, Step, Usage, MalformedNumber, OpenInput, ReadChunk, EndOfChunks, Resample,
           LoadModels, ProcessFrame, FrameThrows, EndOfFrames, WriteOutput, OpenOutputFails,
           WriteFails, CloseFails, Exit, RunAgain
  <2>2. exit' \in {"running", "usage", "failed", "aborted", "ok"}
    BY DEF CliInv, Types, Next, Step, Usage, MalformedNumber, OpenInput, ReadChunk, EndOfChunks, Resample,
           LoadModels, ProcessFrame, FrameThrows, EndOfFrames, WriteOutput, OpenOutputFails,
           WriteFails, CloseFails, Exit, RunAgain
  <2>3. err' \in BOOLEAN
    BY DEF CliInv, Types, Next, Step, Usage, MalformedNumber, OpenInput, ReadChunk, EndOfChunks, Resample,
           LoadModels, ProcessFrame, FrameThrows, EndOfFrames, WriteOutput, OpenOutputFails,
           WriteFails, CloseFails, Exit, RunAgain
  <2> QED
    BY <2>1, <2>2, <2>3
<1>2. args' \in Commands /\ again' \in BOOLEAN /\ runs' \in 1 .. MaxRuns
  <2>1. CASE UNCHANGED <<args, file, again, runs>>
    BY <2>1 DEF CliInv, Types
  <2>2. CASE RunAgain
    <3>1. args' \in Commands /\ again' = TRUE /\ runs' = runs + 1 /\ runs < MaxRuns
      BY <2>2 DEF RunAgain
    <3>2. runs + 1 \in 1 .. MaxRuns
      BY <3>1, CliAssumption DEF CliInv, Types
    <3> QED
      BY <3>1, <3>2
  <2> QED
    BY <2>1, <2>2, Effects
<1>3. samples' \in Seq(Int)
  <2>1. CASE RunAgain
    BY <2>1 DEF RunAgain
  <2>2. CASE EndOfChunks
    <3>1. IsWavFile(file)
      BY <2>2 DEF CliInv, FilesInv, PhaseInv, EndOfChunks
    <3> QED
      BY <2>2, <3>1, MonoDecoded DEF EndOfChunks, CliInv, Types
  <2>3. CASE Resample
    <3>1. \/ samples' = samples
          \/ /\ reader.fmt.rate # args.rate /\ reader.fmt.rate # 0 /\ args.rate # 0
             /\ samples' = Resampled(reader.fmt.rate, args.rate)
      BY <2>3 DEF Resample
    <3>2. /\ IsWavFile(file) /\ Readable /\ samples = Mono /\ args.rate \in Nat
          /\ ReaderInv /\ samples \in Seq(Int)
      BY <2>3, InputAssumption DEF CliInv, FilesInv, PhaseInv, Types, Resample, Loaded
    <3> QED
      BY <3>1, <3>2, ResampledIsDue
  <2>4. CASE ProcessFrame
    <3>1. /\ samples' = SubSeq(samples, args.frameSize + 1, Len(samples))
          /\ samples \in Seq(Int) /\ args.frameSize \in Nat
      BY <2>4, InputAssumption DEF ProcessFrame, CliInv, Types
    <3> QED
      BY <3>1
  <2>5. CASE UNCHANGED samples
    BY <2>5 DEF CliInv, Types
  <2> QED
    BY <2>1, <2>2, <2>3, <2>4, <2>5, Effects
<1>4. output' \in Seq(Int)
  <2>1. CASE RunAgain
    BY <2>1 DEF RunAgain
  <2>2. CASE ProcessFrame
    <3>1. /\ output' = output \o SubSeq(samples, 1, args.frameSize)
          /\ samples \in Seq(Int) /\ output \in Seq(Int) /\ args.frameSize \in Nat
          /\ args.frameSize =< Len(samples)
      BY <2>2, InputAssumption DEF ProcessFrame, CliInv, Types
    <3>2. SubSeq(samples, 1, args.frameSize) \in Seq(Int)
      BY <3>1
    <3> QED
      BY <3>1, <3>2
  <2>3. CASE UNCHANGED output
    BY <2>3 DEF CliInv, Types
  <2> QED
    BY <2>1, <2>2, <2>3, Effects
<1> QED
  BY <1>1, <1>2, <1>3, <1>4 DEF Types

LEMMA StepFiles ==
  ASSUME CliInv, Next
  PROVE  FilesInv'
<1>1. /\ file'.opens /\ file'.riff => IsWavFile(file')
      /\ again' => IsWritten(file')
  <2>1. CASE UNCHANGED <<args, file, again, runs>>
    <3>1. file' = file /\ again' = again
      BY <2>1
    <3> QED
      BY <3>1 DEF CliInv, FilesInv
  <2>2. CASE RunAgain
    <3>1. file' = outFile /\ IsWritten(outFile)
      BY <2>2 DEF RunAgain, CliInv, WrittenInv
    <3>2. IsWavFile(outFile)
      BY <3>1, WrittenIsWav
    <3> QED
      BY <3>1, <3>2
  <2> QED
    BY <2>1, <2>2, Effects
<1>2. outFile' = NoOutput \/ IsWritten(outFile')
  <2>1. CASE WriteOutput \/ WriteFails \/ CloseFails
    BY <2>1, OutputWritten DEF CliInv
  <2>2. CASE UNCHANGED outFile
    BY <2>2 DEF CliInv, FilesInv
  <2> QED
    BY <2>1, <2>2, Effects
<1> QED
  BY <1>1, <1>2 DEF FilesInv

(* The chunk a turn of the loop finds, what becomes of it, and where the loop   *)
(* goes on.                                                                     *)
Found == file.chunks[reader.pos]

LEMMA TurnOfWalk ==
  ASSUME CliInv, ReadChunk
  PROVE  /\ reader.pos \in 12 .. file.length
         /\ Found.size \in Nat /\ (reader.pos + 8) + Found.size =< file.length
         /\ NextPosition(Found) \in Nat
         /\ NextPosition(Found) >= (reader.pos + 8) + Found.size
         /\ \/ reader' = reader
            \/ /\ DOMAIN reader' = {"pos", "fmt", "data", "start"}
               /\ reader'.pos = NextPosition(Found)
               /\ \/ /\ Found.id = "fmt" /\ reader'.fmt = Found
                     /\ reader'.data = reader.data /\ reader'.start = reader.start
                  \/ /\ Found.id = "data" /\ reader'.data = Found
                     /\ reader'.fmt = reader.fmt /\ reader'.start = reader.pos + 8
                  \/ /\ Found.id # "fmt" /\ Found.id # "data"
                     /\ reader'.fmt = reader.fmt /\ reader'.data = reader.data
                     /\ reader'.start = reader.start
<1>1. IsWavFile(file)
  BY DEF CliInv, FilesInv, PhaseInv, ReadChunk
<1>2. /\ reader.pos \in Nat /\ reader.pos >= 12 /\ file.length \in Nat
      /\ reader.pos + 8 =< file.length /\ (reader.pos + 8) + Found.size =< file.length
  BY <1>1 DEF CliInv, ReaderInv, ReadChunk, HasChunk, IsWavFile, Found
<1>3. reader.pos \in 12 .. file.length
  BY <1>2
<1>4. Found.size \in Nat
  BY <1>1, <1>3 DEF IsWavFile, IsChunk, Found
<1>5. NextPosition(Found) \in Nat /\ NextPosition(Found) >= (reader.pos + 8) + Found.size
  <2> DEFINE size == Found.size
             odd == size % 2
             pos == reader.pos
  <2>1. size \in Nat /\ odd \in Nat /\ pos \in Nat
    BY <1>2, <1>4
  <2>2. NextPosition(Found) = pos + 8 + size + odd
    BY DEF NextPosition
  <2> HIDE DEF size, odd, pos
  <2>3. pos + 8 + size + odd \in Nat /\ pos + 8 + size + odd >= (pos + 8) + size
    BY <2>1
  <2> QED
    BY <2>2, <2>3 DEF size, pos
<1> DEFINE next == NextPosition(Found)
<1>6. \/ reader' = reader
      \/ Found.id = "fmt" /\ reader' = [reader EXCEPT !.pos = next, !.fmt = Found]
      \/ Found.id = "data"
         /\ reader' = [reader EXCEPT !.pos = next, !.data = Found, !.start = reader.pos + 8]
      \/ Found.id # "fmt" /\ Found.id # "data" /\ reader' = [reader EXCEPT !.pos = next]
  BY DEF ReadChunk, Found
<1> HIDE DEF next
<1>7. DOMAIN reader = {"pos", "fmt", "data", "start"}
  BY DEF CliInv, ReaderInv
<1>8. CASE reader' = reader
  BY <1>2, <1>3, <1>4, <1>5, <1>8
<1>9. CASE reader' # reader
  <2>1. /\ DOMAIN reader' = {"pos", "fmt", "data", "start"} /\ reader'.pos = next
        /\ \/ /\ Found.id = "fmt" /\ reader'.fmt = Found
              /\ reader'.data = reader.data /\ reader'.start = reader.start
           \/ /\ Found.id = "data" /\ reader'.data = Found
              /\ reader'.fmt = reader.fmt /\ reader'.start = reader.pos + 8
           \/ /\ Found.id # "fmt" /\ Found.id # "data"
              /\ reader'.fmt = reader.fmt /\ reader'.data = reader.data
              /\ reader'.start = reader.start
    BY <1>6, <1>7, <1>9
  <2> QED
    BY <1>2, <1>3, <1>4, <1>5, <2>1 DEF next
<1> QED
  BY <1>8, <1>9

(* RunAgain starts over.                                                        *)
LEMMA NewReaderInv ==
  ASSUME RunAgain
  PROVE  ReaderInv' /\ WalkInv'
<1>1. /\ reader'.pos = 12 /\ reader'.fmt = NoChunk /\ reader'.data = NoChunk
      /\ DOMAIN reader' = {"pos", "fmt", "data", "start"}
  <2>1. reader' = [pos |-> 12, fmt |-> NoChunk, data |-> NoChunk, start |-> 0]
    BY DEF RunAgain, NewReader
  <2> QED
    BY <2>1
<1>2. 12 \in Nat /\ 12 >= 12
  OBVIOUS
<1> QED
  BY <1>1, <1>2 DEF ReaderInv, WalkInv

LEMMA StepReader ==
  ASSUME CliInv, Next
  PROVE  ReaderInv'
<1>1. CASE RunAgain
  BY <1>1, NewReaderInv
<1>2. CASE ReadChunk
  <2>1. file' = file
    BY <1>2 DEF ReadChunk
  <2>2. CASE reader' = reader
    BY <2>1, <2>2 DEF CliInv, ReaderInv
  <2>3. CASE reader' # reader
    <3>1. /\ DOMAIN reader' = {"pos", "fmt", "data", "start"}
          /\ reader'.pos = NextPosition(Found)
      BY <1>2, <2>3, TurnOfWalk
    <3>2. NextPosition(Found) \in Nat /\ NextPosition(Found) >= 12
      <4>1. /\ reader.pos \in 12 .. file.length /\ Found.size \in Nat /\ NextPosition(Found) \in Nat
            /\ NextPosition(Found) >= (reader.pos + 8) + Found.size
        BY <1>2, TurnOfWalk
      <4> DEFINE pos == reader.pos
                 size == Found.size
                 next == NextPosition(Found)
      <4>2. pos \in Nat /\ pos >= 12 /\ size \in Nat /\ next \in Nat /\ next >= (pos + 8) + size
        BY <4>1
      <4> HIDE DEF pos, size, next
      <4>3. next >= 12
        BY <4>2
      <4> QED
        BY <4>2, <4>3 DEF next
    <3>3. \/ reader'.fmt = NoChunk
          \/ \E p \in 12 .. file.length : reader'.fmt = file.chunks[p] /\ file.chunks[p].id = "fmt"
      <4>1. reader'.fmt = reader.fmt \/ (Found.id = "fmt" /\ reader'.fmt = Found)
        BY <1>2, <2>3, TurnOfWalk
      <4>2. reader.pos \in 12 .. file.length
        BY <1>2, TurnOfWalk
      <4> QED
        BY <4>1, <4>2 DEF CliInv, ReaderInv, Found
    <3>4. \/ reader'.data = NoChunk
          \/ \E p \in 12 .. file.length :
               /\ reader'.data = file.chunks[p] /\ file.chunks[p].id = "data"
               /\ reader'.start = p + 8
               /\ p + 8 + reader'.data.size =< file.length
      <4>1. \/ reader'.data = reader.data /\ reader'.start = reader.start
            \/ Found.id = "data" /\ reader'.data = Found /\ reader'.start = reader.pos + 8
        BY <1>2, <2>3, TurnOfWalk
      <4>2. /\ reader.pos \in 12 .. file.length
            /\ (reader.pos + 8) + Found.size =< file.length
        BY <1>2, TurnOfWalk
      <4>3. CASE reader'.data = reader.data /\ reader'.start = reader.start
        BY <4>3 DEF CliInv, ReaderInv
      <4>4. CASE Found.id = "data" /\ reader'.data = Found /\ reader'.start = reader.pos + 8
        BY <4>2, <4>4 DEF Found
      <4> QED
        BY <4>1, <4>3, <4>4
    <3> QED
      BY <2>1, <3>1, <3>2, <3>3, <3>4 DEF ReaderInv
  <2> QED
    BY <2>2, <2>3
<1>3. CASE UNCHANGED reader /\ UNCHANGED <<args, file, again, runs>>
  BY <1>3 DEF CliInv, ReaderInv
<1> QED
  BY <1>1, <1>2, <1>3, Effects

LEMMA StepWalk ==
  ASSUME CliInv, Next
  PROVE  WalkInv'
<1>1. CASE RunAgain
  BY <1>1, NewReaderInv
<1>2. CASE ReadChunk
  <2>1. file' = file /\ again' = again
    BY <1>2 DEF ReadChunk
  <2>2. CASE reader' = reader
    BY <2>1, <2>2 DEF CliInv, WalkInv
  <2>3. CASE reader' # reader /\ again
    <3>1. /\ IsWritten(file)
          /\ \/ reader.pos = 12 /\ reader.fmt = NoChunk /\ reader.data = NoChunk
             \/ reader.pos = 36 /\ reader.fmt = file.chunks[12] /\ reader.data = NoChunk
             \/ /\ reader.pos >= 44 + file.chunks[36].size
                /\ \/ reader.fmt = file.chunks[12] /\ reader.data = file.chunks[36]
                   \/ Misleads(file)
      BY <2>3 DEF CliInv, WalkInv, FilesInv
    <3> DEFINE n == Len(Stored(file))
               stored == file.chunks[36].size
    <3>2. /\ file.chunks[12].id = "fmt" /\ file.chunks[12].size = 16
          /\ file.chunks[36].id = "data" /\ stored = DataSize(n)
          /\ file.length \in Nat /\ file.length =< 44 + 2 * n /\ n \in Nat
      <4>1. Stored(file) \in Seq(-Scale .. Scale - 1)
        BY <3>1 DEF IsWritten
      <4>2. n \in Nat
        BY <4>1, LenProperties
      <4>3. PICK rate : file.chunks[12] = [id |-> "fmt", size |-> 16, format |-> "pcm",
                                           channels |-> 1, rate |-> rate, bits |-> 16]
        BY <3>1, Zenon DEF IsWritten
      <4>4. file.chunks[12].id = "fmt" /\ file.chunks[12].size = 16
        BY <4>3
      <4>5. /\ file.chunks[36].id = "data" /\ stored = DataSize(n)
            /\ file.length \in Nat /\ file.length =< 44 + 2 * n
        BY <3>1, Zenon DEF IsWritten
      <4> QED
        BY <4>2, <4>4, <4>5, Zenon
    <3>3. stored \in Nat /\ (~(2 * n >= SizeMod) => stored = 2 * n)
      BY <3>2, DataSizeFits
    <3>4. /\ reader'.pos = NextPosition(Found)
          /\ \/ /\ Found.id = "fmt" /\ reader'.fmt = Found /\ reader'.data = reader.data
             \/ /\ Found.id = "data" /\ reader'.data = Found /\ reader'.fmt = reader.fmt
             \/ /\ Found.id # "fmt" /\ Found.id # "data"
                /\ reader'.fmt = reader.fmt /\ reader'.data = reader.data
      BY <1>2, <2>3, TurnOfWalk
    <3>5. CASE reader.pos = 12
      <4>1. Found = file.chunks[12] /\ reader.data = NoChunk
        <5>1. ~(reader.pos >= 44 + stored)
          BY <3>3, <3>5
        <5> QED
          BY <3>1, <3>5, <5>1 DEF Found
      <4>2. NextPosition(Found) = 36
        BY <3>2, <3>5, <4>1 DEF NextPosition
      <4>3. reader'.pos = 36 /\ reader'.fmt = file.chunks[12] /\ reader'.data = NoChunk
        BY <3>2, <3>4, <4>1, <4>2
      <4> QED
        BY <2>1, <4>3 DEF WalkInv
    <3>6. CASE reader.pos = 36
      <4>1. Found = file.chunks[36] /\ reader.fmt = file.chunks[12]
        BY <3>1, <3>3, <3>6 DEF Found
      <4>2. NextPosition(Found) >= 44 + stored
        <5> DEFINE next == NextPosition(Found)
        <5>1. next \in Nat /\ next >= (36 + 8) + stored
          BY <1>2, <3>6, <4>1, TurnOfWalk
        <5> HIDE DEF stored, next
        <5>2. next >= 44 + stored
          BY <3>3, <5>1
        <5> QED
          BY <5>2 DEF next
      <4>3. /\ reader'.pos >= 44 + stored
            /\ reader'.fmt = file.chunks[12] /\ reader'.data = file.chunks[36]
        BY <3>2, <3>4, <4>1, <4>2
      <4> QED
        BY <2>1, <4>3 DEF WalkInv
    <3>7. CASE /\ reader.pos >= 44 + stored
               /\ \/ reader.fmt = file.chunks[12] /\ reader.data = file.chunks[36]
                  \/ Misleads(file)
      <4> DEFINE pos == reader.pos
                 size == Found.size
                 next == NextPosition(Found)
      <4>1. /\ pos \in 12 .. file.length /\ pos >= 44 + stored
            /\ size \in Nat /\ next \in Nat /\ next >= (pos + 8) + size
            /\ (pos + 8) + size =< file.length
        BY <1>2, <3>7, TurnOfWalk
      <4>2. next >= 44 + stored /\ 2 * n >= SizeMod /\ pos \in 44 + stored .. file.length
        <5> HIDE DEF pos, size, next, n, stored
        <5>1. pos \in Nat
          BY <4>1
        <5>2. next >= 44 + stored
          BY <3>3, <4>1, <5>1
        <5>3. 2 * n >= SizeMod
          BY <3>2, <3>3, <4>1, <5>1
        <5> QED
          BY <3>2, <3>3, <4>1, <5>1, <5>2, <5>3
      <4>3. CASE Misleads(file)
        <5>1. Misleads(file')
          BY <2>1, <4>3
        <5>2. reader'.pos >= 44 + file'.chunks[36].size
          BY <2>1, <3>4, <4>2
        <5> QED
          BY <5>1, <5>2 DEF WalkInv, Misleads, Stored
      <4>4. CASE ~Misleads(file)
        <5>1. Found.id # "fmt" /\ Found.id # "data"
          BY <4>2, <4>4 DEF Misleads, Found
        <5>2. reader'.fmt = file.chunks[12] /\ reader'.data = file.chunks[36]
          BY <3>4, <3>7, <4>4, <5>1
        <5>3. reader'.pos >= 44 + file'.chunks[36].size
          BY <2>1, <3>4, <4>2
        <5> QED
          BY <2>1, <5>2, <5>3 DEF WalkInv
      <4> QED
        BY <4>3, <4>4
    <3> QED
      BY <3>1, <3>5, <3>6, <3>7
  <2>4. CASE ~again
    BY <2>1, <2>4 DEF WalkInv
  <2> QED
    BY <2>2, <2>3, <2>4
<1>3. CASE UNCHANGED reader /\ UNCHANGED <<args, file, again, runs>>
  BY <1>3 DEF CliInv, WalkInv
<1> QED
  BY <1>1, <1>2, <1>3, Effects

LEMMA SameReader ==
  ASSUME reader' = reader
  PROVE  Readable' = Readable /\ Mono' = Mono /\ NumFrames' = NumFrames
<1>1. Encoding' = Encoding /\ NumFrames' = NumFrames /\ Readable' = Readable
  BY DEF Readable, NumFrames, FrameBytes, Supported, Encoding, AudioFormat
<1> QED
  BY <1>1 DEF Mono, ChannelSum

LEMMA StepPhase ==
  ASSUME CliInv, Next
  PROVE  PhaseInv'
<1> USE DEF Step, Usage, MalformedNumber, OpenInput, ReadChunk, EndOfChunks, Resample, LoadModels, ProcessFrame,
            FrameThrows, EndOfFrames, WriteOutput, OpenOutputFails, WriteFails, CloseFails, Exit,
            RunAgain
<1>1. /\ pc # "exited" => exit = "running"
      /\ pc = "start" => reader = NewReader
      /\ pc \in {"chunks", "resample", "load", "frames", "write"} => file.opens /\ file.riff
      /\ exit = "ok" => file.opens /\ file.riff
      /\ Loaded => Readable
      /\ pc \in {"start", "chunks", "resample", "load"} => output = <<>>
      /\ pc = "resample" => samples = Mono
      /\ pc = "write" \/ exit = "ok" => Len(samples) < args.frameSize
      /\ pc \in {"frames", "write"} => args.model # "refused"
  BY DEF CliInv, PhaseInv
<1>2. pc' # "exited" => exit' = "running"
  BY <1>1 DEF Next
<1>3. pc' = "start" => reader' = NewReader
  BY <1>1 DEF Next
<1>4. /\ pc' \in {"chunks", "resample", "load", "frames", "write"} => file'.opens /\ file'.riff
      /\ exit' = "ok" => file'.opens /\ file'.riff
  <2>1. pc' \in {"chunks", "resample", "load", "frames", "write"} => file'.opens /\ file'.riff
    BY <1>1 DEF Next
  <2>2. exit' = "ok" => file'.opens /\ file'.riff
    BY <1>1 DEF Next
  <2> QED
    BY <2>1, <2>2
<1>5. Loaded' => Readable'
  <2>1. Loaded' => reader' = reader
    BY <1>1 DEF Next, Loaded
  <2>2. Loaded' => Readable
    BY <1>1 DEF Next, Loaded
  <2> QED
    BY <2>1, <2>2, SameReader
<1>6. pc' \in {"start", "chunks", "resample", "load"} => output' = <<>>
  BY <1>1 DEF Next
<1>7. pc' = "resample" => samples' = Mono'
  <2>1. pc' = "resample" => reader' = reader /\ samples' = Mono
    BY <1>1 DEF Next
  <2> QED
    BY <2>1, SameReader
<1>8. pc' = "write" \/ exit' = "ok" => Len(samples') < args'.frameSize
  BY <1>1 DEF Next
<1>9. pc' \in {"frames", "write"} => args'.model # "refused"
  BY <1>1 DEF Next
<1> QED
  BY <1>2, <1>3, <1>4, <1>5, <1>6, <1>7, <1>8, <1>9 DEF PhaseInv

LEMMA StepWritten ==
  ASSUME CliInv, Next
  PROVE  WrittenInv'
<1> SUFFICES ASSUME exit' = "ok"
             PROVE  WrittenInv'
  BY DEF WrittenInv
<1>1. WriteOutput \/ CloseFails
  BY DEF CliInv, PhaseInv, Next, Step, Usage, MalformedNumber, OpenInput, ReadChunk, EndOfChunks,
         Resample, LoadModels, ProcessFrame, FrameThrows, EndOfFrames, WriteOutput,
         OpenOutputFails, WriteFails, CloseFails, Exit, RunAgain
<1>2. output' = output
  BY <1>1 DEF WriteOutput, CloseFails
<1>3. /\ IsWritten(outFile')
      /\ Stored(outFile') = [k \in 1 .. Len(output) |-> Quantized(output[k])]
  BY <1>1, OutputWritten DEF CliInv
<1>4. Len(output) \in Nat
  BY DEF CliInv, Types
<1>5. Len(Stored(outFile')) = Len(output)
      /\ \A k \in 1 .. Len(output) : Stored(outFile')[k] = Quantized(output[k])
  <2> DEFINE n == Len(output)
  <2>1. n \in Nat
    BY <1>4
  <2> HIDE DEF n
  <2>2. Len([k \in 1 .. n |-> Quantized(output[k])]) = n
    BY <2>1
  <2> QED
    BY <1>3, <2>2 DEF n
<1>6. \A k \in 1 .. Len(output) : Quantized(output[k])' = Quantized(output[k])
  BY <1>2 DEF Quantized, Clamped, Magnitude, Full
<1> QED
  BY <1>2, <1>3, <1>5, <1>6 DEF WrittenInv, IsWritten, Stored, DataSize, IsChunk, Encodings, Bits

LEMMA SameInput ==
  ASSUME reader' = reader, args' = args,
         reader.fmt.rate # args.rate => reader.fmt.rate # 0 /\ args.rate # 0,
         Len(output') + Len(samples') = DueLength(reader.fmt.rate, args.rate, Mono),
         \A k \in 1 .. Len(output') : IsDue(reader.fmt.rate, args.rate, Mono, k, output'[k]),
         \A k \in 1 .. Len(samples') :
           IsDue(reader.fmt.rate, args.rate, Mono, Len(output') + k, samples'[k])
  PROVE  StreamFollows'
<1>1. Mono' = Mono
  BY SameReader
<1> QED
  BY <1>1 DEF StreamFollows

LEMMA StepStreamFollows ==
  ASSUME CliInv, Next
  PROVE  StreamFollows'
<1> DEFINE Due(k, v) == IsDue(reader.fmt.rate, args.rate, Mono, k, v)
           length == DueLength(reader.fmt.rate, args.rate, Mono)
<1> SUFFICES ASSUME pc' \in {"load", "frames", "write"} \/ exit' = "ok"
             PROVE  StreamFollows'
  BY DEF StreamFollows
<1>1. /\ reader' = reader /\ args' = args
      /\ \/ Resample
         \/ ProcessFrame
         \/ /\ samples' = samples /\ output' = output
            /\ pc \in {"load", "frames", "write"} \/ exit = "ok"
  <2>1. pc # "exited" => exit = "running"
    BY DEF CliInv, PhaseInv
  <2>2. reader' = reader /\ args' = args
    BY <2>1 DEF Next, Step, Usage, MalformedNumber, OpenInput, ReadChunk, EndOfChunks, Resample, LoadModels,
           ProcessFrame, FrameThrows, EndOfFrames, WriteOutput, OpenOutputFails, WriteFails,
           CloseFails, Exit, RunAgain
  <2>3. \/ Resample
        \/ ProcessFrame
        \/ /\ samples' = samples /\ output' = output
           /\ pc \in {"load", "frames", "write"} \/ exit = "ok"
    BY <2>1 DEF Next, Step, Usage, MalformedNumber, OpenInput, ReadChunk, EndOfChunks, LoadModels,
           FrameThrows, EndOfFrames, WriteOutput, OpenOutputFails, WriteFails,
           CloseFails, Exit, RunAgain
  <2> QED
    BY <2>2, <2>3
<1>2. samples \in Seq(Int) /\ output \in Seq(Int) /\ args.rate \in Nat /\ args.frameSize \in Nat
  BY InputAssumption DEF CliInv, Types
<1>3. CASE Resample
  <2>1. /\ IsWavFile(file) /\ Readable /\ samples = Mono /\ output = <<>> /\ ReaderInv
        /\ output' = output
    BY <1>3 DEF CliInv, FilesInv, PhaseInv, Resample, Loaded
  <2>2. \/ reader.fmt.rate = args.rate /\ samples' = samples
        \/ /\ reader.fmt.rate # args.rate /\ reader.fmt.rate # 0 /\ args.rate # 0
           /\ samples' = Resampled(reader.fmt.rate, args.rate)
    BY <1>3 DEF Resample, Exit, CliInv, PhaseInv
  <2>3. samples' \in Seq(Int) /\ Len(samples') = length /\ \A k \in 1 .. Len(samples') : Due(k, samples'[k])
    <3>1. CASE reader.fmt.rate = args.rate /\ samples' = samples
      BY <1>2, <2>1, <3>1 DEF DueLength, IsDue
    <3>2. CASE /\ reader.fmt.rate # args.rate /\ reader.fmt.rate # 0 /\ args.rate # 0
               /\ samples' = Resampled(reader.fmt.rate, args.rate)
      BY <1>2, <2>1, <3>2, ResampledIsDue
    <3> QED
      BY <2>2, <3>1, <3>2
  <2>4. Len(output') = 0 /\ Len(samples') \in Nat
    BY <2>1, <2>3
  <2>5. Len(output') + Len(samples') = length /\ \A k \in 1 .. Len(samples') : Len(output') + k = k
    <3> HIDE DEF length
    <3> QED
      BY <2>3, <2>4
  <2> HIDE DEF Due, length
  <2>6. /\ \A k \in 1 .. Len(output') : Due(k, output'[k])
        /\ \A k \in 1 .. Len(samples') : Due(Len(output') + k, samples'[k])
    BY <2>3, <2>4, <2>5
  <2> QED
    BY <1>1, <2>2, <2>5, <2>6, SameInput DEF Due, length
<1>4. CASE ProcessFrame
  <2>1. PICK f \in Nat, made \in Nat, left \in Nat :
          /\ args.frameSize = f /\ Len(output) = made /\ Len(samples) = f + left
    <3>1. args.frameSize =< Len(samples) /\ Len(samples) \in Nat /\ Len(output) \in Nat
      BY <1>2, <1>4 DEF ProcessFrame
    <3>2. /\ Len(samples) - args.frameSize \in Nat
          /\ Len(samples) = args.frameSize + (Len(samples) - args.frameSize)
      BY <1>2, <3>1
    <3> QED
      BY <1>2, <3>1, <3>2
  <2> DEFINE front == SubSeq(samples, 1, f)
             back == SubSeq(samples, f + 1, Len(samples))
  <2>2. output' = output \o front /\ samples' = back
    BY <1>4, <2>1 DEF ProcessFrame
  <2>3. /\ made + (f + left) = length
        /\ \A k \in 1 .. made : Due(k, output[k])
        /\ \A k \in 1 .. f + left : Due(made + k, samples[k])
    BY <1>4, <2>1 DEF CliInv, StreamFollows, ProcessFrame
  <2> HIDE DEF Due, length
  <2>4. front \in Seq(Int) /\ Len(front) = f /\ \A k \in 1 .. f : front[k] = samples[k]
    BY <1>2, <2>1
  <2>5. back \in Seq(Int) /\ Len(back) = left /\ \A k \in 1 .. left : back[k] = samples[f + k]
    BY <1>2, <2>1
  <2> HIDE DEF front, back
  <2>6. /\ Len(output') = made + f
        /\ \A k \in 1 .. made + f : output'[k] = IF k =< made THEN output[k] ELSE front[k - made]
    <3>1. /\ Len(output \o front) = made + f
          /\ \A k \in 1 .. made + f :
               (output \o front)[k] = IF k =< made THEN output[k] ELSE front[k - made]
      <4>1. /\ Len(output \o front) = Len(output) + Len(front)
            /\ \A k \in 1 .. Len(output) + Len(front) :
                 (output \o front)[k] = IF k =< Len(output) THEN output[k]
                                       ELSE front[k - Len(output)]
        BY <1>2, <2>4, ConcatProperties
      <4> QED
        BY <2>1, <2>4, <4>1
    <3> QED
      BY <2>2, <3>1
  <2>7. \A k \in 1 .. Len(output') : Due(k, output'[k])
    <3>1. ASSUME NEW k \in 1 .. made + f
          PROVE  Due(k, output'[k])
      <4>1. CASE k =< made
        <5>1. k \in 1 .. made
          BY <2>1, <4>1
        <5> QED
          BY <2>3, <2>6, <4>1, <5>1
      <4>2. CASE ~(k =< made)
        <5>1. k - made \in 1 .. f /\ k - made \in 1 .. f + left /\ made + (k - made) = k
          BY <2>1, <4>2
        <5>2. output'[k] = samples[k - made]
          BY <2>4, <2>6, <4>2, <5>1
        <5> QED
          BY <2>3, <5>1, <5>2
      <4> QED
        BY <4>1, <4>2
    <3> QED
      BY <2>6, <3>1
  <2>8. \A k \in 1 .. Len(samples') : Due(Len(output') + k, samples'[k])
    <3>1. ASSUME NEW k \in 1 .. left
          PROVE  Due((made + f) + k, back[k])
      <4>1. f + k \in 1 .. f + left /\ made + (f + k) = (made + f) + k
        BY <2>1
      <4> QED
        BY <2>3, <2>5, <4>1
    <3> QED
      BY <2>2, <2>5, <2>6, <3>1
  <2>9. Len(output') + Len(samples') = length
    <3>1. (made + f) + left = length
      BY <2>1, <2>3
    <3> QED
      BY <2>2, <2>5, <2>6, <3>1
  <2>10. reader.fmt.rate # args.rate => reader.fmt.rate # 0 /\ args.rate # 0
    BY <1>4 DEF CliInv, StreamFollows, ProcessFrame
  <2> QED
    BY <1>1, <2>7, <2>8, <2>9, <2>10, SameInput DEF Due, length
<1>5. CASE /\ samples' = samples /\ output' = output
           /\ pc \in {"load", "frames", "write"} \/ exit = "ok"
  BY <1>1, <1>5, SameInput DEF CliInv, StreamFollows
<1> QED
  BY <1>1, <1>3, <1>4, <1>5

LEMMA StepCli == CliInv /\ [Next]_vars => CliInv'
<1> SUFFICES ASSUME CliInv, [Next]_vars
             PROVE  CliInv'
  OBVIOUS
<1>1. CASE Next
  BY <1>1, StepTypes, StepFiles, StepReader, StepWalk, StepPhase, StepStreamFollows, StepWritten
     DEF CliInv
<1>2. CASE UNCHANGED vars
  <2>1. /\ pc' = pc /\ args' = args /\ file' = file /\ again' = again /\ reader' = reader
        /\ samples' = samples /\ output' = output /\ outFile' = outFile /\ exit' = exit
        /\ err' = err /\ runs' = runs
    BY <1>2 DEF vars
  <2>2. Readable' = Readable /\ Mono' = Mono
    BY <2>1, SameReader
  <2>3. Types' /\ FilesInv' /\ ReaderInv' /\ WalkInv'
    BY <2>1 DEF CliInv, Types, FilesInv, ReaderInv, WalkInv
  <2>4. PhaseInv' /\ StreamFollows'
    BY <2>1, <2>2 DEF CliInv, PhaseInv, StreamFollows, Loaded
  <2>5. WrittenInv'
    BY <2>1 DEF CliInv, WrittenInv
  <2> QED
    BY <2>3, <2>4, <2>5 DEF CliInv
<1> QED
  BY <1>1, <1>2

LEMMA CliInductive == Spec => []CliInv
BY InitCli, StepCli, PTL DEF Spec

(* TypeOK: every sample written fits the int16_t it is cast to, whatever the    *)
(* input holds (wav_io.cpp:197).                                                *)
THEOREM TypeCorrect == Spec => []TypeOK
<1>1. CliInv => TypeOK
  <2> SUFFICES ASSUME CliInv
               PROVE  TypeOK
    OBVIOUS
  <2>1. ASSUME outFile.opens, NEW k \in DOMAIN Stored(outFile)
        PROVE  Stored(outFile)[k] \in -Scale .. Scale - 1
    <3>1. IsWritten(outFile)
      BY <2>1 DEF CliInv, FilesInv, NoOutput
    <3> DEFINE values == -Scale .. Scale - 1
               payload == Stored(outFile)
    <3>2. payload \in Seq(values)
      BY <3>1 DEF IsWritten
    <3> HIDE DEF values
    <3>3. k \in DOMAIN payload
      BY <2>1
    <3> HIDE DEF payload
    <3>4. payload[k] \in values
      BY <3>2, <3>3, ElementOfSeq
    <3> QED
      BY <3>4 DEF payload, values
  <2>2. reader.pos \in Nat
    BY DEF CliInv, ReaderInv
  <2> QED
    BY <2>1, <2>2 DEF TypeOK, CliInv, Types
<1> QED
  BY <1>1, CliInductive, PTL

(* Whatever sizes the chunks declare, what readWav() decodes lies inside the    *)
(* file (wav_io.cpp:61-92).                                                     *)
THEOREM DecodesInside == Spec => []DataInsideFile
<1>1. CliInv => DataInsideFile
  <2> SUFFICES ASSUME CliInv, Loaded
               PROVE  reader.start + reader.data.size =< file.length
    BY DEF DataInsideFile
  <2>1. reader.data # NoChunk
    BY DEF CliInv, PhaseInv, Readable
  <2>2. PICK p \in 12 .. file.length : /\ reader.start = p + 8
                                       /\ p + 8 + reader.data.size =< file.length
    BY <2>1 DEF CliInv, ReaderInv
  <2> QED
    BY <2>2
<1> QED
  BY <1>1, CliInductive, PTL

(* Rounding down the averages, and then what lies between two of them, loses    *)
(* less than two units.                                                         *)
LEMMA AveragesInterpolated ==
  ASSUME NEW out \in Nat \ {0}, NEW c \in Nat \ {0}, NEW f \in Nat, f < out,
         NEW s1 \in Int, NEW s2 \in Int, NEW m1 \in Int, NEW m2 \in Int, NEW v \in Int,
         4 * s1 - c * m1 \in 0 .. c - 1, 4 * s2 - c * m2 \in 0 .. c - 1,
         ((out - f) * m1 + f * m2) - out * v \in 0 .. out - 1
  PROVE  4 * ((out - f) * s1 + f * s2) - (c * out) * v \in 0 .. 2 * (c * out) - 1
<1>1. PICK g \in Nat, d \in Nat, o \in Nat : g = out - f /\ c = d + 1 /\ out = o + 1
  <2>1. out - f \in Nat /\ c - 1 \in Nat /\ c = (c - 1) + 1 /\ out - 1 \in Nat /\ out = (out - 1) + 1
    OBVIOUS
  <2> QED
    BY <2>1
<1>2. PICK e1 \in Nat, e2 \in Nat, r \in Nat :
        /\ 4 * s1 = c * m1 + e1 /\ e1 =< d
        /\ 4 * s2 = c * m2 + e2 /\ e2 =< d
        /\ g * m1 + f * m2 = out * v + r /\ r =< o
  <2> DEFINE x1 == c * m1
             x2 == c * m2
             y == g * m1 + f * m2
             z == out * v
  <2>1. x1 \in Int /\ x2 \in Int /\ y \in Int /\ z \in Int
    BY <1>1
  <2>2. 4 * s1 - x1 \in 0 .. c - 1 /\ 4 * s2 - x2 \in 0 .. c - 1 /\ y - z \in 0 .. out - 1
    BY <1>1
  <2> HIDE DEF x1, x2, y, z
  <2>3. /\ 4 * s1 - x1 \in Nat /\ 4 * s1 - x1 =< d /\ 4 * s1 = x1 + (4 * s1 - x1)
        /\ 4 * s2 - x2 \in Nat /\ 4 * s2 - x2 =< d /\ 4 * s2 = x2 + (4 * s2 - x2)
        /\ y - z \in Nat /\ y - z =< o /\ y = z + (y - z)
    BY <1>1, <2>1, <2>2
  <2> QED
    BY <2>3 DEF x1, x2, y, z
<1>3. 4 * (g * s1 + f * s2) = (c * out) * v + (g * e1 + f * e2 + c * r)
  <2>1. 4 * (g * s1 + f * s2) = g * (4 * s1) + f * (4 * s2)
    BY <1>1
  <2>2. g * (c * m1 + e1) + f * (c * m2 + e2) = c * (g * m1 + f * m2) + (g * e1 + f * e2)
    BY <1>1, <1>2
  <2>3. c * (out * v + r) = (c * out) * v + c * r
    BY <1>2
  <2>4. /\ c * (g * m1 + f * m2) = (c * out) * v + c * r
        /\ 4 * (g * s1 + f * s2) = c * (g * m1 + f * m2) + (g * e1 + f * e2)
    BY <1>2, <2>1, <2>2, <2>3
  <2> DEFINE a == c * (g * m1 + f * m2)
             b == (c * out) * v
             x == g * e1
             y == f * e2
             z == c * r
  <2>5. b \in Int /\ x \in Int /\ y \in Int /\ z \in Int
    BY <1>1, <1>2
  <2>6. a = b + z
    BY <2>4
  <2>7. 4 * (g * s1 + f * s2) = a + (x + y)
    BY <2>4
  <2> HIDE DEF a, b, x, y, z
  <2>8. a + (x + y) = b + (x + y + z)
    BY <2>5, <2>6
  <2> QED
    BY <2>7, <2>8 DEF b, x, y, z
<1>4. /\ g * e1 \in Nat /\ g * e1 =< g * d
      /\ f * e2 \in Nat /\ f * e2 =< f * d
      /\ c * r \in Nat /\ c * r =< c * o
  <2>1. /\ e1 * g \in Nat /\ e1 * g =< d * g
        /\ e2 * f \in Nat /\ e2 * f =< d * f
        /\ r * c \in Nat /\ r * c =< o * c
    BY <1>1, <1>2, Later
  <2>2. /\ e1 * g = g * e1 /\ d * g = g * d /\ e2 * f = f * e2 /\ d * f = f * d
        /\ r * c = c * r /\ o * c = c * o
    BY <1>1, <1>2
  <2> QED
    BY <2>1, <2>2
<1>5. /\ g * d + f * d = out * d /\ out * d = c * out - out /\ c * o = c * out - c
      /\ c * out \in Nat /\ g * d \in Nat /\ f * d \in Nat
  BY <1>1
<1> DEFINE b == (c * out) * v
           x == g * e1
           y == f * e2
           z == c * r
           whole == c * out
           gd == g * d
           fd == f * d
           co == c * o
<1>6. /\ x \in Nat /\ y \in Nat /\ z \in Nat /\ x =< gd /\ y =< fd /\ z =< co
      /\ gd + fd = whole - out /\ co = whole - c /\ whole \in Nat /\ gd \in Nat /\ fd \in Nat
  <2>1. gd + fd = whole - out
    BY <1>5
  <2> QED
    BY <1>4, <1>5, <2>1
<1>7. b \in Int
  OBVIOUS
<1>8. 4 * (g * s1 + f * s2) - b = (b + (x + y + z)) - b
  BY <1>3
<1> HIDE DEF b, x, y, z, whole, gd, fd, co
<1>9. (b + (x + y + z)) - b \in 0 .. 2 * whole - 1
  BY <1>6, <1>7
<1> QED
  BY <1>1, <1>8, <1>9 DEF b, whole

(* The output is the input at --rate, each sample interpolated at its time      *)
(* between the averages of what the file has stored, to less than a frame from  *)
(* the end, for every number of channels, pair of rates and frame size          *)
(* (wav_io.cpp:106-153, main.cpp:121-171).                                      *)
THEOREM InputAtRate == Spec => []OutputIsResampledInput
<1>1. CliInv => OutputIsResampledInput
  <2> SUFFICES ASSUME CliInv, exit = "ok"
               PROVE  OutputIsResampledInput
    BY DEF OutputIsResampledInput
  <2>1. IsWavFile(file) /\ Readable /\ ReaderInv
    BY DEF CliInv, FilesInv, PhaseInv, Loaded
  <2>2. PICK in \in Nat, out \in Nat, c \in Nat \ {0}, n \in Nat :
          /\ reader.fmt.rate = in /\ args.rate = out /\ reader.fmt.channels = c /\ NumFrames = n
    BY <2>1, MonoDecoded, InputAssumption DEF CliInv, Types
  <2> DEFINE Average(k) == 4 * FrameSum(k) - c * Mono[k] \in 0 .. c - 1
  <2>3. /\ Mono \in Seq(Int) /\ Len(Mono) = n
        /\ \A k \in 1 .. n : FrameSum(k) \in Int /\ Mono[k] \in Int /\ Average(k)
    <3>1. /\ Mono \in Seq(Int) /\ Len(Mono) = n
          /\ \A k \in 1 .. n : FrameSum(k) \in Int /\ Average(k)
      BY <2>1, <2>2, MonoDecoded
    <3>2. \A k \in 1 .. n : Mono[k] \in Int
      BY <3>1, ElementOfSeq
    <3> QED
      BY <3>1, <3>2
  <2>4. /\ in # out => in # 0 /\ out # 0
        /\ Len(output) + Len(samples) = DueLength(in, out, Mono)
        /\ \A k \in 1 .. Len(output) : IsDue(in, out, Mono, k, output[k])
        /\ Len(samples) < args.frameSize
    BY <2>2 DEF CliInv, StreamFollows, PhaseInv
  <2>5. /\ args.frameSize \in Nat /\ DOMAIN output = 1 .. Len(output)
        /\ Len(output) \in Nat /\ Len(samples) \in Nat
        /\ \A k \in 1 .. Len(output) : output[k] \in Int
    BY InputAssumption, ElementOfSeq DEF CliInv, Types
  <2> DEFINE due == CASE in = out -> n
                      [] in # out /\ n = 0 -> 0
                      [] OTHER -> ((n - 1) * out + in - 1) \div in
             Interpolation(i, frac) ==
               IF frac = 0 THEN out * FrameSum(i)
               ELSE (out - frac) * FrameSum(i) + frac * FrameSum(i + 1)
             At(k) == Interpolation(((k - 1) * in) \div out + 1, ((k - 1) * in) % out)
  <2>6. due = DueLength(in, out, Mono)
    BY <2>3 DEF DueLength
  <2>7. due - Len(output) \in 0 .. args.frameSize - 1
    <3> HIDE DEF due
    <3> QED
      BY <2>4, <2>5, <2>6
  <2>8. ASSUME NEW k \in 1 .. Len(output), in = out
        PROVE  4 * FrameSum(k) - c * output[k] \in 0 .. c - 1
    <3>1. k \in 1 .. n
      BY <2>4, <2>5, <2>6, <2>8
    <3>2. output[k] = Mono[k]
      BY <2>4, <2>8 DEF IsDue
    <3> QED
      BY <2>3, <3>1, <3>2
  <2>9. ASSUME NEW k \in 1 .. Len(output), in # out
        PROVE  4 * At(k) - (c * out) * output[k] \in 0 .. 2 * (c * out) - 1
    <3> DEFINE a == (k - 1) * in
               i == a \div out
               f == a % out
    <3>1. in \in Nat \ {0} /\ out \in Nat \ {0} /\ k - 1 \in Nat
      BY <2>2, <2>4, <2>9
    <3>2. n \in Nat \ {0} /\ due = ((n - 1) * out + in - 1) \div in /\ k =< due
      <4>1. k =< due
        <5> HIDE DEF due
        <5> QED
          BY <2>4, <2>5, <2>6
      <4>2. n # 0
        <5>1. n = 0 => due = 0
          BY <2>9
        <5> HIDE DEF due
        <5> QED
          BY <4>1, <5>1
      <4> QED
        BY <2>2, <2>9, <4>1, <4>2
    <3>3. i + 1 < n
      <4>1. PICK t \in Nat :
              /\ \A j \in Nat : j < t => (j * in) \div out + 1 < n
              /\ t = ((n - 1) * out + in - 1) \div in
        BY <3>1, <3>2, TurnsCounted
      <4>2. t = due
        BY <3>2, <4>1
      <4> HIDE DEF due
      <4>3. k - 1 < t
        BY <3>1, <3>2, <4>2
      <4> QED
        BY <3>1, <4>1, <4>3
    <3>4. a \in Nat
      BY <3>1, Later
    <3>5. IsDue(in, out, Mono, k, output[k])
            <=> Between(out, Mono, i + 1, f) - out * output[k] \in 0 .. out - 1
      BY <2>9, Zenon DEF IsDue
    <3>6. At(k) = IF f = 0 THEN out * FrameSum(i + 1)
                  ELSE (out - f) * FrameSum(i + 1) + f * FrameSum((i + 1) + 1)
      BY Zenon
    <3>7. Between(out, Mono, i + 1, f)
            = IF f = 0 THEN out * Mono[i + 1] ELSE (out - f) * Mono[i + 1] + f * Mono[(i + 1) + 1]
      BY Zenon DEF Between
    <3> HIDE DEF a
    <3>8. i \in Nat /\ f \in Nat /\ f < out
      BY <3>1, <3>4, Quotient
    <3> HIDE DEF i, f, At, Average
    <3>9. i + 1 \in 1 .. n /\ (i + 1) + 1 \in 1 .. n
      BY <2>2, <3>3, <3>8
    <3> DEFINE s1 == FrameSum(i + 1)
               s2 == FrameSum((i + 1) + 1)
               m1 == Mono[i + 1]
               m2 == Mono[(i + 1) + 1]
               v == output[k]
    <3>10. /\ s1 \in Int /\ s2 \in Int /\ m1 \in Int /\ m2 \in Int /\ v \in Int
           /\ 4 * s1 - c * m1 \in 0 .. c - 1 /\ 4 * s2 - c * m2 \in 0 .. c - 1
      BY <2>3, <2>5, <3>9 DEF Average
    <3>11. (IF f = 0 THEN out * m1 ELSE (out - f) * m1 + f * m2) - out * v \in 0 .. out - 1
      BY <2>4, <3>5, <3>7
    <3>12. At(k) = IF f = 0 THEN out * s1 ELSE (out - f) * s1 + f * s2
      BY <3>6
    <3> HIDE DEF s1, s2, m1, m2, v
    <3>13. CASE f = 0
      <4>1. (out - 0) * m1 + 0 * m1 = out * m1 /\ (out - 0) * s1 + 0 * s1 = out * s1
        BY <3>1, <3>10
      <4>2. ((out - 0) * m1 + 0 * m1) - out * v \in 0 .. out - 1
        BY <3>11, <3>13, <4>1
      <4>3. 0 \in Nat /\ 0 < out
        BY <3>1
      <4>4. 4 * ((out - 0) * s1 + 0 * s1) - (c * out) * v \in 0 .. 2 * (c * out) - 1
        BY <2>2, <3>1, <3>10, <4>2, <4>3, AveragesInterpolated
      <4> QED
        BY <3>12, <3>13, <4>1, <4>4 DEF v
    <3>14. CASE f # 0
      <4>1. ((out - f) * m1 + f * m2) - out * v \in 0 .. out - 1
        BY <3>11, <3>14
      <4>2. 4 * ((out - f) * s1 + f * s2) - (c * out) * v \in 0 .. 2 * (c * out) - 1
        BY <2>2, <3>1, <3>8, <3>10, <4>1, AveragesInterpolated
      <4> QED
        BY <3>12, <3>14, <4>2 DEF v
    <3> QED
      BY <3>13, <3>14
  <2>10. PICK p \in 12 .. file.length : reader.data = file.chunks[p] /\ reader.start = p + 8
    BY <2>1 DEF ReaderInv, Readable
  <2>11. file.chunks[reader.start - 8].payload[Encoding] = reader.data.payload[Encoding]
    <3>1. reader.start - 8 = p
      BY <2>10
    <3> QED
      BY <2>10, <3>1
  <2> HIDE DEF due
  <2>12. \A k \in DOMAIN output :
           IF in = out
           THEN 4 * FrameSum(k) - c * output[k] \in 0 .. c - 1
           ELSE 4 * At(k) - (c * out) * output[k] \in 0 .. 2 * (c * out) - 1
    <3> HIDE DEF At
    <3> QED
      BY <2>5, <2>8, <2>9
  <2> QED
    BY <2>2, <2>7, <2>11, <2>12, Zenon DEF OutputIsResampledInput, FrameSum, due
<1> QED
  BY <1>1, CliInductive, PTL

(* An earlier output is only replaced when every frame of the input went        *)
(* through models that were accepted (main.cpp:136-171).                        *)
THEOREM OutputWaits == Spec => OutputWaitsForFrames
<1>1. CliInv /\ [Next]_vars =>
        [outFile' # outFile => Len(samples) < args.frameSize /\ args.model # "refused"]_vars
  <2> SUFFICES ASSUME CliInv, Next, outFile' # outFile
               PROVE  Len(samples) < args.frameSize /\ args.model # "refused"
    BY DEF vars
  <2>1. pc = "write"
    BY Effects DEF WriteOutput, WriteFails, CloseFails
  <2> QED
    BY <2>1 DEF CliInv, PhaseInv
<1> QED
  BY <1>1, CliInductive, PTL DEF Spec, OutputWaitsForFrames

(* What the tool reads of a file it wrote is what it wrote, however many of its *)
(* last bytes are missing, or its first samples when its size wrapped, unless   *)
(* those that follow spell a header; and a second pass at the same rate moves a *)
(* sample by one step at most and never away from zero, for every width of a    *)
(* sample (wav_io.cpp:72-89, 123, 174 and 197).                                 *)
THEOREM SecondPass == Spec => []SecondPassIsFaithful
<1>1. CliInv => SecondPassIsFaithful
  <2> SUFFICES ASSUME CliInv, again, Loaded, ~Misleads(file)
               PROVE  SecondPassIsFaithful
    BY DEF SecondPassIsFaithful
  <2> DEFINE first == Stored(file)
             n == Len(first)
             size == DataSize(n)
             values == -Scale .. Scale - 1
  <2>1. Readable /\ ReaderInv /\ IsWritten(file) /\ IsWavFile(file)
    BY WrittenIsWav DEF CliInv, PhaseInv, FilesInv
  <2>2. reader.fmt = file.chunks[12] /\ reader.data = file.chunks[36]
    BY <2>1 DEF CliInv, WalkInv, Readable
  <2>3. /\ reader.fmt.bits = 16 /\ reader.fmt.channels = 1 /\ reader.fmt.format = "pcm"
        /\ reader.data.size = size /\ first \in Seq(values)
    <3>1. reader.fmt.bits = 16 /\ reader.fmt.channels = 1 /\ reader.fmt.format = "pcm"
      <4>1. reader.fmt = [id |-> "fmt", size |-> 16, format |-> "pcm", channels |-> 1,
                          rate |-> reader.fmt.rate, bits |-> 16]
        BY <2>1, <2>2, Zenon DEF IsWritten
      <4> DEFINE fmt == reader.fmt
                 rate == fmt.rate
      <4> HIDE DEF rate
      <4>2. fmt = [id |-> "fmt", size |-> 16, format |-> "pcm", channels |-> 1,
                   rate |-> rate, bits |-> 16]
        BY <4>1 DEF rate
      <4> HIDE DEF fmt
      <4>3. fmt.bits = 16 /\ fmt.channels = 1 /\ fmt.format = "pcm"
        BY <4>2
      <4> QED
        BY <4>3 DEF fmt
    <3>2. reader.data.size = size /\ first \in Seq(values)
      BY <2>1, <2>2, Zenon DEF IsWritten
    <3> QED
      BY <3>1, <3>2
  <2>4. reader.data.payload[Encoding] = first
    <3>1. Encoding = <<"pcm", 16>>
      BY <2>3 DEF Encoding, AudioFormat
    <3> QED
      BY <2>2, <3>1 DEF Stored
  <2>5. n \in Nat
    BY <2>3
  <2> HIDE DEF first, n, values
  <2>6. size \in Nat /\ size =< 2 * n
    BY <2>5, DataSizeFits
  <2>7. FrameBytes = 2
    BY <2>3 DEF FrameBytes
  <2>8. NumFrames = size \div 2 /\ size % 2 = 0
    BY <2>1, <2>3, <2>7 DEF NumFrames, Readable
  <2>9. /\ Mono \in Seq(Int) /\ Len(Mono) = NumFrames /\ NumFrames \in Nat
        /\ \A k \in 1 .. NumFrames : Mono[k] = 4 * first[k]
    BY <2>1, <2>3, <2>4, MonoDecoded
  <2>10. 2 * NumFrames = size
    <3> HIDE DEF size
    <3> QED
      BY <2>6, <2>8
  <2>11. 2 * Len(Mono) = (2 * n) % SizeMod
    BY <2>9, <2>10 DEF DataSize
  <2>12. ASSUME exit = "ok", args.rate = reader.fmt.rate, NEW k \in DOMAIN output
         PROVE  /\ Magnitude(Stored(outFile)[k] - first[k]) =< 1
                /\ Magnitude(Stored(outFile)[k]) =< Magnitude(first[k])
    <3>1. output \in Seq(Int) /\ samples \in Seq(Int)
      BY DEF CliInv, Types
    <3>2. /\ Len(output) + Len(samples) = Len(Mono)
          /\ \A j \in 1 .. Len(output) : output[j] = Mono[j]
      BY <2>12 DEF CliInv, StreamFollows, DueLength, IsDue
    <3>3. /\ k \in 1 .. Len(output) /\ k \in 1 .. NumFrames /\ k \in 1 .. n
      <4> HIDE DEF size
      <4>1. k \in 1 .. Len(output) /\ Len(output) \in Nat /\ Len(samples) \in Nat
        BY <2>12, <3>1
      <4>2. k \in 1 .. NumFrames
        BY <2>9, <3>2, <4>1
      <4>3. k \in 1 .. n
        BY <2>5, <2>6, <2>9, <2>10, <4>2
      <4> QED
        BY <4>1, <4>2, <4>3
    <3>4. output[k] = 4 * first[k]
      BY <2>9, <3>2, <3>3
    <3>5. Stored(outFile)[k] = Quantized(output[k])
      BY <2>12, <3>3 DEF CliInv, WrittenInv
    <3>6. first[k] \in values
      BY <2>3, <3>3, ElementOfSeq DEF n
    <3> DEFINE f == first[k]
    <3>7. f \in -Scale .. Scale - 1
      BY <3>6 DEF values
    <3>8. Stored(outFile)[k] = Quantized(4 * f)
      BY <3>4, <3>5
    <3> HIDE DEF f
    <3>9. /\ Magnitude(Quantized(4 * f) - f) =< 1
          /\ Magnitude(Quantized(4 * f)) =< Magnitude(f)
      BY <3>7, SecondStep
    <3> QED
      BY <3>8, <3>9 DEF f
  <2> QED
    BY <2>2, <2>11, <2>12 DEF SecondPassIsFaithful, first, n
<1> QED
  BY <1>1, CliInductive, PTL
-----------------------------------------------------------------------------
(* How far main() is from its end: the call it is at, and what is left of the  *)
(* file or of the samples when that call is a loop.                            *)
Phase ==
  CASE pc = "start" -> 0
    [] pc = "chunks" -> 1
    [] pc = "resample" -> 2
    [] pc = "load" -> 3
    [] pc = "frames" -> 4
    [] pc = "write" -> 5
    [] OTHER -> 6

Left ==
  CASE pc = "chunks" /\ reader.pos =< file.length -> 1 + (file.length - reader.pos)
    [] pc = "frames" -> Len(samples)
    [] OTHER -> 0

LeftIsCounted == Left \in Nat /\ (Phase = 6 <=> pc = "exited")

EndComesNearer == pc # "exited" => Phase' > Phase \/ (Phase' = Phase /\ Left' < Left)

(* A frame has a sample: a command with frames of size 0 ends in the pipeline's *)
(* constructor.                                                                 *)
FramesHaveSize == pc = "frames" => args.frameSize \in Nat \ {0}

LEMMA StepFramesHaveSize == CliInv /\ FramesHaveSize /\ [Next]_vars => FramesHaveSize'
<1> SUFFICES ASSUME CliInv, FramesHaveSize, [Next]_vars, pc' = "frames"
             PROVE  args'.frameSize \in Nat \ {0}
  BY DEF FramesHaveSize
<1>1. CASE pc = "frames" /\ Next
  <2>1. args' = args
    BY <1>1, Effects DEF RunAgain
  <2> QED
    BY <1>1, <2>1 DEF FramesHaveSize
<1>2. CASE pc # "frames" /\ Next
  <2>1. args' = args /\ args.frameSize # 0
    BY <1>2 DEF Next, Step, Usage, MalformedNumber, OpenInput, ReadChunk, EndOfChunks, Resample, LoadModels,
                ProcessFrame, FrameThrows, EndOfFrames, WriteOutput, OpenOutputFails, WriteFails,
                CloseFails, Exit, RunAgain
  <2>2. args.frameSize \in Nat
    BY InputAssumption DEF CliInv, Types
  <2> QED
    BY <2>1, <2>2
<1>3. CASE UNCHANGED vars
  BY <1>3 DEF vars, FramesHaveSize
<1> QED
  BY <1>1, <1>2, <1>3

LEMMA StepNearer ==
  ASSUME CliInv, FramesHaveSize, Step
  PROVE  Phase' > Phase \/ (Phase' = Phase /\ Left' < Left)
<1>1. CASE ReadChunk
  <2>1. CASE pc' = "exited"
    BY <1>1, <2>1 DEF ReadChunk, Phase
  <2>2. CASE pc' # "exited"
    <3>1. /\ pc = "chunks" /\ pc' = "chunks" /\ file' = file
          /\ reader'.pos = NextPosition(Found)
      BY <1>1, <2>2, TurnOfWalk DEF ReadChunk, Exit, Found, CliInv, ReaderInv
    <3>2. /\ reader.pos \in Nat /\ file.length \in Nat /\ reader.pos =< file.length
          /\ reader'.pos \in Nat /\ reader'.pos > reader.pos
      <4>1. /\ reader.pos \in 12 .. file.length /\ Found.size \in Nat
            /\ NextPosition(Found) \in Nat
            /\ NextPosition(Found) >= (reader.pos + 8) + Found.size
        BY <1>1, TurnOfWalk
      <4>2. file.length \in Nat
        BY <3>1 DEF CliInv, FilesInv, PhaseInv, IsWavFile
      <4> QED
        BY <3>1, <4>1, <4>2
    <3>3. Left = 1 + (file.length - reader.pos)
      BY <3>1, <3>2 DEF Left
    <3>4. Left' \in {0, 1 + (file.length - reader'.pos)}
      BY <3>1 DEF Left
    <3>5. Left' = 0 \/ (Left' = 1 + (file.length - reader'.pos) /\ reader'.pos > reader.pos)
      BY <3>2, <3>4
    <3>6. Left' < Left
      BY <3>2, <3>3, <3>5
    <3> QED
      BY <3>1, <3>6 DEF Phase
  <2> QED
    BY <2>1, <2>2
<1>2. CASE ProcessFrame
  <2>1. /\ pc = "frames" /\ pc' = "frames" /\ Len(samples) >= args.frameSize
        /\ samples' = SubSeq(samples, args.frameSize + 1, Len(samples))
    BY <1>2 DEF ProcessFrame
  <2>2. samples \in Seq(Int) /\ Len(samples) \in Nat /\ args.frameSize \in Nat \ {0}
    BY <2>1, LenProperties DEF CliInv, Types, FramesHaveSize
  <2>3. Len(samples') = Len(samples) - args.frameSize
    <3> DEFINE n == args.frameSize
    <3>1. n \in 1 .. Len(samples)
      BY <2>1, <2>2
    <3> HIDE DEF n
    <3>2. Len(SubSeq(samples, n + 1, Len(samples))) = Len(samples) - n
      BY <2>2, <3>1
    <3> QED
      BY <2>1, <3>2 DEF n
  <2>4. Left = Len(samples) /\ Left' = Len(samples')
    BY <2>1 DEF Left
  <2>5. Left' < Left
    BY <2>2, <2>3, <2>4
  <2> QED
    BY <2>1, <2>5 DEF Phase
<1>3. CASE Usage \/ MalformedNumber \/ OpenInput
  BY <1>3 DEF Usage, MalformedNumber, OpenInput, Exit, Phase
<1>4. CASE EndOfChunks
  BY <1>4 DEF EndOfChunks, Exit, Phase
<1>5. CASE Resample \/ LoadModels
  BY <1>5 DEF Resample, LoadModels, Exit, Phase
<1>6. CASE FrameThrows \/ EndOfFrames
  BY <1>6 DEF FrameThrows, EndOfFrames, Exit, Phase
<1>7. CASE WriteOutput \/ OpenOutputFails \/ WriteFails \/ CloseFails
  BY <1>7 DEF WriteOutput, OpenOutputFails, WriteFails, CloseFails, Exit, Phase
<1> QED
  BY <1>1, <1>2, <1>3, <1>4, <1>5, <1>6, <1>7 DEF Step

(* Every step of main() is one towards its end, whatever the file says of      *)
(* itself: the walk over the chunks passes at least a header, and the loop     *)
(* over the frames at least a sample (wav_io.cpp:60-92, main.cpp:164).  There  *)
(* are six calls, and what is left within one is a natural number, so no run   *)
(* goes on for ever; that a program goes on at all is the fairness of Spec.    *)
THEOREM NoRunGoesOn == Spec => []LeftIsCounted /\ [][EndComesNearer]_vars
<1>1. CliInv => LeftIsCounted
  <2> SUFFICES ASSUME CliInv PROVE LeftIsCounted
    OBVIOUS
  <2>1. /\ pc \in {"start", "chunks", "resample", "load", "frames", "write", "exited"}
        /\ Len(samples) \in Nat /\ reader.pos \in Nat
        /\ (pc = "chunks" => file.length \in Nat)
    BY LenProperties DEF CliInv, Types, ReaderInv, FilesInv, PhaseInv, IsWavFile
  <2>2. Left \in Nat
    BY <2>1 DEF Left
  <2> QED
    BY <2>1, <2>2 DEF LeftIsCounted, Phase
<1>2. CliInv /\ FramesHaveSize /\ [Next]_vars => [EndComesNearer]_vars
  BY StepNearer DEF Next, EndComesNearer, RunAgain
<1>3. Init => FramesHaveSize
  <2> SUFFICES ASSUME Init PROVE pc # "frames"
    BY DEF FramesHaveSize
  <2> QED
    BY DEF Init
<1>4. Spec => []FramesHaveSize
  BY <1>3, StepFramesHaveSize, CliInductive, PTL DEF Spec
<1>5. Spec => []LeftIsCounted
  BY <1>1, CliInductive, PTL
<1>6. Spec => [][EndComesNearer]_vars
  BY <1>2, <1>4, CliInductive, PTL DEF Spec
<1> QED
  BY <1>5, <1>6
=============================================================================
