--------------------------- MODULE Framing_proofs ---------------------------
(***************************************************************************)
(* Framer and OverlapAdder: for every frame size, hop and way to cut the   *)
(* stream into chunks, the frames follow the stream, and the samples that  *)
(* the adder hands out have every contribution they will ever get.         *)
(***************************************************************************)
EXTENDS Framing, SampleStream_proofs

(* The first m frames that sample p is part of.                               *)
Covering(hop, m, p) == {k \in 0 .. m - 1 : k * hop < p /\ p =< k * hop + FrameSize}

Count(hop, m, p) == Cardinality(Covering(hop, m, p))

(* The frames that addFrame() has had.                                        *)
Added == IF frame = <<>> THEN taken ELSE taken - 1

Types ==
  /\ hopSize \in 1 .. FrameSize
  /\ captured \in Nat /\ taken \in Nat
  /\ taken * hopSize =< captured
  /\ frame # <<>> => taken >= 1
  /\ tail \in [1 .. FrameSize -> Nat]
  /\ ready \in Seq(Nat)

(* The tail is what the samples behind the ready ones have so far.            *)
TailSums ==
  \A i \in 1 .. FrameSize :
    tail[i] = (Added * hopSize + i) * Count(hopSize, Added, Added * hopSize + i)

ReadySums == Len(ready) = Added * hopSize /\ ReadyIsFinal

IInv == Types /\ FramesFollowStream /\ TailSums /\ ReadySums
-----------------------------------------------------------------------------
LEMMA CountIsNat ==
  ASSUME NEW hop, NEW m \in Nat, NEW p
  PROVE  IsFiniteSet(Covering(hop, m, p)) /\ Count(hop, m, p) \in Nat
<1>1. IsFiniteSet(0 .. m - 1) /\ Covering(hop, m, p) \subseteq 0 .. m - 1
  BY FS_Interval DEF Covering
<1> QED
  BY <1>1, FS_Subset, FS_CardinalityType DEF Count

(* The next frame counts once for each sample it covers.                      *)
LEMMA CountNext ==
  ASSUME NEW hop \in 1 .. FrameSize, NEW m \in Nat, NEW p \in Nat,
         m * hop < p, p =< m * hop + FrameSize
  PROVE  Count(hop, m + 1, p) = Count(hop, m, p) + 1
<1> DEFINE S == Covering(hop, m, p)
<1>1. Covering(hop, m + 1, p) = S \union {m} /\ m \notin S
  BY DEF Covering
<1>2. IsFiniteSet(S)
  BY CountIsNat
<1> HIDE DEF S
<1>3. Cardinality(S \union {m}) = Cardinality(S) + 1
  BY <1>1, <1>2, FS_AddElement
<1> QED
  BY <1>1, <1>3 DEF Count, S

(* Nothing was added yet to a sample behind the last frame.                   *)
LEMMA CountNone ==
  ASSUME NEW hop \in 1 .. FrameSize, NEW m \in Nat, NEW p \in Nat,
         m * hop + FrameSize < p
  PROVE  Count(hop, m + 1, p) = 0
<1>1. ASSUME NEW k \in 0 .. m PROVE ~(p =< k * hop + FrameSize)
  <2>1. k * hop =< m * hop /\ k * hop \in Nat /\ m * hop \in Nat
    BY FramingAssumption, Later
  <2> QED
    BY <2>1, FramingAssumption
<1>2. Covering(hop, m + 1, p) = {}
  <2>1. (m + 1) - 1 = m
    OBVIOUS
  <2> QED
    BY <1>1, <2>1 DEF Covering
<1> QED
  BY <1>2, FS_EmptySet DEF Count

(* All frames that cover a sample have been added once the next starts past it. *)
LEMMA CountAll ==
  ASSUME NEW hop \in 1 .. FrameSize, NEW m \in Nat, NEW p \in Nat, p =< m * hop
  PROVE  Covering(hop, m, p) = {k \in 0 .. p : k * hop < p /\ p =< k * hop + FrameSize}
<1>1. ASSUME NEW k \in Nat, k * hop < p PROVE k \in 0 .. m - 1 /\ k \in 0 .. p
  <2>1. k =< k * hop /\ k * hop \in Nat
    <3>1. PICK d \in Nat : hop = d + 1
      BY FramingAssumption
    <3>2. k * hop = k * d + k /\ k * d \in Nat
      BY <3>1
    <3> QED
      BY <3>2
  <2>2. ~(m =< k)
    <3>1. m =< k => m * hop =< k * hop
      BY FramingAssumption, Later
    <3>2. m * hop \in Nat
      BY FramingAssumption, Later
    <3> QED
      BY <1>1, <2>1, <3>1, <3>2
  <2> QED
    BY <1>1, <2>1, <2>2
<1> QED
  BY <1>1 DEF Covering
-----------------------------------------------------------------------------
LEMMA InitIInv == Init => IInv
<1> SUFFICES ASSUME Init PROVE IInv
  OBVIOUS
<1>1. /\ hopSize \in 1 .. FrameSize /\ captured = 0 /\ taken = 0 /\ frame = <<>>
      /\ buffer = <<>> /\ ready = <<>> /\ tail = NewTail
  BY FramingAssumption DEF Init
<1>2. taken * hopSize = 0 /\ Added = 0 /\ Added * hopSize = 0
  BY <1>1, FramingAssumption DEF Added
<1>3. Types
  BY <1>1, <1>2 DEF Types, NewTail
<1>4. FramesFollowStream
  <2>1. Block(1, 0) = <<>>
    BY BlockLength
  <2> QED
    BY <1>1, <1>2, <2>1 DEF FramesFollowStream
<1>5. TailSums
  <2>1. ASSUME NEW p PROVE Count(hopSize, 0, p) = 0
    <3>1. Covering(hopSize, 0, p) = {}
      BY DEF Covering
    <3> QED
      BY <3>1, FS_EmptySet DEF Count
  <2> QED
    BY <1>1, <1>2, <2>1, FramingAssumption DEF TailSums, NewTail
<1>6. ReadySums
  BY <1>1, <1>2 DEF ReadySums, ReadyIsFinal
<1> QED
  BY <1>3, <1>4, <1>5, <1>6 DEF IInv

LEMMA PushIInv ==
  ASSUME IInv, NEW n \in Chunks, Push(n)
  PROVE  IInv'
<1> DEFINE base == taken * hopSize
<1>1. /\ n \in Nat /\ captured \in Nat /\ captured' = captured + n
      /\ buffer' = buffer \o Block(captured + 1, n)
      /\ hopSize' = hopSize /\ frame' = frame /\ tail' = tail /\ ready' = ready /\ taken' = taken
  BY FramingAssumption DEF Push, IInv, Types
<1>2. /\ hopSize \in 1 .. FrameSize /\ taken \in Nat /\ base \in Nat /\ base =< captured
      /\ buffer = Block(base + 1, captured - base)
  BY FramingAssumption, Later DEF IInv, Types, FramesFollowStream
<1> HIDE DEF base
<1>3. buffer' = Block(base + 1, (captured + n) - base)
  <2>1. captured - base \in Nat /\ base + 1 \in Nat \ {0}
        /\ (base + 1) + (captured - base) = captured + 1
        /\ (captured - base) + n = (captured + n) - base
    BY <1>1, <1>2
  <2>2. Block(base + 1, captured - base) \o Block((base + 1) + (captured - base), n)
          = Block(base + 1, (captured - base) + n)
    BY <1>1, <2>1, JoinBlocks
  <2> QED
    BY <1>1, <1>2, <2>1, <2>2
<1>4. FramesFollowStream'
  <2>1. taken' * hopSize' = base
    BY <1>1 DEF base
  <2>2. buffer' = Block(taken' * hopSize' + 1, captured' - taken' * hopSize')
    BY <1>1, <1>3, <2>1
  <2>3. frame # <<>> => frame = Block((taken - 1) * hopSize + 1, FrameSize)
    BY DEF IInv, FramesFollowStream
  <2> QED
    BY <1>1, <2>2, <2>3 DEF FramesFollowStream
<1>5. Types'
  <2>1. base =< captured + n
    BY <1>1, <1>2
  <2> QED
    BY <1>1, <2>1 DEF base, IInv, Types
<1>6. TailSums' /\ ReadySums'
  BY <1>1 DEF IInv, TailSums, ReadySums, ReadyIsFinal, Coverage, Added
<1> QED
  BY <1>4, <1>5, <1>6 DEF IInv

LEMMA TryGetFrameIInv ==
  ASSUME IInv, TryGetFrame
  PROVE  IInv'
<1> DEFINE base == taken * hopSize
           held == captured - base
<1>1. /\ frame = <<>> /\ Len(buffer) >= FrameSize
      /\ frame' = First(buffer, FrameSize) /\ buffer' = Rest(buffer, hopSize)
      /\ taken' = taken + 1
      /\ hopSize' = hopSize /\ tail' = tail /\ ready' = ready /\ captured' = captured
  BY DEF TryGetFrame
<1>2. /\ hopSize \in 1 .. FrameSize /\ taken \in Nat /\ captured \in Nat
      /\ base \in Nat /\ base =< captured
      /\ (taken + 1) * hopSize = base + hopSize
      /\ buffer = Block(base + 1, held)
  BY FramingAssumption, Later DEF IInv, Types, FramesFollowStream
<1>3. FrameSize \in Nat \ {0} /\ held \in Nat /\ base + 1 \in Nat \ {0}
  BY <1>2, FramingAssumption
<1> HIDE DEF base
<1>4. FrameSize \in 0 .. held /\ hopSize \in 0 .. held
  <2>1. Len(buffer) = held
    BY <1>2, <1>3, BlockLength
  <2> HIDE DEF held
  <2> QED
    BY <1>1, <1>2, <1>3, <2>1
<1>5. /\ First(buffer, FrameSize) = Block(base + 1, FrameSize)
      /\ Rest(buffer, hopSize) = Block((base + 1) + hopSize, held - hopSize)
  BY <1>2, <1>3, <1>4, SplitBlock
<1>6. Block(base + 1, FrameSize) # <<>>
  <2>1. Len(Block(base + 1, FrameSize)) = FrameSize
    BY <1>3, BlockLength
  <2> QED
    BY <1>3, <2>1
<1>7. frame' # <<>> /\ frame' = Block(base + 1, FrameSize)
  BY <1>1, <1>5, <1>6
<1>8. taken' * hopSize' = base + hopSize /\ (taken' - 1) * hopSize' = base
  <2>1. (taken + 1) - 1 = taken
    BY <1>2
  <2> QED
    BY <1>1, <1>2, <2>1 DEF base
<1>9. FramesFollowStream'
  <2>1. (base + 1) + hopSize = (base + hopSize) + 1
        /\ held - hopSize = captured - (base + hopSize)
    BY <1>2
  <2> QED
    BY <1>1, <1>5, <1>7, <1>8, <2>1 DEF FramesFollowStream
<1>10. Types'
  <2>1. base + hopSize =< captured /\ taken + 1 \in Nat /\ taken + 1 >= 1
    BY <1>2, <1>4
  <2> QED
    BY <1>1, <1>8, <2>1 DEF IInv, Types
<1>11. Added' = Added
  <2>1. (taken + 1) - 1 = taken
    BY <1>2
  <2> QED
    BY <1>1, <1>7, <2>1 DEF Added
<1>12. TailSums' /\ ReadySums'
  BY <1>1, <1>11 DEF IInv, TailSums, ReadySums, ReadyIsFinal, Coverage
<1> QED
  BY <1>9, <1>10, <1>12 DEF IInv

(* The sums that addFrame() computes, and where they go.                      *)
LEMMA AddFrameIInv ==
  ASSUME IInv, AddFrame
  PROVE  IInv'
<1> DEFINE m == taken - 1
           base == m * hopSize
           sums == Summed
<1>1. /\ frame # <<>> /\ ready' = ready \o First(sums, hopSize)
      /\ tail' = Padded(Rest(sums, hopSize), FrameSize) /\ frame' = <<>>
      /\ hopSize' = hopSize /\ buffer' = buffer /\ captured' = captured /\ taken' = taken
  BY DEF AddFrame
<1>2. hopSize \in 1 .. FrameSize /\ taken \in Nat /\ taken >= 1 /\ tail \in [1 .. FrameSize -> Nat]
      /\ ready \in Seq(Nat)
  BY <1>1 DEF IInv, Types
<1>3. FrameSize \in Nat \ {0} /\ hopSize \in Nat /\ m \in Nat /\ m + 1 = taken
  BY <1>2, FramingAssumption
<1>4. Added = m /\ Added' = m + 1
  BY <1>1, <1>3 DEF Added
<1> HIDE DEF m
<1>5. base \in Nat /\ (m + 1) * hopSize = base + hopSize
  BY <1>3, Later
<1>6. /\ frame = Block(base + 1, FrameSize)
      /\ \A i \in 1 .. FrameSize : tail[i] = (base + i) * Count(hopSize, m, base + i)
      /\ Len(ready) = base
      /\ \A p \in DOMAIN ready : ready[p] = p * Coverage(p)
  BY <1>1, <1>4 DEF IInv, FramesFollowStream, TailSums, ReadySums, ReadyIsFinal, m
<1>7. Added' * hopSize' = base + hopSize
  BY <1>1, <1>4, <1>5
<1>8. ASSUME NEW i \in 1 .. FrameSize
      PROVE  base + i \in Nat /\ Count(hopSize, m + 1, base + i) \in Nat
             /\ sums[i] = (base + i) * Count(hopSize, m + 1, base + i)
  <2> DEFINE c == Count(hopSize, m, base + i)
             p == base + i
  <2>1. p \in Nat /\ base < p /\ p =< base + FrameSize
    BY <1>3, <1>5
  <2>2. Count(hopSize, m + 1, p) = c + 1 /\ c \in Nat
    BY <1>2, <1>3, <2>1, CountNext, CountIsNat
  <2>3. frame[i] = p
    <3> HIDE DEF base
    <3>0. base + 1 \in Nat \ {0}
      BY <1>5
    <3>1. Block(base + 1, FrameSize)[i] = (base + 1) + i - 1
      BY <1>3, <3>0, BlockElements
    <3> QED
      BY <1>3, <1>5, <1>6, <3>1
  <2>4. sums[i] = p * c + p
    BY <1>6, <2>3 DEF Summed
  <2> HIDE DEF p, c, base, sums
  <2>5. p * c + p = p * (c + 1) /\ c + 1 \in Nat
    BY <2>1, <2>2
  <2> QED
    BY <2>1, <2>2, <2>4, <2>5 DEF p
<1> HIDE DEF base
<1>9. /\ sums \in Seq(Nat) /\ Len(sums) = FrameSize
  <2>1. \A i \in 1 .. FrameSize : tail[i] + frame[i] \in Nat
    <3> TAKE i \in 1 .. FrameSize
    <3>1. sums[i] = tail[i] + frame[i]
      BY DEF Summed
    <3>2. sums[i] \in Nat
      <4> HIDE DEF sums
      <4>1. \A a \in Nat, b \in Nat : a * b \in Nat
        OBVIOUS
      <4> QED
        BY <1>8, <4>1
    <3> QED
      BY <3>1, <3>2
  <2> QED
    BY <1>3, <2>1, IsASeq DEF Summed
<1> HIDE DEF sums
<1> DEFINE head == First(sums, hopSize)
           moved == Rest(sums, hopSize)
<1>10. /\ head \in Seq(Nat) /\ Len(head) = hopSize
       /\ moved \in Seq(Nat) /\ Len(moved) = FrameSize - hopSize
       /\ \A k \in 1 .. hopSize : head[k] = sums[k]
       /\ \A k \in 1 .. FrameSize - hopSize : moved[k] = sums[hopSize + k]
  <2>1. hopSize \in 0 .. Len(sums)
    BY <1>2, <1>9
  <2> QED
    BY <1>9, <2>1, SplitLengths, SplitElements
<1> HIDE DEF head, moved
<1>11. /\ tail' \in Seq(Nat) /\ Len(tail') = FrameSize
       /\ \A k \in 1 .. FrameSize :
            tail'[k] = IF k =< FrameSize - hopSize THEN moved[k] ELSE 0
  <2>1. tail' = Padded(moved, FrameSize) /\ Len(moved) =< FrameSize
    BY <1>1, <1>2, <1>3, <1>10 DEF moved
  <2> QED
    BY <1>3, <1>10, <2>1, PaddedLength, PaddedElements DEF Silence
<1>12. /\ ready' \in Seq(Nat) /\ Len(ready') = base + hopSize
       /\ \A k \in 1 .. base : ready'[k] = ready[k]
       /\ \A k \in 1 .. hopSize : ready'[base + k] = head[k]
  <2>1. ready' = ready \o head
    BY <1>1 DEF head
  <2> QED
    BY <1>2, <1>6, <1>10, <2>1, JoinLengths, JoinElements
<1>13. Types'
  <2>1. tail' \in [1 .. FrameSize -> Nat]
    BY <1>11, LenProperties, ElementOfSeq
  <2>2. taken * hopSize =< captured
    BY DEF IInv, Types
  <2> QED
    BY <1>1, <1>12, <2>1, <2>2 DEF IInv, Types
<1>14. FramesFollowStream'
  BY <1>1 DEF IInv, FramesFollowStream
<1>15. TailSums'
  <2> SUFFICES ASSUME NEW i \in 1 .. FrameSize
               PROVE  tail'[i] = ((base + hopSize) + i)
                                   * Count(hopSize, m + 1, (base + hopSize) + i)
    BY <1>1, <1>4, <1>7 DEF TailSums
  <2>1. CASE i =< FrameSize - hopSize
    <3>1. hopSize + i \in 1 .. FrameSize /\ base + (hopSize + i) = (base + hopSize) + i
      BY <1>3, <1>5, <2>1
    <3>2. tail'[i] = sums[hopSize + i]
      <4>1. i \in 1 .. FrameSize - hopSize
        BY <2>1
      <4> QED
        BY <1>10, <1>11, <2>1, <4>1
    <3> QED
      BY <1>8, <3>1, <3>2
  <2>2. CASE ~(i =< FrameSize - hopSize)
    <3>1. (base + hopSize) + i \in Nat /\ base + FrameSize < (base + hopSize) + i
      BY <1>3, <1>5, <2>2
    <3>2. Count(hopSize, m + 1, (base + hopSize) + i) = 0
      BY <1>2, <1>3, <3>1, CountNone DEF base
    <3>3. tail'[i] = 0
      BY <1>11, <2>2
    <3>4. \A a \in Nat : a * 0 = 0
      OBVIOUS
    <3> QED
      BY <3>1, <3>2, <3>3, <3>4
  <2> QED
    BY <2>1, <2>2
<1>16. ReadySums'
  <2>1. ASSUME NEW p \in 1 .. base + hopSize PROVE ready'[p] = p * Coverage(p)
    <3>1. CASE p =< base
      <4>1. p \in 1 .. base /\ p \in DOMAIN ready
        BY <1>2, <1>5, <1>6, <3>1
      <4> QED
        BY <1>6, <1>12, <4>1
    <3>2. CASE ~(p =< base)
      <4> DEFINE k == p - base
      <4>1. k \in 1 .. hopSize /\ k \in 1 .. FrameSize /\ base + k = p
        BY <1>2, <1>3, <1>5, <3>2
      <4>2. ready'[p] = sums[k]
        BY <1>10, <1>12, <4>1
      <4>3. sums[k] = p * Count(hopSize, m + 1, p)
        BY <1>8, <4>1
      <4>4. Coverage(p) = Count(hopSize, m + 1, p)
        <5>1. p \in Nat /\ m + 1 \in Nat /\ p =< (m + 1) * hopSize
          BY <1>3, <1>5
        <5>2. Covering(hopSize, m + 1, p)
                = {j \in 0 .. p : j * hopSize < p /\ p =< j * hopSize + FrameSize}
          BY <1>2, <5>1, CountAll
        <5> QED
          BY <5>2 DEF Coverage, Count
      <4> QED
        BY <4>2, <4>3, <4>4
    <3> QED
      BY <3>1, <3>2
  <2>2. DOMAIN ready' = 1 .. base + hopSize
    BY <1>12
  <2>3. \A p : Coverage(p)' = Coverage(p)
    BY <1>1 DEF Coverage
  <2> QED
    BY <1>7, <1>12, <2>1, <2>2, <2>3 DEF ReadySums, ReadyIsFinal
<1> QED
  BY <1>13, <1>14, <1>15, <1>16 DEF IInv

LEMMA StepIInv == IInv /\ [Next]_vars => IInv'
<1> SUFFICES ASSUME IInv, [Next]_vars PROVE IInv'
  OBVIOUS
<1>1. ASSUME NEW n \in Chunks, Push(n) PROVE IInv'
  BY <1>1, PushIInv
<1>2. CASE TryGetFrame
  BY <1>2, TryGetFrameIInv
<1>3. CASE AddFrame
  BY <1>3, AddFrameIInv
<1>4. CASE UNCHANGED vars
  BY <1>4 DEF vars, IInv, Types, FramesFollowStream, TailSums, ReadySums, ReadyIsFinal,
              Coverage, Added
<1> QED
  BY <1>1, <1>2, <1>3, <1>4 DEF Next

(* Frame k is the stream from sample k * hop on, for every hop, however the   *)
(* stream is cut into chunks and whenever frames are asked for                *)
(* (framer.cpp:16-26).                                                        *)
THEOREM FramesInOrder == Spec => []FramesFollowStream
<1>1. IInv => FramesFollowStream
  BY DEF IInv
<1> QED
  BY <1>1, InitIInv, StepIInv, PTL DEF Spec

(* Each sample that addFrame() hands out has the contribution of every frame  *)
(* that will ever cover it, once, also when the hop does not divide the frame *)
(* (framer.cpp:37-52).                                                        *)
THEOREM ReadyOnce == Spec => []ReadyIsFinal
<1>1. IInv => ReadyIsFinal
  BY DEF IInv, ReadySums
<1> QED
  BY <1>1, InitIInv, StepIInv, PTL DEF Spec
=============================================================================
