------------------------- MODULE RingBuffer_proofs -------------------------
(***************************************************************************)
(* The two threads of RingBuffer never meet in a slot, and together they   *)
(* are a bounded FIFO, for every capacity, index width, batch and          *)
(* interleaving, with every stale load.                                    *)
(*                                                                         *)
(* The indexes lie on a circle of IndexMod values.  The first lemmas turn  *)
(* the modular arithmetic of Add and Dist into distances along that circle *)
(* that add and subtract like numbers; the invariant is then linear.       *)
(***************************************************************************)
EXTENDS RingBuffer, SequenceTheorems, TLAPS

-----------------------------------------------------------------------------
(* The remainder of a number less than twice the modulus.                    *)
LEMMA SmallMod ==
  ASSUME NEW m \in Nat \ {0}, NEW x \in 0 .. 2 * m - 1
  PROVE  /\ x < m => x % m = x
         /\ x >= m => x % m = x - m
OBVIOUS

(* And of a number that is negative by less than the modulus.                *)
LEMMA NegativeMod ==
  ASSUME NEW m \in Nat \ {0}, NEW x \in -m .. -1
  PROVE  x % m = x + m
OBVIOUS

(* Numbers with the same remainder differ by a multiple of the modulus.      *)
LEMMA SameRemainder ==
  ASSUME NEW m \in Nat \ {0}, NEW x \in Nat, NEW y \in Nat, x % m = y % m
  PROVE  \E k \in Int : y - x = m * k
<1>1. /\ x = m * (x \div m) + (x % m)
      /\ y = m * (y \div m) + (y % m)
      /\ x \div m \in Int
      /\ y \div m \in Int
  OBVIOUS
<1> DEFINE turns == (y \div m) - (x \div m)
<1>2. y - x = m * turns
  BY <1>1
<1>3. turns \in Int
  BY <1>1
<1> HIDE DEF turns
<1> QED
  BY <1>2, <1>3

(* No multiple of m lies strictly between 0 and m.                           *)
LEMMA NoMultiple ==
  ASSUME NEW m \in Nat \ {0}, NEW k \in Int
  PROVE  m * k \notin 1 .. m - 1
<1>1. CASE k =< 0
  <2>1. m * k =< 0
    BY <1>1
  <2> QED
    BY <2>1
<1>2. CASE k >= 1
  <2>1. m * k >= m
    BY <1>2
  <2> QED
    BY <2>1
<1> QED
  BY <1>1, <1>2

-----------------------------------------------------------------------------
(* Distances along the circle of the indexes.                                *)
LEMMA IndexModPositive == IndexMod \in Nat \ {0} /\ Capacity \in Nat \ {0} /\ Capacity < IndexMod
BY RingAssumption

LEMMA DistValue ==
  ASSUME NEW a \in Index, NEW b \in Index
  PROVE  /\ Dist(a, b) = IF a =< b THEN b - a ELSE b - a + IndexMod
         /\ Dist(a, b) \in Index /\ Dist(a, b) \in Nat
<1>1. CASE a =< b
  <2>1. (b - a) % IndexMod = b - a
    BY <1>1, IndexModPositive, SmallMod DEF Index
  <2> QED
    BY <1>1, <2>1, IndexModPositive DEF Dist, Index
<1>2. CASE ~(a =< b)
  <2>1. (b - a) % IndexMod = b - a + IndexMod
    BY <1>2, IndexModPositive, NegativeMod DEF Index
  <2> QED
    BY <1>2, <2>1, IndexModPositive DEF Dist, Index
<1> QED
  BY <1>1, <1>2

LEMMA AddValue ==
  ASSUME NEW a \in Index, NEW n \in 0 .. IndexMod
  PROVE  /\ a + n < IndexMod => Add(a, n) = a + n
         /\ a + n >= IndexMod => Add(a, n) = a + n - IndexMod
         /\ Add(a, n) \in Index
<1> DEFINE sum == a + n
<1>1. sum \in 0 .. 2 * IndexMod - 1
  BY IndexModPositive DEF Index
<1>2. Add(a, n) = sum % IndexMod
  BY DEF Add
<1>3. sum = a + n
  OBVIOUS
<1> HIDE DEF sum
<1>4. /\ sum < IndexMod => sum % IndexMod = sum
      /\ sum >= IndexMod => sum % IndexMod = sum - IndexMod
  BY <1>1, IndexModPositive, SmallMod
<1>5. /\ sum < IndexMod => Add(a, n) = sum
      /\ sum >= IndexMod => Add(a, n) = sum - IndexMod
  BY <1>2, <1>4
<1>6. Add(a, n) \in Index
  BY <1>1, <1>5, IndexModPositive DEF Index
<1>7. a \in Int /\ n \in Int /\ sum \in Int /\ IndexMod \in Int
  BY <1>1, IndexModPositive DEF Index
<1>8. /\ a + n < IndexMod => Add(a, n) = a + n
      /\ a + n >= IndexMod => Add(a, n) = a + n - IndexMod
  <2> HIDE DEF Add
  <2> QED
    BY <1>5, <1>3, <1>7
<1> QED
  BY <1>6, <1>8

(* An index is at distance 0 from itself, and n from where n steps lead.     *)
LEMMA DistAdd ==
  ASSUME NEW a \in Index, NEW n \in Index
  PROVE  Add(a, n) \in Index /\ Dist(a, Add(a, n)) = n /\ Dist(a, a) = 0
<1>1. n \in 0 .. IndexMod
  BY IndexModPositive DEF Index
<1>2. /\ Add(a, n) \in Index
      /\ a + n < IndexMod => Add(a, n) = a + n
      /\ a + n >= IndexMod => Add(a, n) = a + n - IndexMod
  BY <1>1, AddValue
<1>3. Dist(a, Add(a, n)) = IF a =< Add(a, n) THEN Add(a, n) - a
                           ELSE Add(a, n) - a + IndexMod
  BY <1>2, DistValue
<1>4. Dist(a, a) = 0
  BY DistValue, IndexModPositive DEF Index
<1> QED
  BY <1>1, <1>2, <1>3, <1>4, IndexModPositive DEF Index

(* Walking on: distances add up as long as they stay below a full turn.      *)
LEMMA DistJoin ==
  ASSUME NEW a \in Index, NEW b \in Index, NEW c \in Index,
         Dist(a, b) + Dist(b, c) < IndexMod
  PROVE  Dist(a, c) = Dist(a, b) + Dist(b, c)
<1>1. /\ Dist(a, b) = IF a =< b THEN b - a ELSE b - a + IndexMod
      /\ Dist(b, c) = IF b =< c THEN c - b ELSE c - b + IndexMod
      /\ Dist(a, c) = IF a =< c THEN c - a ELSE c - a + IndexMod
  BY DistValue
<1> QED
  BY <1>1, IndexModPositive DEF Index

(* Stopping on the way: what is left is the difference.                      *)
LEMMA DistRest ==
  ASSUME NEW a \in Index, NEW b \in Index, NEW c \in Index,
         Dist(a, b) =< Dist(a, c)
  PROVE  Dist(b, c) = Dist(a, c) - Dist(a, b)
<1>1. /\ Dist(a, b) = IF a =< b THEN b - a ELSE b - a + IndexMod
      /\ Dist(b, c) = IF b =< c THEN c - b ELSE c - b + IndexMod
      /\ Dist(a, c) = IF a =< c THEN c - a ELSE c - a + IndexMod
  BY DistValue
<1> QED
  BY <1>1, IndexModPositive DEF Index

(* Walking on from a place, and to a place at a known distance.              *)
LEMMA AddJoin ==
  ASSUME NEW a \in Index, NEW m \in Nat, NEW n \in Nat, m + n =< Capacity
  PROVE  Add(a, m) \in Index /\ Add(Add(a, m), n) = Add(a, m + n)
<1> USE IndexModPositive
<1> DEFINE b == Add(a, m)
           c == Add(b, n)
           far == m + n
           d == Add(a, far)
<1>1. m \in 0 .. IndexMod /\ n \in 0 .. IndexMod /\ far \in 0 .. IndexMod
  OBVIOUS
<1>2. /\ a + m < IndexMod => b = a + m
      /\ a + m >= IndexMod => b = a + m - IndexMod
      /\ b \in Index
  BY <1>1, AddValue
<1> HIDE DEF b
<1>3. /\ b + n < IndexMod => c = b + n
      /\ b + n >= IndexMod => c = b + n - IndexMod
      /\ c \in Index
  BY <1>1, <1>2, AddValue
<1> HIDE DEF c, far
<1>4. /\ a + far < IndexMod => d = a + far
      /\ a + far >= IndexMod => d = a + far - IndexMod
      /\ d \in Index
  BY <1>1, AddValue
<1> HIDE DEF d
<1>5. far = m + n
  BY DEF far
<1>6. c = d
  BY <1>2, <1>3, <1>4, <1>5 DEF Index
<1> QED
  BY <1>2, <1>6 DEF b, c, d, far

LEMMA AddDist ==
  ASSUME NEW a \in Index, NEW b \in Index
  PROVE  Add(a, Dist(a, b)) = b
<1> USE IndexModPositive
<1> DEFINE way == Dist(a, b)
           c == Add(a, way)
<1>1. /\ way = IF a =< b THEN b - a ELSE b - a + IndexMod
      /\ way \in 0 .. IndexMod
  BY DistValue DEF Index
<1> HIDE DEF way
<1>2. /\ a + way < IndexMod => c = a + way
      /\ a + way >= IndexMod => c = a + way - IndexMod
      /\ c \in Index
  BY <1>1, AddValue
<1> HIDE DEF c
<1>3. c = b
  BY <1>1, <1>2 DEF Index
<1> QED
  BY <1>3 DEF c, way

-----------------------------------------------------------------------------
(***************************************************************************)
(* The inductive invariant.  Of IndexesInStep it keeps, stronger, what a    *)
(* thread knew when it computed its count: the room a producer saw, from    *)
(* an old readIndex, is still there, and what a consumer saw is still       *)
(* unread.  The other thread can only make either larger.                   *)
(***************************************************************************)
InStep ==
  /\ Dist(producer.seen, readIndex) + Used + producer.n =< Capacity
  /\ Dist(readIndex, consumer.seen) =< Used
  /\ consumer.n =< Dist(readIndex, consumer.seen)

Locals ==
  /\ producer.i =< producer.n
  /\ producer.n =< Len(producer.src)
  /\ producer.pc = "idle" => producer.n = 0
  /\ consumer.pc # "copy" => consumer.n = 0

IInv == TypeOK /\ InStep /\ Locals

(* The types of what the proof computes with.                                *)
LEMMA Types ==
  ASSUME TypeOK
  PROVE  /\ readIndex \in Index /\ writeIndex \in Index
         /\ producer.seen \in Index /\ consumer.seen \in Index
         /\ producer.n \in 0 .. Capacity /\ producer.i \in 0 .. Capacity
         /\ consumer.n \in 0 .. Capacity
         /\ producer.src \in Seq(Sample) /\ consumer.dst \in Seq(Sample)
         /\ Used \in Index /\ Used \in Nat
         /\ Dist(producer.seen, readIndex) \in Index /\ Dist(producer.seen, readIndex) \in Nat
         /\ Dist(readIndex, consumer.seen) \in Index /\ Dist(readIndex, consumer.seen) \in Nat
<1>1. /\ readIndex \in Index /\ writeIndex \in Index
      /\ producer.seen \in Index /\ consumer.seen \in Index
  BY DEF TypeOK
<1>2. /\ Used \in Index
      /\ Dist(producer.seen, readIndex) \in Index
      /\ Dist(readIndex, consumer.seen) \in Index
  BY <1>1, DistValue DEF Used
<1> QED
  BY <1>1, <1>2, IndexModPositive DEF TypeOK, Index

LEMMA InitIInv == Init => IInv
<1> SUFFICES ASSUME Init PROVE IInv
  OBVIOUS
<1>1. 0 \in Index
  BY IndexModPositive DEF Index
<1>2. Dist(0, 0) = 0
  BY <1>1, DistAdd
<1>3. <<>> \in Seq(Sample) /\ Len(<<>>) = 0
  OBVIOUS
<1>4. TypeOK
  BY <1>1, <1>3, RingAssumption DEF Init, TypeOK
<1>5. InStep /\ Locals
  BY <1>2, <1>3, IndexModPositive DEF Init, InStep, Locals, Used
<1> QED
  BY <1>4, <1>5 DEF IInv
-----------------------------------------------------------------------------
(* The producer.                                                             *)
(* What the producer takes for unread, and the room that leaves it, when it    *)
(* has loaded r.                                                               *)
LEMMA RoomAsLoaded ==
  ASSUME IInv, NEW r \in Visible(producer.seen, readIndex)
  PROVE  /\ r \in Index /\ Used \in Nat /\ Dist(r, readIndex) \in Nat
         /\ Dist(r, readIndex) + Used =< Capacity
         /\ Dist(r, writeIndex) = Dist(r, readIndex) + Used
         /\ Free(writeIndex, r) = Capacity - Dist(r, writeIndex)
<1> USE IndexModPositive
<1>1. r \in Index /\ Dist(producer.seen, r) =< Dist(producer.seen, readIndex)
  BY DEF Visible
<1>2. Dist(r, readIndex) = Dist(producer.seen, readIndex) - Dist(producer.seen, r)
  BY <1>1, Types, DistRest DEF IInv
<1>3. Dist(producer.seen, r) \in Nat /\ Dist(r, readIndex) \in Nat
  BY <1>1, Types, DistValue DEF IInv
<1>4. Dist(r, readIndex) + Used =< Capacity /\ Used \in Nat
  BY <1>2, <1>3, Types DEF IInv, InStep
<1>5. Dist(r, writeIndex) = Dist(r, readIndex) + Used
  BY <1>1, <1>3, <1>4, Types, DistJoin DEF IInv, Used
<1>6. Free(writeIndex, r) = Capacity - Dist(r, writeIndex)
  <2>1. Dist(r, writeIndex) \in Index /\ Dist(r, writeIndex) =< Capacity
    BY <1>1, <1>3, <1>4, <1>5, Types, DistValue DEF IInv
  <2>2. Capacity \in Index
    BY DEF Index
  <2> QED
    BY <2>1, <2>2, DistValue DEF Free
<1> QED
  BY <1>1, <1>3, <1>4, <1>5, <1>6

LEMMA PushBeginStep ==
  ASSUME IInv, NEW src \in Batches, PushBegin(src)
  PROVE  IInv'
<1> USE IndexModPositive
<1>1. PICK r \in Visible(producer.seen, readIndex) :
        producer' = [pc |-> "copy", seen |-> r, src |-> src, i |-> 0,
                     n |-> Least(Len(src), Free(writeIndex, r))]
  BY DEF PushBegin
<1>2. UNCHANGED <<slots, writeIndex, readIndex, consumer, delivered>>
  BY DEF PushBegin
<1>3. /\ r \in Index /\ Used \in Nat /\ Dist(r, readIndex) \in Nat
      /\ Dist(r, readIndex) + Used =< Capacity
      /\ Dist(r, writeIndex) = Dist(r, readIndex) + Used
      /\ Free(writeIndex, r) = Capacity - Dist(r, writeIndex)
  BY RoomAsLoaded
<1>4. src \in Seq(Sample) /\ Len(src) \in Nat
  BY RingAssumption, LenProperties
<1> DEFINE n == Least(Len(src), Free(writeIndex, r))
<1>5. n \in 0 .. Capacity /\ n =< Len(src) /\ Dist(r, readIndex) + Used + n =< Capacity
  BY <1>3, <1>4 DEF Least
<1>6. producer' = [pc |-> "copy", seen |-> r, src |-> src, i |-> 0, n |-> n]
  BY <1>1
<1> HIDE DEF n
<1>7. TypeOK'
  BY <1>2, <1>3, <1>4, <1>5, <1>6 DEF IInv, TypeOK
<1>8. InStep' /\ Locals'
  BY <1>2, <1>5, <1>6 DEF IInv, InStep, Locals, Used
<1> QED
  BY <1>7, <1>8 DEF IInv

LEMMA PushCopyStep ==
  ASSUME IInv, PushCopy
  PROVE  IInv'
<1> USE IndexModPositive
<1>1. producer.i + 1 \in 1 .. Len(producer.src) /\ producer.i + 1 =< producer.n
  BY Types, LenProperties DEF PushCopy, IInv, Locals
<1>2. producer.src[producer.i + 1] \in Sample
  BY <1>1, Types, ElementOfSeq DEF IInv
<1>3. slots' \in [0 .. Capacity - 1 -> Sample]
  BY <1>2 DEF PushCopy, IInv, TypeOK
<1>4. producer' = [producer EXCEPT !.i = producer.i + 1] /\ producer.i + 1 \in 0 .. Capacity
  BY <1>1, Types DEF PushCopy, IInv
<1>5. UNCHANGED <<writeIndex, readIndex, consumer, delivered>>
  BY DEF PushCopy
<1>6. TypeOK'
  BY <1>3, <1>4, <1>5 DEF IInv, TypeOK
<1>7. InStep' /\ Locals'
  BY <1>1, <1>4, <1>5 DEF IInv, TypeOK, InStep, Locals, Used
<1> QED
  BY <1>6, <1>7 DEF IInv

LEMMA PushPublishStep ==
  ASSUME IInv, PushPublish
  PROVE  IInv'
<1> USE IndexModPositive
<1>1. /\ writeIndex' = Add(writeIndex, producer.n)
      /\ producer' = [producer EXCEPT !.pc = "idle", !.src = <<>>, !.n = 0, !.i = 0]
      /\ UNCHANGED <<slots, readIndex, consumer, delivered>>
  BY DEF PushPublish
<1>2. producer.n \in Index
  BY Types DEF IInv, Index
<1>3. writeIndex' \in Index /\ Dist(writeIndex, writeIndex') = producer.n
  BY <1>1, <1>2, Types, DistAdd DEF IInv
<1>4. Used + producer.n =< Capacity
  BY Types DEF IInv, InStep
<1>5. Used' = Used + producer.n
  BY <1>1, <1>2, <1>3, <1>4, Types, DistJoin DEF IInv, Used
<1>6. <<>> \in Seq(Sample) /\ Len(<<>>) = 0
  OBVIOUS
<1>7. TypeOK'
  <2>1. 0 \in 0 .. Capacity
    OBVIOUS
  <2>2. producer' \in [pc : {"idle", "copy"}, seen : Index, src : Seq(Sample),
                      n : 0 .. Capacity, i : 0 .. Capacity]
    BY <1>1, <1>6, <2>1 DEF IInv, TypeOK
  <2> QED
    BY <1>1, <1>3, <2>2 DEF IInv, TypeOK
<1>8. /\ producer'.seen = producer.seen /\ producer'.n = 0 /\ producer'.i = 0
      /\ producer'.src = <<>>
  BY <1>1 DEF IInv, TypeOK
<1>9. InStep'
  BY <1>1, <1>5, <1>8, Types DEF IInv, InStep
<1>10. Locals'
  BY <1>1, <1>6, <1>8 DEF IInv, Locals
<1> QED
  BY <1>7, <1>9, <1>10 DEF IInv

LEMMA AvailableToWriteStep ==
  ASSUME IInv, AvailableToWrite
  PROVE  IInv'
<1> USE IndexModPositive
<1>1. PICK r \in Visible(producer.seen, readIndex) : producer' = [producer EXCEPT !.seen = r]
  BY DEF AvailableToWrite
<1>2. UNCHANGED <<slots, writeIndex, readIndex, consumer, delivered>>
  BY DEF AvailableToWrite
<1>3. r \in Index /\ Dist(producer.seen, r) =< Dist(producer.seen, readIndex)
  BY <1>1 DEF Visible
<1>4. Dist(r, readIndex) = Dist(producer.seen, readIndex) - Dist(producer.seen, r)
  BY <1>3, Types, DistRest DEF IInv
<1>5. Dist(producer.seen, r) \in Nat /\ Dist(r, readIndex) \in Nat
  BY <1>3, Types, DistValue DEF IInv
<1>6. TypeOK'
  BY <1>1, <1>2, <1>3 DEF IInv, TypeOK
<1>7. /\ producer'.seen = r /\ producer'.n = producer.n /\ producer'.i = producer.i
      /\ producer'.src = producer.src /\ producer'.pc = producer.pc
  BY <1>1 DEF IInv, TypeOK
<1>8. InStep' /\ Locals'
  <2>1. Dist(r, readIndex) + Used + producer.n =< Capacity
    BY <1>4, <1>5, Types DEF IInv, InStep
  <2> QED
    BY <1>2, <1>7, <2>1 DEF IInv, InStep, Locals, Used
<1> QED
  BY <1>6, <1>8 DEF IInv

-----------------------------------------------------------------------------
(* The consumer.                                                             *)
(* What a load of writeIndex can give it is published and still unread.      *)
LEMMA LoadedWriteIndex ==
  ASSUME IInv, NEW w \in Visible(consumer.seen, writeIndex)
  PROVE  /\ w \in Index
         /\ Dist(readIndex, w) \in Nat
         /\ Dist(readIndex, w) =< Used
<1> USE IndexModPositive
<1>1. w \in Index /\ Dist(consumer.seen, w) =< Dist(consumer.seen, writeIndex)
  BY DEF Visible
<1>2. Dist(consumer.seen, writeIndex) = Used - Dist(readIndex, consumer.seen)
  BY Types, DistRest DEF IInv, InStep, Used
<1>3. /\ Dist(consumer.seen, w) \in Nat
      /\ Dist(consumer.seen, writeIndex) \in Nat
      /\ Dist(readIndex, w) \in Nat
  BY <1>1, Types, DistValue DEF IInv
<1>4. Used < IndexMod
  BY Types DEF IInv, Index
<1>5. Dist(readIndex, consumer.seen) + Dist(consumer.seen, w) =< Used
  BY <1>1, <1>2, <1>3, Types DEF IInv
<1>6. Dist(readIndex, consumer.seen) + Dist(consumer.seen, w) < IndexMod
  BY <1>3, <1>4, <1>5, Types DEF IInv
<1>7. Dist(readIndex, w) = Dist(readIndex, consumer.seen) + Dist(consumer.seen, w)
  BY <1>1, <1>6, Types, DistJoin DEF IInv
<1> QED
  BY <1>1, <1>3, <1>5, <1>7

LEMMA PopBeginStep ==
  ASSUME IInv, NEW count \in Counts, PopBegin(count)
  PROVE  IInv'
<1> USE IndexModPositive
<1>1. PICK w \in Visible(consumer.seen, writeIndex) :
        consumer' = [pc |-> "copy", seen |-> w, dst |-> <<>>,
                     n |-> Least(count, Dist(readIndex, w))]
  BY DEF PopBegin
<1>2. UNCHANGED <<slots, writeIndex, readIndex, producer, delivered>>
  BY DEF PopBegin
<1>3. /\ w \in Index
      /\ Dist(readIndex, w) \in Nat
      /\ Dist(readIndex, w) =< Used
  BY LoadedWriteIndex
<1>4. Used =< Capacity
  BY Types DEF IInv, InStep
<1>5. count \in Nat
  BY RingAssumption
<1> DEFINE n == Least(count, Dist(readIndex, w))
<1>6. n \in 0 .. Capacity /\ n =< Dist(readIndex, w)
  BY <1>3, <1>4, <1>5, Types DEF Least, IInv
<1>7. consumer' = [pc |-> "copy", seen |-> w, dst |-> <<>>, n |-> n]
  BY <1>1
<1> HIDE DEF n
<1>8. <<>> \in Seq(Sample)
  OBVIOUS
<1>9. TypeOK'
  BY <1>2, <1>3, <1>6, <1>7, <1>8 DEF IInv, TypeOK
<1>10. InStep' /\ Locals'
  BY <1>2, <1>3, <1>6, <1>7 DEF IInv, InStep, Locals, Used
<1> QED
  BY <1>9, <1>10 DEF IInv

LEMMA PopCopyStep ==
  ASSUME IInv, PopCopy
  PROVE  IInv'
<1> USE IndexModPositive
<1> DEFINE sample == slots[Slot(Add(readIndex, Len(consumer.dst)))]
<1>1. sample \in Sample
  <2>1. Len(consumer.dst) \in 0 .. IndexMod
    BY Types, LenProperties DEF PopCopy, IInv
  <2>2. Add(readIndex, Len(consumer.dst)) \in Index
    BY <2>1, Types, AddValue DEF IInv
  <2>3. Slot(Add(readIndex, Len(consumer.dst))) \in 0 .. Capacity - 1
    BY <2>2 DEF Slot, Index
  <2> QED
    BY <2>3 DEF IInv, TypeOK
<1>2. consumer' = [consumer EXCEPT !.dst = Append(consumer.dst, sample)]
  BY DEF PopCopy
<1>3. UNCHANGED <<slots, writeIndex, readIndex, producer, delivered>>
  BY DEF PopCopy
<1> HIDE DEF sample
<1>4. Append(consumer.dst, sample) \in Seq(Sample)
  BY <1>1, Types, AppendProperties DEF IInv
<1>5. TypeOK'
  BY <1>2, <1>3, <1>4 DEF IInv, TypeOK
<1>6. consumer'.n = consumer.n /\ consumer'.seen = consumer.seen /\ consumer'.pc = consumer.pc
  BY <1>2 DEF IInv, TypeOK
<1>7. InStep' /\ Locals'
  BY <1>3, <1>6 DEF IInv, InStep, Locals, Used
<1> QED
  BY <1>5, <1>7 DEF IInv

(* Moving readIndex on to a place the consumer has seen as published.        *)
LEMMA ReadIndexMoves ==
  ASSUME IInv, NEW r \in Index, Dist(readIndex, r) =< Used
  PROVE  /\ Dist(r, writeIndex) = Used - Dist(readIndex, r)
         /\ Dist(producer.seen, r) = Dist(producer.seen, readIndex) + Dist(readIndex, r)
<1> USE IndexModPositive
<1>1. Dist(readIndex, r) \in Nat
  BY Types, DistValue DEF IInv
<1>2. Dist(r, writeIndex) = Used - Dist(readIndex, r)
  BY Types, DistRest DEF IInv, Used
<1>3. Dist(producer.seen, readIndex) + Dist(readIndex, r) < IndexMod
  BY <1>1, Types DEF IInv, InStep
<1> QED
  BY <1>2, <1>3, Types, DistJoin DEF IInv

LEMMA PopPublishStep ==
  ASSUME IInv, PopPublish
  PROVE  IInv'
<1> USE IndexModPositive
<1>1. /\ readIndex' = Add(readIndex, consumer.n)
      /\ delivered' = consumer.dst
      /\ consumer' = [consumer EXCEPT !.pc = "idle", !.n = 0, !.dst = <<>>]
      /\ UNCHANGED <<slots, writeIndex, producer>>
  BY DEF PopPublish
<1>2. consumer.n \in Index
  BY Types DEF IInv, Index
<1>3. readIndex' \in Index /\ Dist(readIndex, readIndex') = consumer.n
  BY <1>1, <1>2, Types, DistAdd DEF IInv
<1>4. consumer.n =< Dist(readIndex, consumer.seen) /\ consumer.n =< Used
  BY Types DEF IInv, InStep
<1>5. /\ Dist(readIndex', writeIndex) = Used - consumer.n
      /\ Dist(producer.seen, readIndex') = Dist(producer.seen, readIndex) + consumer.n
  BY <1>3, <1>4, ReadIndexMoves
<1>6. Dist(readIndex', consumer.seen) = Dist(readIndex, consumer.seen) - consumer.n
  BY <1>3, <1>4, Types, DistRest DEF IInv
<1>7. TypeOK'
  <2>1. consumer' \in [pc : {"idle", "copy", "clear"}, seen : Index,
                      n : 0 .. Capacity, dst : Seq(Sample)]
    <3>1. <<>> \in Seq(Sample) /\ 0 \in 0 .. Capacity
      OBVIOUS
    <3> QED
      BY <1>1, <3>1 DEF IInv, TypeOK
  <2> QED
    BY <1>1, <1>3, <2>1, Types DEF IInv, TypeOK
<1>8. consumer'.n = 0 /\ consumer'.seen = consumer.seen /\ consumer'.pc = "idle"
  BY <1>1 DEF IInv, TypeOK
<1>9. Used' = Used - consumer.n
  BY <1>1, <1>5 DEF Used
<1>10. InStep'
  BY <1>1, <1>4, <1>5, <1>6, <1>8, <1>9, Types DEF IInv, InStep
<1>11. Locals'
  BY <1>1, <1>8 DEF IInv, Locals
<1> QED
  BY <1>7, <1>10, <1>11 DEF IInv

LEMMA LoadStep ==
  ASSUME IInv, AvailableToRead \/ ClearBegin
  PROVE  IInv'
<1> USE IndexModPositive
<1>1. PICK w \in Visible(consumer.seen, writeIndex), pc \in {"idle", "clear"} :
        consumer' = [consumer EXCEPT !.pc = pc, !.seen = w]
  BY DEF AvailableToRead, ClearBegin, IInv, TypeOK
<1>2. UNCHANGED <<slots, writeIndex, readIndex, producer, delivered>> /\ consumer.pc = "idle"
  BY DEF AvailableToRead, ClearBegin
<1>3. /\ w \in Index
      /\ Dist(readIndex, w) \in Nat
      /\ Dist(readIndex, w) =< Used
  BY LoadedWriteIndex
<1>4. TypeOK'
  BY <1>1, <1>2, <1>3 DEF IInv, TypeOK
<1>5. consumer'.n = 0 /\ consumer'.seen = w
  BY <1>1, <1>2 DEF IInv, TypeOK, Locals
<1>6. InStep' /\ Locals'
  BY <1>2, <1>3, <1>5 DEF IInv, InStep, Locals, Used
<1> QED
  BY <1>4, <1>6 DEF IInv

LEMMA ClearPublishStep ==
  ASSUME IInv, ClearPublish
  PROVE  IInv'
<1> USE IndexModPositive
<1>1. /\ readIndex' = consumer.seen
      /\ consumer' = [consumer EXCEPT !.pc = "idle"]
      /\ UNCHANGED <<slots, writeIndex, producer, delivered>>
      /\ consumer.n = 0
  BY DEF ClearPublish, IInv, Locals
<1>2. Dist(readIndex, consumer.seen) =< Used /\ consumer.seen \in Index
  BY Types DEF IInv, InStep
<1>3. /\ Dist(consumer.seen, writeIndex) = Used - Dist(readIndex, consumer.seen)
      /\ Dist(producer.seen, consumer.seen)
           = Dist(producer.seen, readIndex) + Dist(readIndex, consumer.seen)
  BY <1>2, ReadIndexMoves
<1>4. Dist(consumer.seen, consumer.seen) = 0
  BY <1>2, DistAdd
<1>5. TypeOK'
  BY <1>1, <1>2 DEF IInv, TypeOK
<1>6. consumer'.n = 0 /\ consumer'.seen = consumer.seen
  BY <1>1 DEF IInv, TypeOK
<1>7. Used' = Used - Dist(readIndex, consumer.seen)
  BY <1>1, <1>3 DEF Used
<1>8. InStep'
  BY <1>1, <1>2, <1>3, <1>4, <1>6, <1>7, Types DEF IInv, InStep
<1>9. Locals'
  BY <1>1, <1>6 DEF IInv, Locals
<1> QED
  BY <1>5, <1>8, <1>9 DEF IInv

LEMMA StepIInv == IInv /\ [Next]_vars => IInv'
<1> SUFFICES ASSUME IInv, [Next]_vars PROVE IInv'
  OBVIOUS
<1>1. CASE ProducerStep
  BY <1>1, PushBeginStep, PushCopyStep, PushPublishStep, AvailableToWriteStep DEF ProducerStep
<1>2. CASE ConsumerStep
  BY <1>2, PopBeginStep, PopCopyStep, PopPublishStep, LoadStep, ClearPublishStep
     DEF ConsumerStep
<1>3. CASE UNCHANGED vars
  BY <1>3 DEF vars, IInv, TypeOK, InStep, Locals, Used
<1> QED
  BY <1>1, <1>2, <1>3 DEF Next

(* IInv holds of every state there is.                                        *)
THEOREM Inductive == Spec => []IInv
BY InitIInv, StepIInv, PTL DEF Spec

(* The variables of the ring have their types.                               *)
THEOREM TypeCorrect == Spec => []TypeOK
<1>1. IInv => TypeOK
  BY DEF IInv
<1> QED
  BY <1>1, Inductive, PTL

(* What a thread still believes errs on the safe side, so the indexes as they *)
(* are fit as well.                                                           *)
LEMMA RoomAndUnread ==
  ASSUME IInv
  PROVE  IndexesInStep
<1> DEFINE unread == Used
           stale  == Dist(producer.seen, readIndex)
           known  == Dist(readIndex, consumer.seen)
           room   == producer.n
           taken  == consumer.n
<1>1. /\ unread \in Nat /\ stale \in Nat /\ known \in Nat
      /\ room \in Nat /\ taken \in Nat /\ Capacity \in Nat
  BY Types, IndexModPositive DEF IInv
<1>2. stale + unread + room =< Capacity /\ known =< unread /\ taken =< known
  BY DEF IInv, InStep
<1>3. IndexesInStep <=> /\ unread + room =< Capacity
                        /\ taken =< unread
                        /\ known =< unread
                        /\ stale + unread =< Capacity
  BY DEF IndexesInStep
<1> HIDE DEF unread, stale, known, room, taken
<1> QED
  BY <1>1, <1>2, <1>3

(* No unsigned difference of the indexes underflows: the consumer never      *)
(* reads what was not published, a push() in progress fits beside what is    *)
(* unread, for any number of laps of the indexes (ring_buffer.cpp:24, 37).   *)
THEOREM InOrder == Spec => []IndexesInStep
<1>1. IInv => IndexesInStep
  BY RoomAndUnread
<1> QED
  BY <1>1, Inductive, PTL
-----------------------------------------------------------------------------
(* Two places on the circle less than a capacity apart are different slots:  *)
(* the capacity divides the number of indexes, so the wrap changes nothing.  *)
LEMMA SlotsDiffer ==
  ASSUME NEW r \in Index, NEW k \in Nat, NEW j \in Nat,
         k < j, j - k < Capacity, j =< Capacity
  PROVE  Slot(Add(r, k)) # Slot(Add(r, j))
<1> USE IndexModPositive
<1>1. k \in 0 .. IndexMod /\ j \in 0 .. IndexMod
  OBVIOUS
<1> DEFINE x == Add(r, k)
           y == Add(r, j)
<1>2. /\ x \in Index /\ y \in Index
      /\ y - x = j - k \/ y - x = j - k - IndexMod
  <2>1. /\ r + k < IndexMod => x = r + k
        /\ r + k >= IndexMod => x = r + k - IndexMod
        /\ x \in Index
    BY <1>1, AddValue
  <2>2. /\ r + j < IndexMod => y = r + j
        /\ r + j >= IndexMod => y = r + j - IndexMod
        /\ y \in Index
    BY <1>1, AddValue
  <2> HIDE DEF x, y
  <2> QED
    BY <2>1, <2>2 DEF Index
<1> HIDE DEF x, y
<1> SUFFICES ASSUME Slot(x) = Slot(y) PROVE FALSE
  BY DEF x, y
<1>3. x \in Nat /\ y \in Nat /\ x % Capacity = y % Capacity
  BY <1>2 DEF Slot, Index
<1>4. PICK turns \in Int : y - x = Capacity * turns
  BY <1>3, SameRemainder
<1>5. PICK laps \in Int : IndexMod = Capacity * laps
  <2>1. IndexMod % Capacity = 0 % Capacity
    <3>1. 0 % Capacity = 0
      OBVIOUS
    <3> QED
      BY <3>1, RingAssumption
  <2>2. \E laps \in Int : 0 - IndexMod = Capacity * laps
    BY <2>1, SameRemainder
  <2>3. PICK laps \in Int : 0 - IndexMod = Capacity * laps
    BY <2>2
  <2>4. IndexMod = Capacity * (-laps)
    BY <2>3
  <2> QED
    BY <2>4
<1>6. PICK m \in Int : j - k = Capacity * m
  <2>1. CASE y - x = j - k
    BY <1>4, <2>1
  <2>2. CASE y - x = j - k - IndexMod
    <3>1. j - k = Capacity * turns + Capacity * laps
      BY <1>4, <1>5, <2>2
    <3>2. Capacity * turns + Capacity * laps = Capacity * (turns + laps)
      OBVIOUS
    <3>3. turns + laps \in Int
      OBVIOUS
    <3> QED
      BY <3>1, <3>2, <3>3
  <2> QED
    BY <1>2, <2>1, <2>2
<1>7. j - k \in 1 .. Capacity - 1
  OBVIOUS
<1> QED
  BY <1>6, <1>7, NoMultiple

(* No slot a push() has still to fill is one that holds an unread sample.    *)
LEMMA SlotsApart == IInv => NoDataRace
<1> USE IndexModPositive
<1> SUFFICES ASSUME IInv,
                    NEW i \in producer.i .. producer.n - 1, NEW k \in 0 .. Used - 1
             PROVE  Slot(Add(writeIndex, i)) # Slot(Add(readIndex, k))
  BY DEF NoDataRace
<1>1. /\ Used \in Nat
      /\ producer.n \in 0 .. Capacity /\ producer.i \in 0 .. Capacity
  BY Types DEF IInv
<1>2. Used + producer.n =< Capacity
  BY RoomAndUnread DEF IndexesInStep
<1> DEFINE j == Used + i
<1>3. /\ i \in Nat /\ k \in Nat /\ j \in Nat
      /\ k < j /\ j - k < Capacity /\ j =< Capacity
  BY <1>1, <1>2
<1>4. Add(writeIndex, i) = Add(readIndex, j)
  BY <1>1, <1>2, <1>3, Types, AddDist, AddJoin DEF IInv, Used
<1> HIDE DEF j
<1>5. Slot(Add(readIndex, k)) # Slot(Add(readIndex, j))
  BY <1>3, Types, SlotsDiffer DEF IInv
<1> QED
  BY <1>4, <1>5

(* The copy loops of push() and pop() never meet in a slot, and no unread    *)
(* sample is overwritten (ring_buffer.cpp:27-29 and 40-42).                  *)
THEOREM RaceFree == Spec => []NoDataRace
BY SlotsApart, Inductive, PTL

-----------------------------------------------------------------------------
(***************************************************************************)
(* The ring implements BoundedFifo.  Beside the indexes the proof needs    *)
(* what the two copy loops have done so far: the slots behind the queue    *)
(* already hold the head of the batch, and the caller of pop() has the     *)
(* head of the queue, which nobody can change under it.                    *)
(***************************************************************************)
Copies ==
  /\ producer.pc = "idle" => producer.src = <<>>
  /\ consumer.pc # "copy" => consumer.dst = <<>>
  /\ Len(consumer.dst) =< consumer.n
  /\ \A k \in 0 .. producer.i - 1 :
       slots[Slot(Add(writeIndex, k))] = producer.src[k + 1]
  /\ \A k \in 1 .. Len(consumer.dst) :
       consumer.dst[k] = slots[Slot(Add(readIndex, k - 1))]

CInv == IInv /\ Copies

(* A place reached by fewer than a capacity of steps is a slot of the ring. *)
LEMMA SlotInRing ==
  ASSUME NEW a \in Index, NEW k \in 0 .. Capacity
  PROVE  Slot(Add(a, k)) \in 0 .. Capacity - 1
<1> USE IndexModPositive
<1>1. k \in 0 .. IndexMod
  OBVIOUS
<1>2. Add(a, k) \in Index
  BY <1>1, AddValue
<1> QED
  BY <1>2 DEF Slot, Index

(* The queue of the mapping is a sequence: the slots between the indexes.     *)
QueueIsUnread ==
  /\ Queue \in Seq(Sample)
  /\ Len(Queue) = Used
  /\ \A k \in 1 .. Used : Queue[k] = slots[Slot(Add(readIndex, k - 1))]

LEMMA QueueProperties == IInv => QueueIsUnread
<1> USE IndexModPositive
<1> SUFFICES ASSUME IInv PROVE QueueIsUnread
  OBVIOUS
<1> DEFINE at(k) == slots[Slot(Add(readIndex, k - 1))]
<1>1. Used \in Nat /\ Used =< Capacity
  BY Types, RoomAndUnread DEF IInv, IndexesInStep
<1>2. \A k \in 1 .. Used : at(k) \in Sample
  <2> TAKE k \in 1 .. Used
  <2>1. k - 1 \in 0 .. Capacity
    BY <1>1
  <2>2. Slot(Add(readIndex, k - 1)) \in 0 .. Capacity - 1
    BY <2>1, Types, SlotInRing DEF IInv
  <2> QED
    BY <2>2 DEF IInv, TypeOK
<1>3. Queue = [k \in 1 .. Used |-> at(k)]
  BY DEF Queue
<1> HIDE DEF at
<1>4. Queue \in Seq(Sample)
  BY <1>1, <1>2, <1>3, IsASeq
<1>5. DOMAIN Queue = 1 .. Used
  BY <1>3
<1>6. Len(Queue) = Used
  BY <1>1, <1>4, <1>5, LenProperties
<1>7. \A k \in 1 .. Used : Queue[k] = at(k)
  BY <1>3
<1> QED
  BY <1>4, <1>5, <1>6, <1>7 DEF at, QueueIsUnread

(* The same of the next state.                                               *)
LEMMA NextQueue == IInv' => QueueIsUnread'
BY QueueProperties, PTL

(* The copy loops, the call of push() and the queue they leave.               *)
LEMMA InitCopies == Init => Copies
BY DEF Init, Copies

(* The call of push() offers its batch and leaves the queue alone.            *)
LEMMA PushBeginFifo ==
  ASSUME CInv, NEW src \in Batches, PushBegin(src)
  PROVE  Copies' /\ Fifo!Offer(src)
<1>1. PICK r \in Visible(producer.seen, readIndex) :
        producer' = [pc |-> "copy", seen |-> r, src |-> src, i |-> 0,
                     n |-> Least(Len(src), Free(writeIndex, r))]
  BY DEF PushBegin
<1>2. UNCHANGED <<slots, writeIndex, readIndex, consumer, delivered>> /\ producer.pc = "idle"
  BY DEF PushBegin
<1>3. producer'.pc = "copy" /\ producer'.src = src /\ producer'.i = 0
  BY <1>1
<1>4. Copies'
  BY <1>2, <1>3 DEF CInv, Copies
<1>5. producer.src = <<>> /\ Queue' = Queue
  BY <1>2 DEF CInv, Copies, Queue, Used
<1> QED
  BY <1>2, <1>3, <1>4, <1>5 DEF Fifo!Offer

(* A slot is filled outside the queue: nothing in it changes.                *)
LEMMA PushCopyFifo ==
  ASSUME CInv, PushCopy
  PROVE  Copies' /\ UNCHANGED Fifo!vars
<1> USE IndexModPositive
<1> DEFINE here == Slot(Add(writeIndex, producer.i))
<1>1. /\ producer.pc = "copy" /\ producer.i < producer.n
      /\ slots' = [slots EXCEPT ![here] = producer.src[producer.i + 1]]
      /\ producer' = [producer EXCEPT !.i = producer.i + 1]
      /\ UNCHANGED <<writeIndex, readIndex, consumer, delivered>>
  BY DEF PushCopy
<1>2. producer.i \in 0 .. Capacity /\ producer.n \in 0 .. Capacity
  BY Types DEF CInv, IInv
<1>3. here \in 0 .. Capacity - 1
  BY <1>2, Types, SlotInRing DEF CInv, IInv
<1>4. /\ producer'.pc = producer.pc /\ producer'.src = producer.src
      /\ producer'.i = producer.i + 1
  BY <1>1 DEF CInv, IInv, TypeOK
<1>5. \A s \in 0 .. Capacity - 1 : s # here => slots'[s] = slots[s]
  BY <1>1, <1>3 DEF CInv, IInv, TypeOK
<1>6. slots'[here] = producer.src[producer.i + 1]
  BY <1>1, <1>3 DEF CInv, IInv, TypeOK
<1>7. Used \in Nat /\ Used =< Capacity
  BY Types, RoomAndUnread DEF CInv, IInv, IndexesInStep
<1>8. \A k \in 1 .. Used :
        slots'[Slot(Add(readIndex, k - 1))] = slots[Slot(Add(readIndex, k - 1))]
  <2> TAKE k \in 1 .. Used
  <2>1. here # Slot(Add(readIndex, k - 1))
    <3>1. producer.i \in producer.i .. producer.n - 1 /\ k - 1 \in 0 .. Used - 1
      BY <1>1, <1>2, <1>7
    <3> HIDE DEF here
    <3> QED
      BY <1>1, <3>1, SlotsApart DEF CInv, NoDataRace, here
  <2>2. k - 1 \in 0 .. Capacity
    BY <1>7
  <2>3. Slot(Add(readIndex, k - 1)) \in 0 .. Capacity - 1
    BY <2>2, Types, SlotInRing DEF CInv, IInv
  <2> QED
    BY <1>5, <2>1, <2>3
<1>9. \A k \in 0 .. producer.i - 1 :
        slots'[Slot(Add(writeIndex, k))] = slots[Slot(Add(writeIndex, k))]
  <2> TAKE k \in 0 .. producer.i - 1
  <2>1. /\ k \in Nat /\ producer.i \in Nat /\ k < producer.i
        /\ producer.i - k < Capacity /\ producer.i =< Capacity /\ k \in 0 .. Capacity
    BY <1>1, <1>2
  <2>2. Slot(Add(writeIndex, k)) # here
    BY <2>1, Types, SlotsDiffer DEF CInv, IInv
  <2>3. Slot(Add(writeIndex, k)) \in 0 .. Capacity - 1
    BY <2>1, Types, SlotInRing DEF CInv, IInv
  <2> QED
    BY <1>5, <2>2, <2>3
<1>10. Queue' = Queue /\ Used' = Used
  <2>1. Used' = Used
    BY <1>1 DEF Used
  <2>2. Queue' = [k \in 1 .. Used |-> slots'[Slot(Add(readIndex, k - 1))]]
    BY <1>1, <2>1 DEF Queue
  <2> QED
    BY <1>8, <2>1, <2>2 DEF Queue
<1>11. \A k \in 0 .. producer'.i - 1 :
         slots'[Slot(Add(writeIndex', k))] = producer'.src[k + 1]
  <2> TAKE k \in 0 .. producer'.i - 1
  <2>1. writeIndex' = writeIndex /\ producer'.src = producer.src
    BY <1>1, <1>4
  <2>2. CASE k = producer.i
    BY <1>6, <2>1, <2>2
  <2>3. CASE k # producer.i
    <3>1. k \in 0 .. producer.i - 1
      BY <1>2, <1>4, <2>3
    <3>2. slots[Slot(Add(writeIndex, k))] = producer.src[k + 1]
      BY <3>1 DEF CInv, Copies
    <3> QED
      BY <1>9, <2>1, <3>1, <3>2
  <2> QED
    BY <2>2, <2>3
<1>12. \A k \in 1 .. Len(consumer'.dst) :
         consumer'.dst[k] = slots'[Slot(Add(readIndex', k - 1))]
  <2>1. \A k \in 1 .. Len(consumer.dst) : k \in 1 .. Used
    BY <1>7, Types, LenProperties, RoomAndUnread DEF CInv, IInv, Copies, IndexesInStep
  <2> QED
    BY <1>1, <1>8, <2>1 DEF CInv, Copies
<1>13. Copies'
  BY <1>1, <1>4, <1>11, <1>12 DEF CInv, Copies
<1> QED
  BY <1>1, <1>4, <1>10, <1>13 DEF Fifo!vars

(* The store of writeIndex appends what the loop has copied, all at once.     *)
LEMMA PushPublishFifo ==
  ASSUME CInv, IInv', PushPublish
  PROVE  Copies' /\ Fifo!Push(producer.n) /\ producer.n \in 0 .. Len(producer.src)
<1> USE IndexModPositive
<1> DEFINE n == producer.n
           pushed == SubSeq(producer.src, 1, n)
<1>1. /\ producer.i = n
      /\ writeIndex' = Add(writeIndex, n)
      /\ producer' = [producer EXCEPT !.pc = "idle", !.src = <<>>, !.n = 0, !.i = 0]
      /\ UNCHANGED <<slots, readIndex, consumer, delivered>>
  BY DEF PushPublish
<1>2. /\ producer'.pc = "idle" /\ producer'.src = <<>> /\ producer'.i = 0
  BY <1>1 DEF CInv, IInv, TypeOK
<1>3. /\ n \in Nat /\ n =< Len(producer.src) /\ producer.src \in Seq(Sample)
      /\ Used \in Nat /\ Used + n =< Capacity
  BY Types, RoomAndUnread DEF CInv, IInv, Locals, IndexesInStep
<1>4. Used' = Used + n
  <2>1. n \in Index
    BY <1>3 DEF Index
  <2>2. writeIndex' \in Index /\ Dist(writeIndex, writeIndex') = n
    BY <1>1, <2>1, Types, DistAdd DEF CInv, IInv
  <2> QED
    BY <1>1, <1>3, <2>2, Types, DistJoin DEF CInv, IInv, Used
<1>5. /\ pushed \in Seq(Sample) /\ Len(pushed) = n
      /\ \A k \in 1 .. n : pushed[k] = producer.src[k]
  <2>1. \A k \in 1 .. n : producer.src[k] \in Sample
    BY <1>3, ElementOfSeq
  <2> QED
    BY <1>3, <2>1, SubSeqProperties
<1> HIDE DEF n, pushed
<1>6. /\ Queue \in Seq(Sample) /\ Len(Queue) = Used
      /\ \A k \in 1 .. Used : Queue[k] = slots[Slot(Add(readIndex, k - 1))]
  BY QueueProperties DEF CInv, QueueIsUnread
<1>7. /\ Queue' \in Seq(Sample) /\ Len(Queue') = Used + n
      /\ \A k \in 1 .. Used + n : Queue'[k] = slots[Slot(Add(readIndex, k - 1))]
  <2>1. Queue' \in Seq(Sample) /\ Len(Queue') = Used'
    BY NextQueue DEF QueueIsUnread
  <2>2. Queue' = [k \in 1 .. Used' |-> slots'[Slot(Add(readIndex', k - 1))]]
    BY DEF Queue
  <2> QED
    BY <1>1, <1>4, <2>1, <2>2
<1>8. Queue' = Queue \o pushed
  <2>1. /\ Queue \o pushed \in Seq(Sample) /\ Len(Queue \o pushed) = Used + n
        /\ \A k \in 1 .. Used + n : (Queue \o pushed)[k]
             = IF k =< Used THEN Queue[k] ELSE pushed[k - Used]
    BY <1>5, <1>6, ConcatProperties
  <2>2. ASSUME NEW k \in 1 .. Used + n
        PROVE  Queue'[k] = (Queue \o pushed)[k]
    <3>1. CASE k =< Used
      <4>1. (Queue \o pushed)[k] = Queue[k] /\ k \in 1 .. Used
        BY <1>3, <2>1, <3>1
      <4> QED
        BY <1>6, <1>7, <4>1
    <3>2. CASE ~(k =< Used)
      <4> DEFINE i == k - Used - 1
      <4>1. i \in 0 .. n - 1 /\ i \in Nat /\ Used + i = k - 1 /\ i + 1 = k - Used
        BY <1>3, <3>2
      <4>2. (Queue \o pushed)[k] = producer.src[i + 1]
        <5>1. k - Used \in 1 .. n
          BY <1>3, <3>2
        <5> QED
          BY <1>5, <2>1, <3>2, <4>1, <5>1
      <4> HIDE DEF i
      <4>3. slots[Slot(Add(writeIndex, i))] = producer.src[i + 1]
        BY <1>1, <4>1 DEF CInv, Copies, n
      <4>4. Add(writeIndex, i) = Add(readIndex, k - 1)
        <5>1. Used + i =< Capacity
          BY <1>3, <4>1
        <5>2. Add(readIndex, Used) = writeIndex
          BY Types, AddDist DEF CInv, IInv, Used
        <5>3. Add(Add(readIndex, Used), i) = Add(readIndex, Used + i)
          BY <1>3, <4>1, <5>1, Types, AddJoin DEF CInv, IInv
        <5> QED
          BY <4>1, <5>2, <5>3
      <4> QED
        BY <1>7, <4>2, <4>3, <4>4
    <3> QED
      BY <3>1, <3>2
  <2> QED
    BY <1>7, <2>1, <2>2, SeqEqual
<1>9. Copies'
  BY <1>1, <1>2 DEF CInv, Copies
<1>10. Fifo!Push(n)
  BY <1>1, <1>2, <1>3, <1>6, <1>8 DEF Fifo!Push, pushed
<1> QED
  BY <1>3, <1>9, <1>10 DEF n

(* A load, and the copy to the caller, leave the queue as it is.              *)
LEMMA PopBeginFifo ==
  ASSUME CInv, IInv', NEW count \in Counts, PopBegin(count)
  PROVE  Copies' /\ UNCHANGED Fifo!vars
<1>1. PICK w \in Visible(consumer.seen, writeIndex) :
        consumer' = [pc |-> "copy", seen |-> w, dst |-> <<>>,
                     n |-> Least(count, Dist(readIndex, w))]
  BY DEF PopBegin
<1>2. UNCHANGED <<slots, writeIndex, readIndex, producer, delivered>>
  BY DEF PopBegin
<1>3. consumer'.pc = "copy" /\ consumer'.dst = <<>> /\ consumer'.n \in Nat
  BY <1>1 DEF IInv, TypeOK
<1>4. Copies'
  BY <1>2, <1>3 DEF CInv, Copies
<1> QED
  BY <1>2, <1>4 DEF Fifo!vars, Queue, Used

LEMMA PopCopyFifo ==
  ASSUME CInv, PopCopy
  PROVE  Copies' /\ UNCHANGED Fifo!vars
<1> USE IndexModPositive
<1> DEFINE sample == slots[Slot(Add(readIndex, Len(consumer.dst)))]
<1>1. /\ consumer' = [consumer EXCEPT !.dst = Append(consumer.dst, sample)]
      /\ consumer.pc = "copy" /\ Len(consumer.dst) < consumer.n
      /\ UNCHANGED <<slots, writeIndex, readIndex, producer, delivered>>
  BY DEF PopCopy
<1>2. /\ consumer'.dst = Append(consumer.dst, sample) /\ consumer'.n = consumer.n
      /\ consumer'.pc = "copy"
  BY <1>1 DEF CInv, IInv, TypeOK
<1>3. sample \in Sample
  <2>1. Len(consumer.dst) \in 0 .. Capacity
    BY <1>1, Types, LenProperties DEF CInv, IInv
  <2>2. Slot(Add(readIndex, Len(consumer.dst))) \in 0 .. Capacity - 1
    BY <2>1, Types, SlotInRing DEF CInv, IInv
  <2> QED
    BY <2>2 DEF CInv, IInv, TypeOK
<1>4. consumer.dst \in Seq(Sample) /\ Len(consumer.dst) \in Nat /\ consumer.n \in Nat
  BY Types, LenProperties DEF CInv, IInv
<1> HIDE DEF sample
<1>5. /\ Len(consumer'.dst) = Len(consumer.dst) + 1
      /\ \A k \in 1 .. Len(consumer.dst) : consumer'.dst[k] = consumer.dst[k]
      /\ consumer'.dst[Len(consumer.dst) + 1] = sample
  BY <1>2, <1>3, <1>4, AppendProperties
<1>6. \A k \in 1 .. Len(consumer'.dst) :
        consumer'.dst[k] = slots[Slot(Add(readIndex, k - 1))]
  <2> TAKE k \in 1 .. Len(consumer'.dst)
  <2>1. CASE k \in 1 .. Len(consumer.dst)
    BY <1>5, <2>1 DEF CInv, Copies
  <2>2. CASE k = Len(consumer.dst) + 1
    <3>1. k - 1 = Len(consumer.dst)
      BY <1>4, <2>2
    <3> QED
      BY <1>5, <2>2, <3>1 DEF sample
  <2> QED
    BY <1>4, <1>5, <2>1, <2>2
<1>7. Copies'
  BY <1>1, <1>2, <1>4, <1>5, <1>6 DEF CInv, Copies
<1> QED
  BY <1>1, <1>7 DEF Fifo!vars, Queue, Used

(* The store of readIndex takes as many of the oldest samples as it skips.    *)
LEMMA QueueShrinks ==
  ASSUME IInv, IInv', NEW n \in 0 .. Used,
         readIndex' = Add(readIndex, n), UNCHANGED <<slots, writeIndex>>
  PROVE  /\ n \in 0 .. Len(Queue)
         /\ Queue' = SubSeq(Queue, n + 1, Len(Queue))
<1> USE IndexModPositive
<1>1. Used \in Nat /\ Used =< Capacity /\ n \in Nat /\ n =< Used
  BY Types, RoomAndUnread DEF IInv, IndexesInStep
<1>2. Used' = Used - n
  <2>1. n \in Index
    BY <1>1 DEF Index
  <2>2. readIndex' \in Index /\ Dist(readIndex, readIndex') = n
    BY <2>1, Types, DistAdd DEF IInv
  <2>3. Dist(readIndex', writeIndex) = Used - n
    BY <1>1, <2>2, ReadIndexMoves
  <2> QED
    BY <2>3 DEF Used
<1>3. /\ Queue \in Seq(Sample) /\ Len(Queue) = Used
      /\ \A k \in 1 .. Used : Queue[k] = slots[Slot(Add(readIndex, k - 1))]
  BY QueueProperties DEF QueueIsUnread
<1>4. /\ Queue' \in Seq(Sample) /\ Len(Queue') = Used - n
      /\ \A k \in 1 .. Used - n : Queue'[k] = slots[Slot(Add(readIndex', k - 1))]
  <2>1. Queue' \in Seq(Sample) /\ Len(Queue') = Used'
    BY NextQueue DEF QueueIsUnread
  <2>2. Queue' = [k \in 1 .. Used' |-> slots'[Slot(Add(readIndex', k - 1))]]
    BY DEF Queue
  <2> QED
    BY <1>2, <2>1, <2>2
<1> DEFINE rest == SubSeq(Queue, n + 1, Used)
<1>5. /\ rest \in Seq(Sample) /\ Len(rest) = Used - n
      /\ \A k \in 1 .. Used - n : rest[k] = Queue[n + k]
  <2>1. \A k \in n + 1 .. Used : Queue[k] \in Sample
    BY <1>1, <1>3, ElementOfSeq
  <2>2. /\ rest \in Seq(Sample)
        /\ Len(rest) = IF n + 1 =< Used THEN Used - (n + 1) + 1 ELSE 0
        /\ \A k \in 1 .. Used - (n + 1) + 1 : rest[k] = Queue[(n + 1) + k - 1]
    BY <1>1, <2>1, SubSeqProperties
  <2> HIDE DEF rest
  <2>3. Len(rest) = Used - n /\ Used - (n + 1) + 1 = Used - n
    BY <1>1, <2>2
  <2>4. \A k \in 1 .. Used - n : (n + 1) + k - 1 = n + k
    BY <1>1
  <2> QED
    BY <2>2, <2>3, <2>4
<1> HIDE DEF rest
<1>6. ASSUME NEW k \in 1 .. Used - n
      PROVE  Queue'[k] = rest[k]
  <2> DEFINE before == k - 1
  <2>1. before \in Nat /\ n + before =< Capacity /\ n + before = (n + k) - 1
        /\ n + k \in 1 .. Used
    BY <1>1
  <2>2. Queue'[k] = slots[Slot(Add(Add(readIndex, n), before))]
    BY <1>4
  <2> HIDE DEF before
  <2>3. Add(Add(readIndex, n), before) = Add(readIndex, n + before)
    BY <1>1, <2>1, Types, AddJoin DEF IInv
  <2>4. Queue[n + k] = slots[Slot(Add(readIndex, (n + k) - 1))]
    BY <1>3, <2>1
  <2> QED
    BY <1>5, <2>1, <2>2, <2>3, <2>4
<1>7. Queue' = rest
  BY <1>4, <1>5, <1>6, SeqEqual
<1> QED
  BY <1>1, <1>3, <1>7 DEF rest

(* pop() has given its caller exactly those.                                 *)
LEMMA PopPublishFifo ==
  ASSUME CInv, IInv', PopPublish
  PROVE  /\ Copies'
         /\ consumer.n \in 0 .. Len(Queue)
         /\ Fifo!Pop(consumer.n)
<1> USE IndexModPositive
<1> DEFINE n == consumer.n
<1>1. /\ Len(consumer.dst) = n
      /\ readIndex' = Add(readIndex, n)
      /\ delivered' = consumer.dst
      /\ consumer' = [consumer EXCEPT !.pc = "idle", !.n = 0, !.dst = <<>>]
      /\ UNCHANGED <<slots, writeIndex, producer>>
  BY DEF PopPublish
<1>2. consumer'.pc = "idle" /\ consumer'.n = 0 /\ consumer'.dst = <<>>
  BY <1>1 DEF CInv, IInv, TypeOK
<1>3. Copies'
  BY <1>1, <1>2 DEF CInv, Copies
<1>4. n \in 0 .. Used /\ n \in Nat /\ Used \in Nat
  BY Types, RoomAndUnread DEF CInv, IInv, IndexesInStep
<1> HIDE DEF n
<1>5. n \in 0 .. Len(Queue) /\ Queue' = SubSeq(Queue, n + 1, Len(Queue))
  BY <1>1, <1>4, QueueShrinks DEF CInv
<1>6. consumer.dst = SubSeq(Queue, 1, n)
  <2>1. /\ Queue \in Seq(Sample) /\ Len(Queue) = Used
        /\ \A k \in 1 .. Used : Queue[k] = slots[Slot(Add(readIndex, k - 1))]
    BY QueueProperties DEF CInv, QueueIsUnread
  <2>2. \A k \in 1 .. n : Queue[k] \in Sample
    BY <1>4, <2>1, ElementOfSeq
  <2>3. /\ SubSeq(Queue, 1, n) \in Seq(Sample) /\ Len(SubSeq(Queue, 1, n)) = n
        /\ \A k \in 1 .. n : SubSeq(Queue, 1, n)[k] = Queue[k]
    BY <1>4, <2>2, SubSeqProperties
  <2>4. consumer.dst \in Seq(Sample)
    BY Types DEF CInv, IInv
  <2>5. \A k \in 1 .. n : consumer.dst[k] = Queue[k]
    BY <1>1, <1>4, <2>1 DEF CInv, Copies
  <2> QED
    BY <1>1, <2>3, <2>4, <2>5, SeqEqual
<1>7. Fifo!Pop(n)
  BY <1>1, <1>5, <1>6 DEF Fifo!Pop
<1> QED
  BY <1>3, <1>5, <1>7 DEF n

(* Loads outside a copy.                                                     *)
LEMMA ConsumerLoadFifo ==
  ASSUME CInv, AvailableToRead \/ ClearBegin
  PROVE  Copies' /\ UNCHANGED Fifo!vars
<1>1. PICK w \in Visible(consumer.seen, writeIndex), pc \in {"idle", "clear"} :
        consumer' = [consumer EXCEPT !.pc = pc, !.seen = w]
  BY DEF AvailableToRead, ClearBegin, CInv, IInv, TypeOK
<1>2. UNCHANGED <<slots, writeIndex, readIndex, producer, delivered>> /\ consumer.pc = "idle"
  BY DEF AvailableToRead, ClearBegin
<1>3. consumer'.n = consumer.n /\ consumer'.dst = consumer.dst /\ consumer.dst = <<>>
  BY <1>1, <1>2 DEF CInv, IInv, TypeOK, Copies
<1>4. Copies'
  BY <1>2, <1>3 DEF CInv, Copies
<1> QED
  BY <1>2, <1>4 DEF Fifo!vars, Queue, Used

LEMMA AvailableToWriteFifo ==
  ASSUME CInv, AvailableToWrite
  PROVE  Copies' /\ UNCHANGED Fifo!vars
<1>1. PICK r \in Visible(producer.seen, readIndex) : producer' = [producer EXCEPT !.seen = r]
  BY DEF AvailableToWrite
<1>2. UNCHANGED <<slots, writeIndex, readIndex, consumer, delivered>>
  BY DEF AvailableToWrite
<1>3. /\ producer'.pc = producer.pc /\ producer'.src = producer.src
      /\ producer'.i = producer.i
  BY <1>1 DEF CInv, IInv, TypeOK
<1>4. Copies'
  BY <1>2, <1>3 DEF CInv, Copies
<1> QED
  BY <1>2, <1>3, <1>4 DEF Fifo!vars, Queue, Used

(* clear() drops what it had seen as published, and no more.                  *)
LEMMA ClearPublishFifo ==
  ASSUME CInv, IInv', ClearPublish
  PROVE  /\ Copies'
         /\ Dist(readIndex, consumer.seen) \in 0 .. Len(Queue)
         /\ Fifo!Clear(Dist(readIndex, consumer.seen))
<1> DEFINE n == Dist(readIndex, consumer.seen)
<1>1. /\ readIndex' = consumer.seen
      /\ consumer' = [consumer EXCEPT !.pc = "idle"]
      /\ UNCHANGED <<slots, writeIndex, producer, delivered>>
      /\ consumer.pc = "clear"
  BY DEF ClearPublish
<1>2. consumer'.n = consumer.n /\ consumer'.dst = consumer.dst /\ consumer.dst = <<>>
  BY <1>1 DEF CInv, IInv, TypeOK, Copies
<1>3. Copies'
  BY <1>1, <1>2 DEF CInv, Copies
<1>4. n \in 0 .. Used
  BY Types DEF CInv, IInv, InStep
<1>5. readIndex' = Add(readIndex, n)
  BY <1>1, Types, AddDist DEF CInv, IInv
<1> HIDE DEF n
<1>6. n \in 0 .. Len(Queue) /\ Queue' = SubSeq(Queue, n + 1, Len(Queue))
  BY <1>1, <1>4, <1>5, QueueShrinks DEF CInv
<1>7. Fifo!Clear(n)
  BY <1>1, <1>6 DEF Fifo!Clear
<1> QED
  BY <1>3, <1>6, <1>7 DEF n

(* The initial states, and every step.                                       *)
LEMMA InitFifo == Init => Fifo!Init
<1> SUFFICES ASSUME Init PROVE Fifo!Init
  OBVIOUS
<1>1. 0 \in Index
  BY IndexModPositive DEF Index
<1>2. Used = 0
  BY <1>1, DistAdd DEF Init, Used
<1>3. Queue \in Seq(Sample) /\ Len(Queue) = 0
  BY <1>2, InitIInv, QueueProperties DEF QueueIsUnread
<1>4. Queue = <<>>
  BY <1>3
<1> QED
  BY <1>4 DEF Init, Fifo!Init

LEMMA StepFifo ==
  ASSUME CInv, IInv', [Next]_vars
  PROVE  CInv' /\ [Fifo!Next]_Fifo!vars
<1> SUFFICES Copies' /\ [Fifo!Next]_Fifo!vars
  BY DEF CInv
<1>1. CASE ProducerStep
  <2>1. ASSUME NEW src \in Batches, PushBegin(src)
        PROVE  Copies' /\ Fifo!Next
    BY <2>1, PushBeginFifo DEF Fifo!Next
  <2>2. CASE PushCopy
    BY <2>2, PushCopyFifo
  <2>3. CASE PushPublish
    BY <2>3, PushPublishFifo DEF Fifo!Next
  <2>4. CASE AvailableToWrite
    BY <2>4, AvailableToWriteFifo
  <2> QED
    BY <1>1, <2>1, <2>2, <2>3, <2>4 DEF ProducerStep, CInv
<1>2. CASE ConsumerStep
  <2>1. ASSUME NEW count \in Counts, PopBegin(count)
        PROVE  Copies' /\ UNCHANGED Fifo!vars
    BY <2>1, PopBeginFifo
  <2>2. CASE PopCopy
    BY <2>2, PopCopyFifo
  <2>3. CASE PopPublish
    BY <2>3, PopPublishFifo DEF Fifo!Next
  <2>4. CASE AvailableToRead \/ ClearBegin
    BY <2>4, ConsumerLoadFifo
  <2>5. CASE ClearPublish
    BY <2>5, ClearPublishFifo DEF Fifo!Next
  <2> QED
    BY <1>2, <2>1, <2>2, <2>3, <2>4, <2>5 DEF ConsumerStep, CInv
<1>3. CASE UNCHANGED vars
  BY <1>3 DEF vars, CInv, Copies, Fifo!vars, Queue, Used
<1> QED
  BY <1>1, <1>2, <1>3 DEF Next

LEMMA CopiesInductive == Spec => []CInv
<1>1. Init => CInv
  BY InitIInv, InitCopies DEF CInv
<1>2. CInv /\ IInv' /\ [Next]_vars => CInv'
  BY StepFifo
<1> QED
  BY <1>1, <1>2, Inductive, PTL DEF Spec

(* Whatever the two threads interleave and however old the indexes they load, *)
(* the ring is a bounded FIFO: what push() accepts appears at once, in order   *)
(* and unharmed, pop() returns the oldest samples, clear() forgets only what   *)
(* it saw (ring_buffer.cpp:20-57, ring_buffer.h:13-16).                        *)
THEOREM BoundedQueue == Spec => ImplementsFifo
<1>1. Init => Fifo!Init
  BY InitFifo
<1>2. CInv /\ IInv' /\ [Next]_vars => [Fifo!Next]_Fifo!vars
  BY StepFifo
<1> QED
  BY <1>1, <1>2, Inductive, CopiesInductive, PTL DEF Spec, ImplementsFifo, Fifo!Spec
-----------------------------------------------------------------------------
(* push() writes "less than `count' if the buffer is full" (ring_buffer.h), as *)
(* far as its load of readIndex_ knows: it takes the whole batch, or all the   *)
(* room there was behind what it saw as unread.                                *)
TakesAllThatFits ==
  producer.pc = "copy" =>
    producer.n = Least(Len(producer.src), Capacity - Dist(producer.seen, writeIndex))

THEOREM ShortOnlyWhenFull == Spec => []TakesAllThatFits
<1>1. Init => TakesAllThatFits
  <2> SUFFICES ASSUME Init PROVE producer.pc # "copy"
    BY DEF TakesAllThatFits
  <2> QED
    BY DEF Init
<1>2. IInv /\ TakesAllThatFits /\ [Next]_vars => TakesAllThatFits'
  <2> SUFFICES ASSUME IInv, TakesAllThatFits, [Next]_vars PROVE TakesAllThatFits'
    OBVIOUS
  <2>1. ASSUME NEW src \in Batches, PushBegin(src) PROVE TakesAllThatFits'
    <3>1. PICK r \in Visible(producer.seen, readIndex) :
            producer' = [pc |-> "copy", seen |-> r, src |-> src, i |-> 0,
                         n |-> Least(Len(src), Free(writeIndex, r))]
      BY <2>1 DEF PushBegin
    <3>2. Free(writeIndex, r) = Capacity - Dist(r, writeIndex)
      BY RoomAsLoaded
    <3>3. writeIndex' = writeIndex
      BY <2>1 DEF PushBegin
    <3>4. /\ producer'.seen = r /\ producer'.src = src
          /\ producer'.n = Least(Len(src), Capacity - Dist(r, writeIndex))
      BY <3>1, <3>2
    <3> QED
      BY <3>3, <3>4 DEF TakesAllThatFits
  <2>2. CASE PushCopy
    BY <2>2 DEF PushCopy, TakesAllThatFits, IInv, TypeOK
  <2>3. CASE PushPublish \/ AvailableToWrite
    BY <2>3 DEF PushPublish, AvailableToWrite, TakesAllThatFits, IInv, TypeOK
  <2>4. CASE ConsumerStep \/ UNCHANGED vars
    BY <2>4 DEF ConsumerStep, PopBegin, PopCopy, PopPublish, AvailableToRead, ClearBegin,
                ClearPublish, vars, TakesAllThatFits
  <2> QED
    BY <2>1, <2>2, <2>3, <2>4 DEF Next, ProducerStep
<1> QED
  BY <1>1, <1>2, Inductive, PTL DEF Spec

(* The steps of its own thread that a call in progress still needs.            *)
PushSteps == IF producer.pc = "idle" THEN 0 ELSE 1 + (producer.n - producer.i)
PopSteps == IF consumer.pc = "idle" THEN 0 ELSE 1 + (consumer.n - Len(consumer.dst))

CallsAreShort ==
  /\ PushSteps \in 0 .. 1 + Capacity /\ (PushSteps = 0 <=> producer.pc = "idle")
  /\ PopSteps \in 0 .. 1 + Capacity /\ (PopSteps = 0 <=> consumer.pc = "idle")

(* Each of them is one step nearer to the end of the call, and no step of the  *)
(* other thread puts it off.                                                   *)
OwnStepsCount ==
  /\ PushSteps # 0 => IF ProducerStep THEN PushSteps' = PushSteps - 1
                                      ELSE PushSteps' = PushSteps
  /\ PopSteps # 0 => IF ConsumerStep THEN PopSteps' = PopSteps - 1
                                     ELSE PopSteps' = PopSteps

(* Neither thread waits for the other: whatever the other one does, and if it  *)
(* does nothing any more, a push() ends after at most Capacity + 1 steps of    *)
(* its own thread, and a pop() or clear() does.  That a thread goes on is what *)
(* WaitFree assumes.                                                           *)
THEOREM NobodyWaits == Spec => []CallsAreShort /\ [][OwnStepsCount]_vars
<1>1. CInv => CallsAreShort
  <2> SUFFICES ASSUME CInv PROVE CallsAreShort
    OBVIOUS
  <2>1. /\ producer.n \in 0 .. Capacity /\ producer.i \in 0 .. producer.n
        /\ consumer.n \in 0 .. Capacity /\ Len(consumer.dst) \in 0 .. consumer.n
    <3>1. Len(consumer.dst) \in Nat /\ Len(consumer.dst) =< consumer.n
      BY Types, LenProperties DEF CInv, IInv, Copies
    <3> QED
      BY <3>1, Types, IndexModPositive DEF CInv, IInv, Locals
  <2> QED
    BY <2>1, IndexModPositive DEF CallsAreShort, PushSteps, PopSteps
<1>2. CInv /\ [Next]_vars => [OwnStepsCount]_vars
  <2> SUFFICES ASSUME CInv, Next PROVE OwnStepsCount
    OBVIOUS
  <2>1. /\ producer.n \in Nat /\ producer.i \in Nat /\ consumer.n \in Nat
        /\ Len(consumer.dst) \in Nat /\ consumer.dst \in Seq(Sample)
        /\ (consumer.pc # "copy" => consumer.n = 0 /\ Len(consumer.dst) = 0)
    BY Types, LenProperties, IndexModPositive DEF CInv, IInv, Locals, Copies
  <2>2. ASSUME ProducerStep
        PROVE  consumer' = consumer /\ (PushSteps # 0 => PushSteps' = PushSteps - 1)
    <3>1. CASE PushCopy
      BY <2>1, <3>1 DEF PushCopy, PushSteps, CInv, IInv, TypeOK
    <3>2. CASE PushPublish
      BY <2>1, <3>2 DEF PushPublish, PushSteps, CInv, IInv, TypeOK
    <3>3. CASE (\E src \in Batches : PushBegin(src)) \/ AvailableToWrite
      BY <3>3 DEF PushBegin, AvailableToWrite, PushSteps
    <3> QED
      BY <2>2, <3>1, <3>2, <3>3 DEF ProducerStep
  <2>3. ASSUME ConsumerStep
        PROVE  producer' = producer /\ (PopSteps # 0 => PopSteps' = PopSteps - 1)
    <3>1. CASE PopCopy
      <4> DEFINE sample == slots[Slot(Add(readIndex, Len(consumer.dst)))]
      <4>1. consumer.pc = "copy" /\ producer' = producer
            /\ consumer' = [consumer EXCEPT !.dst = Append(consumer.dst, sample)]
        BY <3>1 DEF PopCopy
      <4> HIDE DEF sample
      <4>2. Len(Append(consumer.dst, sample)) = Len(consumer.dst) + 1
        BY <2>1
      <4>3. consumer'.pc = "copy" /\ consumer'.n = consumer.n
            /\ Len(consumer'.dst) = Len(consumer.dst) + 1
        BY <4>1, <4>2 DEF CInv, IInv, TypeOK
      <4>4. /\ PopSteps = 1 + (consumer.n - Len(consumer.dst))
            /\ PopSteps' = 1 + (consumer.n - (Len(consumer.dst) + 1))
        BY <4>1, <4>3 DEF PopSteps
      <4> QED
        BY <2>1, <4>1, <4>4
    <3>2. CASE PopPublish \/ ClearPublish
      <4>1. /\ producer' = producer /\ consumer.pc # "idle" /\ consumer'.pc = "idle"
            /\ consumer.n = Len(consumer.dst)
        BY <2>1, <3>2 DEF PopPublish, ClearPublish, CInv, IInv, TypeOK
      <4> QED
        BY <2>1, <4>1 DEF PopSteps
    <3>3. CASE (\E count \in Counts : PopBegin(count)) \/ AvailableToRead \/ ClearBegin
      BY <3>3 DEF PopBegin, AvailableToRead, ClearBegin, PopSteps
    <3> QED
      BY <2>3, <3>1, <3>2, <3>3 DEF ConsumerStep
  <2>4. ProducerStep => PopSteps' = PopSteps /\ ~(ConsumerStep /\ PopSteps # 0)
    BY <2>1, <2>2, <2>3 DEF PopSteps
  <2>5. ConsumerStep => PushSteps' = PushSteps /\ ~(ProducerStep /\ PushSteps # 0)
    BY <2>1, <2>2, <2>3 DEF PushSteps
  <2> QED
    BY <2>2, <2>3, <2>4, <2>5 DEF Next, OwnStepsCount
<1>3. Spec => []CallsAreShort
  BY <1>1, CopiesInductive, PTL
<1>4. Spec => [][OwnStepsCount]_vars
  BY <1>2, CopiesInductive, PTL DEF Spec
<1> QED
  BY <1>3, <1>4
=============================================================================
