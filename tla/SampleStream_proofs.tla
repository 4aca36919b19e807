------------------------ MODULE SampleStream_proofs ------------------------
(* Facts about the operators of SampleStream that the front ends rest on,    *)
(* about moves that keep a stream in order, and about NextPowerOfTwo.        *)
EXTENDS SampleStream, SequenceTheorems, FiniteSetTheorems, TLAPS, Integers

(* Splitting a queue yields two queues whose lengths add up.                 *)
LEMMA SplitLengths ==
  ASSUME NEW queue \in Seq(Nat), NEW n \in 0 .. Len(queue)
  PROVE  /\ First(queue, n) \in Seq(Nat)
         /\ Len(First(queue, n)) = n
         /\ Rest(queue, n) \in Seq(Nat)
         /\ Len(Rest(queue, n)) = Len(queue) - n
<1>1. First(queue, n) \in Seq(Nat) /\ Len(First(queue, n)) = n
  BY DEF First
<1>2. Rest(queue, n) \in Seq(Nat) /\ Len(Rest(queue, n)) = Len(queue) - n
  BY DEF Rest
<1> QED
  BY <1>1, <1>2

(* A block of the stream has the length it is asked for.                     *)
LEMMA BlockLength ==
  ASSUME NEW first \in Nat \ {0}, NEW n \in Nat
  PROVE  Block(first, n) \in Seq(Nat) /\ Len(Block(first, n)) = n
<1>1. \A k \in 1 .. n : first + k - 1 \in Nat
  OBVIOUS
<1> QED
  BY <1>1, IsASeq DEF Block

(* Joining two queues adds their lengths.                                    *)
LEMMA JoinLengths ==
  ASSUME NEW s \in Seq(Nat), NEW t \in Seq(Nat)
  PROVE  s \o t \in Seq(Nat) /\ Len(s \o t) = Len(s) + Len(t)
OBVIOUS

(* A ring takes all of a batch that fits, and never more than fits.          *)
LEMMA AcceptedLength ==
  ASSUME NEW ring \in Seq(Nat), NEW batch \in Seq(Nat), NEW capacity \in Nat,
         Len(ring) =< capacity
  PROVE  /\ Accepted(ring, batch, capacity) \in Seq(Nat)
         /\ Len(Accepted(ring, batch, capacity)) = Least(Len(batch), capacity - Len(ring))
         /\ Len(ring) + Len(Accepted(ring, batch, capacity)) =< capacity
         /\ Len(ring) + Len(batch) =< capacity =>
              Len(Accepted(ring, batch, capacity)) = Len(batch)
<1>1. Least(Len(batch), capacity - Len(ring)) \in 0 .. Len(batch)
  BY LenProperties DEF Least
<1>2. /\ Accepted(ring, batch, capacity) \in Seq(Nat)
      /\ Len(Accepted(ring, batch, capacity)) = Least(Len(batch), capacity - Len(ring))
  BY <1>1, SplitLengths DEF Accepted
<1> QED
  BY <1>2, LenProperties DEF Least

(* Padding fills a buffer exactly.                                           *)
LEMMA PaddedLength ==
  ASSUME NEW got \in Seq(Nat), NEW n \in Nat, Len(got) =< n
  PROVE  Padded(got, n) \in Seq(Nat) /\ Len(Padded(got, n)) = n
<1> DEFINE silence == [k \in 1 .. n - Len(got) |-> Silence]
<1>1. n - Len(got) \in Nat
  BY LenProperties
<1>2. silence \in Seq(Nat) /\ Len(silence) = n - Len(got)
  <2>1. \A k \in 1 .. n - Len(got) : Silence \in Nat
    BY DEF Silence
  <2> QED
    BY <1>1, <2>1, IsASeq
<1>3. Padded(got, n) = got \o silence
  BY DEF Padded
<1> HIDE DEF silence
<1> QED
  BY <1>2, <1>3, JoinLengths, LenProperties

(* Two queues in a row.  Under a name of its own the provers treat joining    *)
(* as a function of two queues; what it is made of matters to few lemmas.    *)
Then(s, t) == s \o t

LEMMA ThenLength ==
  ASSUME NEW s \in Seq(Nat), NEW t \in Seq(Nat)
  PROVE  Then(s, t) \in Seq(Nat) /\ Len(Then(s, t)) = Len(s) + Len(t)
BY JoinLengths DEF Then

LEMMA ThenEmpty ==
  ASSUME NEW s \in Seq(Nat)
  PROVE  Then(s, <<>>) = s /\ Then(<<>>, s) = s
BY ConcatEmptySeq DEF Then

LEMMA ThenAssociative ==
  ASSUME NEW s \in Seq(Nat), NEW t \in Seq(Nat), NEW u \in Seq(Nat)
  PROVE  Then(Then(s, t), u) = Then(s, Then(t, u))
<1>1. (s \o t) \o u = s \o (t \o u)
  BY ConcatAssociative, SMTT(30)
<1> QED
  BY <1>1 DEF Then

(* In front of the joint is the first queue, behind it the second.           *)
LEMMA SplitAtJoint ==
  ASSUME NEW s \in Seq(Nat), NEW t \in Seq(Nat)
  PROVE  First(Then(s, t), Len(s)) = s /\ Rest(Then(s, t), Len(s)) = t
<1> DEFINE q == s \o t
           a == Len(s)
           b == Len(t)
<1>1. /\ q \in Seq(Nat) /\ Len(q) = a + b /\ a \in Nat /\ b \in Nat
      /\ \A k \in 1 .. a + b : q[k] = IF k =< a THEN s[k] ELSE t[k - a]
  BY ConcatProperties, LenProperties
<1>2. \A k \in 1 .. a + b : q[k] \in Nat
  BY <1>1, ElementOfSeq
<1> HIDE DEF q
<1>3. First(q, a) = s
  <2> DEFINE f == SubSeq(q, 1, a)
  <2>1. \A k \in 1 .. a : q[k] \in Nat
    BY <1>1, <1>2
  <2>2. f \in Seq(Nat) /\ Len(f) = a /\ \A k \in 1 .. a : f[k] = q[k]
    BY <1>1, <2>1, SubSeqProperties
  <2> HIDE DEF f
  <2>3. \A k \in 1 .. a : f[k] = s[k]
    BY <1>1, <2>2
  <2>4. f = s
    BY <2>2, <2>3, SeqEqual
  <2> QED
    BY <2>4 DEF f, First
<1>4. Rest(q, a) = t
  <2> DEFINE r == SubSeq(q, a + 1, Len(q))
  <2>1. \A k \in a + 1 .. Len(q) : q[k] \in Nat
    BY <1>1, <1>2
  <2>2. /\ r \in Seq(Nat)
        /\ Len(r) = IF a + 1 =< Len(q) THEN Len(q) - (a + 1) + 1 ELSE 0
        /\ \A k \in 1 .. Len(q) - (a + 1) + 1 : r[k] = q[(a + 1) + k - 1]
    BY <1>1, <2>1, SubSeqProperties
  <2> HIDE DEF r
  <2>3. Len(r) = b
    BY <1>1, <2>2
  <2>4. \A k \in 1 .. b : r[k] = t[k]
    <3> TAKE k \in 1 .. b
    <3>1. /\ k \in 1 .. Len(q) - (a + 1) + 1 /\ (a + 1) + k - 1 = a + k
          /\ a + k \in 1 .. a + b /\ ~(a + k =< a) /\ (a + k) - a = k
      BY <1>1
    <3> QED
      BY <1>1, <2>2, <3>1
  <2>5. r = t
    BY <2>2, <2>3, <2>4, SeqEqual
  <2> QED
    BY <2>5 DEF r, Rest
<1> QED
  BY <1>3, <1>4 DEF q, Then

(* A queue is what was taken off its front, and then the rest of it.         *)
LEMMA SplitAndJoin ==
  ASSUME NEW queue \in Seq(Nat), NEW n \in 0 .. Len(queue)
  PROVE  Then(First(queue, n), Rest(queue, n)) = queue
<1>1. SubSeq(queue, 1, n) \o SubSeq(queue, n + 1, Len(queue)) = SubSeq(queue, 1, Len(queue))
  <2>1. Len(queue) \in Nat
    BY LenProperties
  <2>2. 1 \in 1 .. Len(queue) + 1 /\ n \in 1 - 1 .. Len(queue) /\ Len(queue) \in n .. Len(queue)
    BY <2>1
  <2> QED
    BY <2>2, ConcatAdjacentSubSeq
<1> QED
  BY <1>1, SubSeqFull DEF First, Rest, Then

(* Taking from the front of two queues in a row takes from the first.        *)
LEMMA SplitJoined ==
  ASSUME NEW s \in Seq(Nat), NEW t \in Seq(Nat), NEW n \in 0 .. Len(s)
  PROVE  /\ First(Then(s, t), n) = First(s, n)
         /\ Rest(Then(s, t), n) = Then(Rest(s, n), t)
<1> DEFINE f == First(s, n)
           r == Rest(s, n)
<1>1. f \in Seq(Nat) /\ Len(f) = n /\ r \in Seq(Nat) /\ Then(f, r) = s
  BY SplitLengths, SplitAndJoin
<1> HIDE DEF f, r
<1>2. Then(s, t) = Then(f, Then(r, t)) /\ Then(r, t) \in Seq(Nat)
  BY <1>1, ThenAssociative, ThenLength
<1>3. First(Then(f, Then(r, t)), n) = f /\ Rest(Then(f, Then(r, t)), n) = Then(r, t)
  BY <1>1, <1>2, SplitAtJoint
<1> QED
  BY <1>2, <1>3 DEF f, r

(* Dropping the middle of three queues in a row leaves the outer two.        *)
LEMMA DropMiddle ==
  ASSUME NEW s \in Seq(Nat), NEW t \in Seq(Nat), NEW u \in Seq(Nat)
  PROVE  Then(First(Then(s, Then(t, u)), Len(s)),
              Rest(Then(s, Then(t, u)), Len(s) + Len(t))) = Then(s, u)
<1>1. Then(t, u) \in Seq(Nat) /\ Then(s, t) \in Seq(Nat) /\ Len(Then(s, t)) = Len(s) + Len(t)
  BY ThenLength
<1>2. Then(s, Then(t, u)) = Then(Then(s, t), u)
  BY ThenAssociative
<1>3. First(Then(s, Then(t, u)), Len(s)) = s
  BY <1>1, SplitAtJoint
<1>4. Rest(Then(Then(s, t), u), Len(Then(s, t))) = u
  BY <1>1, SplitAtJoint
<1> QED
  BY <1>1, <1>2, <1>3, <1>4

(* A buffer that is already full is not padded.                              *)
LEMMA PaddedFull ==
  ASSUME NEW got \in Seq(Nat)
  PROVE  Padded(got, Len(got)) = got
<1> DEFINE silence == [k \in 1 .. Len(got) - Len(got) |-> Silence]
<1>1. Len(got) - Len(got) = 0
  BY LenProperties
<1>2. silence \in Seq(Nat) /\ Len(silence) = 0
  <2>1. \A k \in 1 .. Len(got) - Len(got) : Silence \in Nat
    BY DEF Silence
  <2>2. Len(got) - Len(got) \in Nat
    BY <1>1
  <2> QED
    BY <1>1, <2>1, <2>2, IsASeq
<1>3. Padded(got, Len(got)) = got \o silence
  BY DEF Padded
<1> HIDE DEF silence
<1>4. silence = <<>>
  BY <1>2
<1> QED
  BY <1>3, <1>4, ConcatEmptySeq

(* Where the samples of the two parts of a queue were.                       *)
LEMMA SplitElements ==
  ASSUME NEW queue \in Seq(Nat), NEW n \in 0 .. Len(queue)
  PROVE  /\ \A k \in 1 .. n : First(queue, n)[k] = queue[k]
         /\ \A k \in 1 .. Len(queue) - n : Rest(queue, n)[k] = queue[n + k]
<1>1. n \in Nat /\ Len(queue) \in Nat /\ \A k \in 1 .. Len(queue) : queue[k] \in Nat
  BY LenProperties, ElementOfSeq
<1>2. \A k \in 1 .. n : SubSeq(queue, 1, n)[k] = queue[k]
  BY <1>1, SubSeqProperties
<1>3. \A k \in 1 .. Len(queue) - n : SubSeq(queue, n + 1, Len(queue))[k] = queue[n + k]
  BY <1>1, SubSeqProperties
<1> QED
  BY <1>2, <1>3 DEF First, Rest

LEMMA JoinElements ==
  ASSUME NEW s \in Seq(Nat), NEW t \in Seq(Nat)
  PROVE  /\ \A k \in 1 .. Len(s) : (s \o t)[k] = s[k]
         /\ \A k \in 1 .. Len(t) : (s \o t)[Len(s) + k] = t[k]
OBVIOUS

LEMMA BlockElements ==
  ASSUME NEW first \in Nat \ {0}, NEW n \in Nat
  PROVE  \A k \in 1 .. n : Block(first, n)[k] = first + k - 1
BY DEF Block

LEMMA PaddedElements ==
  ASSUME NEW got \in Seq(Nat), NEW n \in Nat, Len(got) =< n
  PROVE  \A k \in 1 .. n : Padded(got, n)[k] = IF k =< Len(got) THEN got[k] ELSE Silence
BY DEF Padded

(* Cutting a block of the stream leaves two, and blocks that follow each      *)
(* other make one.                                                            *)
LEMMA SplitBlock ==
  ASSUME NEW first \in Nat \ {0}, NEW n \in Nat, NEW m \in 0 .. n
  PROVE  /\ First(Block(first, n), m) = Block(first, m)
         /\ Rest(Block(first, n), m) = Block(first + m, n - m)
<1> DEFINE b == Block(first, n)
<1>1. b \in Seq(Nat) /\ Len(b) = n /\ m \in 0 .. Len(b)
  BY BlockLength
<1>2. /\ First(b, m) \in Seq(Nat) /\ Len(First(b, m)) = m
      /\ Rest(b, m) \in Seq(Nat) /\ Len(Rest(b, m)) = n - m
  BY <1>1, SplitLengths
<1>3. /\ \A k \in 1 .. m : First(b, m)[k] = b[k]
      /\ \A k \in 1 .. n - m : Rest(b, m)[k] = b[m + k]
  BY <1>1, SplitElements
<1>4. \A k \in 1 .. n : b[k] = first + k - 1
  BY BlockElements
<1> HIDE DEF b
<1>5. First(b, m) = Block(first, m)
  <2> DEFINE c == Block(first, m)
  <2>1. c \in Seq(Nat) /\ Len(c) = m /\ \A k \in 1 .. m : c[k] = first + k - 1
    BY BlockLength, BlockElements
  <2> HIDE DEF c
  <2>2. \A k \in 1 .. m : First(b, m)[k] = c[k]
    BY <1>3, <1>4, <2>1
  <2> QED
    BY <1>2, <2>1, <2>2, SeqEqual DEF c
<1>6. Rest(b, m) = Block(first + m, n - m)
  <2> DEFINE c == Block(first + m, n - m)
  <2>0. first + m \in Nat \ {0} /\ n - m \in Nat
    OBVIOUS
  <2>1. c \in Seq(Nat) /\ Len(c) = n - m /\ \A k \in 1 .. n - m : c[k] = (first + m) + k - 1
    BY <2>0, BlockLength, BlockElements
  <2> HIDE DEF c
  <2>2. \A k \in 1 .. n - m : Rest(b, m)[k] = c[k]
    <3> TAKE k \in 1 .. n - m
    <3>1. m + k \in 1 .. n
      OBVIOUS
    <3> QED
      BY <1>3, <1>4, <2>1, <3>1
  <2> QED
    BY <1>2, <2>1, <2>2, SeqEqual DEF c
<1> QED
  BY <1>5, <1>6 DEF b

LEMMA JoinBlocks ==
  ASSUME NEW first \in Nat \ {0}, NEW n \in Nat, NEW m \in Nat
  PROVE  Block(first, n) \o Block(first + n, m) = Block(first, n + m)
<1> DEFINE b == Block(first, n)
           c == Block(first + n, m)
           d == Block(first, n + m)
<1>1. /\ b \in Seq(Nat) /\ Len(b) = n /\ \A k \in 1 .. n : b[k] = first + k - 1
      /\ c \in Seq(Nat) /\ Len(c) = m /\ \A k \in 1 .. m : c[k] = (first + n) + k - 1
      /\ d \in Seq(Nat) /\ Len(d) = n + m /\ \A k \in 1 .. n + m : d[k] = first + k - 1
  <2>0. first + n \in Nat \ {0} /\ n + m \in Nat
    OBVIOUS
  <2>1. b \in Seq(Nat) /\ Len(b) = n /\ \A k \in 1 .. n : b[k] = first + k - 1
    BY BlockLength, BlockElements
  <2>2. c \in Seq(Nat) /\ Len(c) = m /\ \A k \in 1 .. m : c[k] = (first + n) + k - 1
    BY <2>0, BlockLength, BlockElements
  <2>3. d \in Seq(Nat) /\ Len(d) = n + m /\ \A k \in 1 .. n + m : d[k] = first + k - 1
    BY <2>0, BlockLength, BlockElements
  <2> QED
    BY <2>1, <2>2, <2>3
<1> HIDE DEF b, c, d
<1>2. /\ b \o c \in Seq(Nat) /\ Len(b \o c) = n + m
      /\ \A k \in 1 .. n : (b \o c)[k] = b[k]
      /\ \A k \in 1 .. m : (b \o c)[n + k] = c[k]
  BY <1>1, JoinLengths, JoinElements
<1>3. \A k \in 1 .. n + m : (b \o c)[k] = d[k]
  <2> TAKE k \in 1 .. n + m
  <2>1. CASE k =< n
    BY <1>1, <1>2, <2>1
  <2>2. CASE ~(k =< n)
    <3>1. k - n \in 1 .. m /\ n + (k - n) = k
      BY <2>2
    <3>2. (b \o c)[n + (k - n)] = c[k - n]
      BY <1>2, <3>1
    <3>3. c[k - n] = (first + n) + (k - n) - 1
      BY <1>1, <3>1
    <3>4. (first + n) + (k - n) - 1 = first + k - 1
      OBVIOUS
    <3>5. d[k] = first + k - 1
      BY <1>1
    <3> QED
      BY <3>1, <3>2, <3>3, <3>4, <3>5
  <2> QED
    BY <2>1, <2>2
<1>4. b \o c = d
  BY <1>1, <1>2, <1>3, SeqEqual
<1> QED
  BY <1>4 DEF b, c, d
-----------------------------------------------------------------------------
(* Multiples of a number lie further apart the more of them there are.        *)
LEMMA Later ==
  ASSUME NEW j \in Nat, NEW k \in Nat, NEW hop \in Nat
  PROVE  /\ j * hop \in Nat
         /\ (j + 1) * hop = j * hop + hop
         /\ j =< k => j * hop =< k * hop
<1>1. j * hop \in Nat /\ (j + 1) * hop = j * hop + hop
  OBVIOUS
<1>2. ASSUME j =< k PROVE j * hop =< k * hop
  <2>1. PICK d \in Nat : k = j + d
    BY <1>2
  <2>2. k * hop = j * hop + d * hop /\ d * hop \in Nat
    BY <2>1
  <2> QED
    BY <1>1, <2>2
<1> QED
  BY <1>1, <1>2

LEMMA Quotient ==
  ASSUME NEW a \in Nat, NEW d \in Nat \ {0}
  PROVE  /\ a \div d \in Nat /\ a % d \in Nat
         /\ a = (a \div d) * d + (a % d)
         /\ a % d < d
OBVIOUS

LEMMA QuotientUnique ==
  ASSUME NEW d \in Nat \ {0}, NEW q \in Nat, NEW r \in Nat, NEW a \in Nat,
         r < d, a = q * d + r
  PROVE  a \div d = q /\ a % d = r
<1> DEFINE p == a \div d
           s == a % d
<1>1. p \in Nat /\ s \in Nat /\ a = p * d + s /\ s < d
  BY Quotient
<1> HIDE DEF p, s
<1>2. ~(p < q)
  <2> SUFFICES ASSUME p < q PROVE FALSE
    OBVIOUS
  <2>1. p + 1 =< q /\ p + 1 \in Nat
    BY <1>1
  <2>2. (p + 1) * d =< q * d /\ (p + 1) * d = p * d + d /\ p * d \in Nat /\ q * d \in Nat
    BY <1>1, <2>1, Later
  <2> QED
    BY <1>1, <2>2
<1>3. ~(q < p)
  <2> SUFFICES ASSUME q < p PROVE FALSE
    OBVIOUS
  <2>1. q + 1 =< p /\ q + 1 \in Nat
    BY <1>1
  <2>2. (q + 1) * d =< p * d /\ (q + 1) * d = q * d + d /\ p * d \in Nat /\ q * d \in Nat
    BY <1>1, <2>1, Later
  <2> QED
    BY <1>1, <2>2
<1>4. p = q
  BY <1>1, <1>2, <1>3
<1>5. s = r
  <2>1. q * d \in Nat
    BY Later
  <2> QED
    BY <1>1, <1>4, <2>1
<1> QED
  BY <1>4, <1>5 DEF p, s

(* A position moved by a whole number of samples.                             *)
LEMMA QuotientShift ==
  ASSUME NEW d \in Nat \ {0}, NEW b \in Nat, NEW a \in Nat
  PROVE  /\ (b * d + a) \div d = b + (a \div d)
         /\ (b * d + a) % d = a % d
<1> DEFINE q == a \div d
           r == a % d
           c == b * d + a
<1>1. q \in Nat /\ r \in Nat /\ a = q * d + r /\ r < d
  BY Quotient
<1> HIDE DEF q, r
<1>2. (b + q) * d = b * d + q * d /\ b * d \in Nat /\ q * d \in Nat
  BY <1>1
<1>3. c = (b + q) * d + r /\ c \in Nat /\ b + q \in Nat
  BY <1>1, <1>2
<1> HIDE DEF c
<1>4. c \div d = b + q /\ c % d = r
  BY <1>1, <1>3, QuotientUnique
<1> QED
  BY <1>4 DEF c, q, r

LEMMA QuotientBelow ==
  ASSUME NEW d \in Nat \ {0}, NEW a \in Nat, NEW n \in Nat
  PROVE  a \div d < n <=> a < n * d
<1> DEFINE q == a \div d
           r == a % d
<1>1. q \in Nat /\ r \in Nat /\ a = q * d + r /\ r < d
  BY Quotient
<1> HIDE DEF q, r
<1>2. q * d \in Nat /\ n * d \in Nat /\ (q + 1) * d = q * d + d
  BY <1>1
<1>3. ASSUME q < n PROVE a < n * d
  <2>1. q + 1 \in Nat /\ q + 1 =< n
    BY <1>1, <1>3
  <2>2. (q + 1) * d =< n * d
    BY <2>1, Later
  <2> QED
    BY <1>1, <1>2, <2>2
<1>4. ASSUME ~(q < n) PROVE ~(a < n * d)
  <2>1. n =< q
    BY <1>1, <1>4
  <2>2. n * d =< q * d
    BY <1>1, <2>1, Later
  <2> QED
    BY <1>1, <1>2, <2>2
<1> QED
  BY <1>3, <1>4 DEF q

(* How many multiples of a number lie below a bound.                          *)
LEMMA MultiplesBelow ==
  ASSUME NEW d \in Nat \ {0}, NEW bound \in Int
  PROVE  \E t \in Nat : /\ t = 0 \/ t - 1 < bound
                        /\ \A k \in Nat : k * d < bound <=> k < t
<1>1. CASE bound =< 0
  <2>1. \A k \in Nat : k * d \in Nat
    BY Later
  <2> WITNESS 0 \in Nat
  <2> QED
    BY <1>1, <2>1
<1>2. CASE bound > 0
  <2> DEFINE a == bound + d - 1
             t == a \div d
             r == a % d
  <2>1. a \in Nat
    BY <1>2
  <2>2. t \in Nat /\ r \in Nat /\ a = t * d + r /\ r < d
    BY <2>1, Quotient
  <2>3. t * d \in Nat /\ bound + d - 1 = t * d + r
    BY <2>2
  <2> HIDE DEF a, t, r
  <2>4. ASSUME NEW k \in Nat, k < t PROVE k * d < bound /\ k < bound
    <3>1. k + 1 \in Nat /\ k + 1 =< t
      BY <2>2, <2>4
    <3>2. (k + 1) * d =< t * d /\ (k + 1) * d = k * d + d /\ k * d \in Nat
      BY <2>2, <3>1, Later
    <3>3. k * d < bound
      BY <2>2, <2>3, <3>2
    <3>4. k =< k * d
      <4>1. PICK e \in Nat : d = e + 1
        OBVIOUS
      <4>2. k * d = k * e + k /\ k * e \in Nat
        BY <4>1
      <4> QED
        BY <4>2
    <3> QED
      BY <3>2, <3>3, <3>4
  <2>5. ASSUME NEW k \in Nat, ~(k < t) PROVE ~(k * d < bound)
    <3>1. t * d =< k * d /\ k * d \in Nat
      BY <2>2, <2>5, Later
    <3> QED
      BY <2>2, <2>3, <3>1
  <2>6. t = 0 \/ t - 1 < bound
    <3>1. t # 0 => t - 1 \in Nat /\ t - 1 < t
      BY <2>2
    <3> QED
      BY <2>4, <3>1
  <2> QED
    BY <2>2, <2>4, <2>5, <2>6
<1> QED
  BY <1>1, <1>2

(* The read positions below the last sample of a buffer are a run from the    *)
(* first on, and the bound of the set leaves none out.                        *)
LEMMA TurnsAre ==
  ASSUME NEW in \in Nat \ {0}, NEW out \in Nat \ {0}, NEW start \in Nat, NEW size \in Nat \ {0}
  PROVE  \E t \in Nat :
           /\ Cardinality({k \in 0 .. size * out : (start + k * in) \div out + 1 < size}) = t
           /\ \A k \in Nat : (start + k * in) \div out + 1 < size <=> k < t
<1> DEFINE Inside(k) == (start + k * in) \div out + 1 < size
           bound == (size - 1) * out - start
<1>1. size - 1 \in Nat /\ (size - 1) * out \in Nat /\ size * out \in Nat /\ bound \in Int
      /\ bound =< size * out
  <2>1. size - 1 \in Nat
    OBVIOUS
  <2>2. (size - 1) * out \in Nat /\ ((size - 1) + 1) * out = (size - 1) * out + out
    BY <2>1, Later
  <2>3. (size - 1) + 1 = size
    OBVIOUS
  <2> QED
    BY <2>1, <2>2, <2>3
<1>2. ASSUME NEW k \in Nat PROVE Inside(k) <=> k * in < bound
  <2> DEFINE a == start + k * in
             q == a \div out
             lim == (size - 1) * out
  <2>1. k * in \in Nat /\ a \in Nat
    BY Later
  <2>2. q \in Nat
    BY <2>1, Quotient
  <2>3. q < size - 1 <=> a < lim
    BY <1>1, <2>1, QuotientBelow
  <2>4. a < lim <=> k * in < lim - start
    <3> HIDE DEF lim
    <3> DEFINE m == k * in
    <3>1. m \in Nat /\ lim \in Nat /\ a = start + m
      BY <1>1, <2>1 DEF lim
    <3> HIDE DEF m, a
    <3> QED
      BY <3>1 DEF m, a
  <2> HIDE DEF q, lim
  <2>5. q + 1 < size <=> q < size - 1
    BY <2>2
  <2> QED
    BY <2>3, <2>4, <2>5 DEF q, lim
<1> HIDE DEF Inside, bound
<1>3. PICK t \in Nat : /\ t = 0 \/ t - 1 < bound
                       /\ \A k \in Nat : k * in < bound <=> k < t
  BY <1>1, MultiplesBelow
<1>4. \A k \in Nat : Inside(k) <=> k < t
  BY <1>2, <1>3
<1> DEFINE M == size * out
<1>5. M \in Nat /\ (t = 0 \/ t - 1 < M)
  BY <1>1, <1>3
<1> HIDE DEF M
<1>6. {k \in 0 .. M : Inside(k)} = 0 .. t - 1
  BY <1>4, <1>5
<1>7. Cardinality(0 .. t - 1) = t
  <2>1. Cardinality(0 .. t - 1) = IF 0 > t - 1 THEN 0 ELSE (t - 1) - 0 + 1
    BY FS_Interval
  <2> QED
    BY <2>1
<1>8. Cardinality({k \in 0 .. M : Inside(k)}) = t
  BY <1>6, <1>7
<1> QED
  BY <1>4, <1>8 DEF Inside, M
-----------------------------------------------------------------------------
(* InOrder of DelayedStream, of a stream q of which c samples were captured   *)
(* and h heard last; it is kept when a block is captured, when one is heard,  *)
(* and when a part of the stream is lost.  The refinements use this for what  *)
(* they call the three.                                                       *)
PastIn(p, c, q) == p =< c /\ \A k \in DOMAIN q : p < q[k]

Ordered(c, q) ==
  /\ \A k \in DOMAIN q : q[k] \in 1 .. c
  /\ \A j, k \in DOMAIN q : j < k => q[j] < q[k]

HeardOf(c, q, h) ==
  /\ \A j, k \in DOMAIN h : j < k /\ h[k] # Silence => h[j] # Silence /\ h[j] < h[k]
  /\ \A k \in DOMAIN h : PastIn(h[k], c, q)

Subsequence(s, q) ==
  \E f \in [DOMAIN s -> DOMAIN q] :
    /\ \A k \in DOMAIN s : s[k] = q[f[k]]
    /\ \A j, k \in DOMAIN s : j < k => f[j] < f[k]

LEMMA SubsequenceOrdered ==
  ASSUME NEW c \in Nat, NEW q \in Seq(Nat), NEW s \in Seq(Nat), Ordered(c, q), Subsequence(s, q)
  PROVE  /\ Ordered(c, s)
         /\ \A p \in Nat : PastIn(p, c, q) => PastIn(p, c, s)
<1>1. PICK f \in [DOMAIN s -> DOMAIN q] :
        /\ \A k \in DOMAIN s : s[k] = q[f[k]]
        /\ \A j, k \in DOMAIN s : j < k => f[j] < f[k]
  BY DEF Subsequence
<1>2. \A k \in DOMAIN s : f[k] \in DOMAIN q
  OBVIOUS
<1> QED
  BY <1>1, <1>2 DEF Ordered, PastIn

LEMMA CapturedInOrder ==
  ASSUME NEW c \in Nat, NEW q \in Seq(Nat), NEW n \in Nat, Ordered(c, q)
  PROVE  /\ Ordered(c + n, q \o Block(c + 1, n))
         /\ \A p \in Nat : PastIn(p, c, q) => PastIn(p, c + n, q \o Block(c + 1, n))
<1> DEFINE b == Block(c + 1, n)
           t == q \o b
           a == Len(q)
<1>1. a \in Nat /\ DOMAIN q = 1 .. a /\ \A k \in 1 .. a : q[k] \in Nat
  BY LenProperties, ElementOfSeq
<1>2. /\ b \in Seq(Nat) /\ Len(b) = n /\ \A k \in 1 .. n : b[k] = c + k
  <2>1. c + 1 \in Nat \ {0}
    OBVIOUS
  <2>2. b \in Seq(Nat) /\ Len(b) = n
    BY <2>1, BlockLength
  <2>3. \A k \in 1 .. n : b[k] = (c + 1) + k - 1
    BY <2>1, BlockElements
  <2>4. \A k \in 1 .. n : (c + 1) + k - 1 = c + k
    OBVIOUS
  <2> QED
    BY <2>2, <2>3, <2>4
<1> HIDE DEF b
<1>3. /\ DOMAIN t = 1 .. a + n
      /\ \A k \in 1 .. a + n : t[k] = IF k =< a THEN q[k] ELSE b[k - a]
  <2>1. t \in Seq(Nat) /\ Len(t) = a + n
    BY <1>2, JoinLengths
  <2>2. \A k \in 1 .. a + n : t[k] = IF k =< a THEN q[k] ELSE b[k - a]
    BY <1>1, <1>2, ConcatProperties
  <2> QED
    BY <2>1, <2>2, LenProperties
<1> HIDE DEF t, a
<1>4. \A k \in 1 .. a + n : t[k] = IF k =< a THEN q[k] ELSE c + (k - a)
  <2> TAKE k \in 1 .. a + n
  <2>1. ~(k =< a) => k - a \in 1 .. n
    BY <1>1
  <2> QED
    BY <1>2, <1>3, <2>1
<1>5. /\ \A k \in 1 .. a : q[k] \in 1 .. c
      /\ \A j, k \in 1 .. a : j < k => q[j] < q[k]
  BY <1>1 DEF Ordered
<1>6. Ordered(c + n, t)
  <2>1. \A k \in 1 .. a + n : t[k] \in 1 .. c + n
    BY <1>1, <1>4, <1>5
  <2>2. \A j, k \in 1 .. a + n : j < k => t[j] < t[k]
    BY <1>1, <1>4, <1>5
  <2> QED
    BY <1>3, <2>1, <2>2 DEF Ordered
<1>7. ASSUME NEW p \in Nat, PastIn(p, c, q) PROVE PastIn(p, c + n, t)
  <2>1. p =< c /\ \A k \in 1 .. a : p < q[k]
    BY <1>1, <1>7 DEF PastIn
  <2>2. \A k \in 1 .. a + n : p < t[k]
    BY <1>1, <1>4, <2>1
  <2> QED
    BY <1>3, <2>1, <2>2 DEF PastIn
<1> QED
  BY <1>6, <1>7 DEF t, b

LEMMA LostInOrder ==
  ASSUME NEW q \in Seq(Nat), NEW n \in 1 .. Len(q), NEW k \in 0 .. Len(q) - n
  PROVE  /\ First(q, k) \o Rest(q, k + n) \in Seq(Nat)
         /\ Subsequence(First(q, k) \o Rest(q, k + n), q)
<1> DEFINE a == Len(q)
           f == First(q, k)
           r == Rest(q, k + n)
           t == f \o r
<1>1. a \in Nat /\ n \in Nat /\ k \in Nat /\ n >= 1 /\ k + n =< a /\ DOMAIN q = 1 .. a
  BY LenProperties
<1>2. k \in 0 .. a /\ k + n \in 0 .. a
  BY <1>1
<1>3. /\ f \in Seq(Nat) /\ Len(f) = k /\ r \in Seq(Nat) /\ Len(r) = a - (k + n)
      /\ \A i \in 1 .. k : f[i] = q[i]
      /\ \A i \in 1 .. a - (k + n) : r[i] = q[(k + n) + i]
  BY <1>2, SplitLengths, SplitElements
<1> HIDE DEF f, r
<1>4. t \in Seq(Nat) /\ Len(t) = a - n
  <2>1. t \in Seq(Nat) /\ Len(t) = k + (a - (k + n))
    BY <1>3, JoinLengths
  <2> HIDE DEF a, t
  <2>2. k + (a - (k + n)) = a - n
    BY <1>1
  <2> QED
    BY <2>1, <2>2
<1>5. \A i \in 1 .. a - n : t[i] = IF i =< k THEN f[i] ELSE r[i - k]
  BY <1>1, <1>3, ConcatProperties
<1> HIDE DEF t, a
<1> DEFINE g == [i \in 1 .. a - n |-> IF i =< k THEN i ELSE i + n]
<1>6. /\ DOMAIN t = 1 .. a - n
      /\ g \in [DOMAIN t -> DOMAIN q]
  BY <1>1, <1>4, LenProperties
<1>7. \A i \in 1 .. a - n : t[i] = q[g[i]]
  <2> TAKE i \in 1 .. a - n
  <2>1. CASE i =< k
    <3>1. i \in 1 .. k /\ g[i] = i
      BY <2>1
    <3> QED
      BY <1>3, <1>5, <2>1, <3>1
  <2>2. CASE ~(i =< k)
    <3>1. i - k \in 1 .. a - (k + n) /\ g[i] = i + n /\ (k + n) + (i - k) = i + n
      BY <1>1, <2>2
    <3> QED
      BY <1>3, <1>5, <2>2, <3>1
  <2> QED
    BY <2>1, <2>2
<1>8. \A i, j \in 1 .. a - n : i < j => g[i] < g[j]
  BY <1>1
<1> HIDE DEF g
<1>9. Subsequence(t, q)
  BY <1>6, <1>7, <1>8 DEF Subsequence
<1> QED
  BY <1>4, <1>9 DEF t, f, r

LEMMA HeardInOrder ==
  ASSUME NEW c \in Nat, NEW q \in Seq(Nat), NEW n \in Nat, NEW k \in 0 .. Len(q), k =< n,
         Ordered(c, q)
  PROVE  /\ Subsequence(Rest(q, k), q)
         /\ HeardOf(c, Rest(q, k), Padded(First(q, k), n))
         /\ \A i \in DOMAIN Padded(First(q, k), n) :
              \/ Padded(First(q, k), n)[i] = Silence
              \/ \E j \in DOMAIN q : Padded(First(q, k), n)[i] = q[j]
<1> DEFINE a == Len(q)
           f == First(q, k)
           r == Rest(q, k)
           h == Padded(f, n)
<1>1. a \in Nat /\ k \in Nat /\ k =< a /\ DOMAIN q = 1 .. a
  BY LenProperties
<1>2. /\ f \in Seq(Nat) /\ Len(f) = k /\ r \in Seq(Nat) /\ Len(r) = a - k
      /\ \A i \in 1 .. k : f[i] = q[i]
      /\ \A i \in 1 .. a - k : r[i] = q[k + i]
  BY <1>1, SplitLengths, SplitElements
<1> HIDE DEF f, r
<1>3. /\ h \in Seq(Nat) /\ Len(h) = n
      /\ \A i \in 1 .. n : h[i] = IF i =< k THEN q[i] ELSE Silence
  <2>1. h \in Seq(Nat) /\ Len(h) = n
    BY <1>2, PaddedLength
  <2>2. \A i \in 1 .. n : h[i] = IF i =< Len(f) THEN f[i] ELSE Silence
    BY <1>2, PaddedElements
  <2> HIDE DEF h
  <2>3. \A i \in 1 .. n : i =< k => i \in 1 .. k
    BY <1>1
  <2> QED
    BY <1>2, <2>1, <2>2, <2>3
<1> HIDE DEF h, a
<1>4. DOMAIN h = 1 .. n /\ DOMAIN r = 1 .. a - k
  BY <1>1, <1>2, <1>3, LenProperties
<1>5. /\ \A i \in 1 .. a : q[i] \in 1 .. c
      /\ \A i, j \in 1 .. a : i < j => q[i] < q[j]
  BY <1>1 DEF Ordered
<1>6. Subsequence(r, q)
  <2> DEFINE g == [i \in 1 .. a - k |-> k + i]
  <2>1. g \in [DOMAIN r -> DOMAIN q]
    BY <1>1, <1>4
  <2>2. \A i \in DOMAIN r : r[i] = q[g[i]]
    BY <1>2, <1>4
  <2>3. \A i, j \in DOMAIN r : i < j => g[i] < g[j]
    BY <1>1, <1>4
  <2> HIDE DEF g
  <2> QED
    BY <2>1, <2>2, <2>3 DEF Subsequence
<1>7. \A i \in 1 .. n : h[i] = Silence \/ (i \in 1 .. a /\ i =< k /\ h[i] = q[i])
  BY <1>1, <1>3
<1>8. \A i \in 1 .. n : PastIn(h[i], c, r)
  <2> TAKE i \in 1 .. n
  <2>1. CASE h[i] = Silence
    <3>1. \A j \in 1 .. a - k : r[j] \in 1 .. c
      <4> TAKE j \in 1 .. a - k
      <4>1. k + j \in 1 .. a
        BY <1>1
      <4> QED
        BY <1>2, <1>5, <4>1
    <3>2. \A j \in 1 .. a - k : 0 < r[j]
      BY <3>1
    <3> QED
      BY <1>4, <2>1, <3>2 DEF PastIn, Silence
  <2>2. CASE i \in 1 .. a /\ i =< k /\ h[i] = q[i]
    <3>1. q[i] =< c
      BY <1>5, <2>2
    <3>2. \A j \in 1 .. a - k : q[i] < r[j]
      <4> TAKE j \in 1 .. a - k
      <4>1. k + j \in 1 .. a /\ i < k + j
        BY <1>1, <2>2
      <4> QED
        BY <1>2, <1>5, <2>2, <4>1
    <3> QED
      BY <1>4, <2>2, <3>1, <3>2 DEF PastIn
  <2> QED
    BY <1>7, <2>1, <2>2
<1>9. \A i, j \in 1 .. n : i < j /\ h[j] # Silence => h[i] # Silence /\ h[i] < h[j]
  <2> SUFFICES ASSUME NEW i \in 1 .. n, NEW j \in 1 .. n, i < j, h[j] # Silence
               PROVE  h[i] # Silence /\ h[i] < h[j]
    OBVIOUS
  <2>1. j \in 1 .. a /\ j =< k /\ h[j] = q[j]
    BY <1>7
  <2>2. i \in 1 .. a /\ i =< k /\ h[i] = q[i]
    BY <1>1, <1>3, <2>1
  <2> QED
    BY <1>5, <2>1, <2>2 DEF Silence
<1> QED
  BY <1>1, <1>4, <1>6, <1>7, <1>8, <1>9 DEF HeardOf, h, f, r

(* What a step of DelayedStream does to the stream: a block is captured, one  *)
(* is heard, or a part is lost.                                               *)
Moves(c, q, h, nextC, nextQ, nextH) ==
  \/ \E n \in Nat : nextC = c + n /\ nextQ = q \o Block(c + 1, n) /\ nextH = h
  \/ \E n \in Nat : \E k \in 0 .. Least(n, Len(q)) :
       nextC = c /\ nextQ = Rest(q, k) /\ nextH = Padded(First(q, k), n)
  \/ \E n \in 1 .. Len(q) : \E k \in 0 .. Len(q) - n :
       nextC = c /\ nextQ = First(q, k) \o Rest(q, k + n) /\ nextH = h
  \/ nextC = c /\ nextQ = q /\ nextH = h

LEMMA MovesInOrder ==
  ASSUME NEW c \in Nat, NEW q \in Seq(Nat), NEW h \in Seq(Nat),
         NEW nextC, NEW nextQ, NEW nextH, Moves(c, q, h, nextC, nextQ, nextH),
         Ordered(c, q), HeardOf(c, q, h)
  PROVE  /\ Ordered(nextC, nextQ) /\ HeardOf(nextC, nextQ, nextH)
         /\ \A p \in Nat : PastIn(p, c, q) => PastIn(p, nextC, nextQ)
         /\ \/ nextH = h
            \/ \A i \in DOMAIN nextH :
                 nextH[i] = Silence \/ \E j \in DOMAIN q : nextH[i] = q[j]
<1>1. \A i \in DOMAIN h : h[i] \in Nat
  BY ElementOfSeq, LenProperties
<1>2. ASSUME nextH = h, \A p \in Nat : PastIn(p, c, q) => PastIn(p, nextC, nextQ)
      PROVE  HeardOf(nextC, nextQ, nextH)
  BY <1>1, <1>2 DEF HeardOf
<1>3. CASE \E n \in Nat : nextC = c + n /\ nextQ = q \o Block(c + 1, n) /\ nextH = h
  <2>1. Ordered(nextC, nextQ) /\ \A p \in Nat : PastIn(p, c, q) => PastIn(p, nextC, nextQ)
    BY <1>3, CapturedInOrder
  <2> QED
    BY <1>2, <1>3, <2>1
<1>4. CASE \E n \in Nat : \E k \in 0 .. Least(n, Len(q)) :
             nextC = c /\ nextQ = Rest(q, k) /\ nextH = Padded(First(q, k), n)
  <2>1. PICK n \in Nat : \E k \in 0 .. Least(n, Len(q)) :
          nextC = c /\ nextQ = Rest(q, k) /\ nextH = Padded(First(q, k), n)
    BY <1>4
  <2>2. PICK k \in 0 .. Least(n, Len(q)) :
          nextC = c /\ nextQ = Rest(q, k) /\ nextH = Padded(First(q, k), n)
    BY <2>1
  <2>3. k \in 0 .. Len(q) /\ k =< n
    <3>1. Len(q) \in Nat
      BY LenProperties
    <3> QED
      BY <3>1 DEF Least
  <2>4. /\ Subsequence(nextQ, q)
        /\ HeardOf(nextC, nextQ, nextH)
        /\ \A i \in DOMAIN nextH :
             nextH[i] = Silence \/ \E j \in DOMAIN q : nextH[i] = q[j]
    BY <2>2, <2>3, HeardInOrder
  <2>5. nextQ \in Seq(Nat)
    BY <2>2, <2>3, SplitLengths
  <2> QED
    BY <2>2, <2>4, <2>5, SubsequenceOrdered
<1>5. CASE \E n \in 1 .. Len(q) : \E k \in 0 .. Len(q) - n :
             nextC = c /\ nextQ = First(q, k) \o Rest(q, k + n) /\ nextH = h
  <2>1. nextQ \in Seq(Nat) /\ Subsequence(nextQ, q) /\ nextC = c /\ nextH = h
    BY <1>5, LostInOrder
  <2>2. Ordered(nextC, nextQ) /\ \A p \in Nat : PastIn(p, c, q) => PastIn(p, nextC, nextQ)
    BY <2>1, SubsequenceOrdered
  <2> QED
    BY <1>2, <2>1, <2>2
<1>6. CASE nextC = c /\ nextQ = q /\ nextH = h
  BY <1>6
<1> QED
  BY <1>3, <1>4, <1>5, <1>6 DEF Moves

-----------------------------------------------------------------------------
(* A set of natural numbers has a least element.  Induction over numbers is   *)
(* cited in this form, with a set in place of a predicate: a library theorem  *)
(* that is parameterised by a predicate is one the provers cannot apply.  It  *)
(* rests on the fact that finite sets are well-founded under strict inclusion.*)
LEMMA LeastElement ==
  ASSUME NEW S \in SUBSET Nat, S # {}
  PROVE  \E m \in S : \A k \in S : m =< k
<1> DEFINE Below(k) == 0 .. k - 1
           R == StrictSubsetOrdering(Nat)
           T == {Below(k) : k \in S}
<1>1. IsWellFoundedOn(R, FiniteSubsetsOf(Nat))
  BY FS_StrictSubsetOrderingWellFounded
<1>2. T \subseteq FiniteSubsetsOf(Nat) /\ T # {}
  <2>1. \A k \in S : Below(k) \in SUBSET Nat /\ IsFiniteSet(Below(k))
    BY FS_Interval
  <2> QED
    BY <2>1 DEF FiniteSubsetsOf
<1>3. PICK x \in T : \A y \in T : <<y, x>> \notin R
  <2> HIDE DEF R, T
  <2> QED
    BY <1>1, <1>2, WFMin
<1>4. PICK m \in S : x = Below(m)
  OBVIOUS
<1>5. ASSUME NEW k \in S, k < m PROVE FALSE
  <2>1. /\ Below(k) \in SUBSET Nat /\ Below(m) \in SUBSET Nat /\ Below(k) \subseteq Below(m)
        /\ k \in Below(m) /\ k \notin Below(k)
    BY <1>5
  <2>2. Below(k) # Below(m)
    BY <2>1
  <2> HIDE DEF Below
  <2>3. <<Below(k), Below(m)>> \in R
    BY <2>1, <2>2 DEF StrictSubsetOrdering
  <2> QED
    BY <2>3, <1>3, <1>4
<1> QED
  BY <1>5

(* The numbers one gets from p by doubling: they are in every set that has p  *)
(* and is closed under it.                                                    *)
Doubles(S) == \A k \in S : 2 * k \in S
Doublings(p) == {m \in Nat : \A S \in SUBSET Nat : p \in S /\ Doubles(S) => m \in S}
PowersOfTwo == Doublings(1)

LEMMA DoublingsOf ==
  ASSUME NEW p \in Nat
  PROVE  /\ p \in Doublings(p) /\ Doublings(p) \in SUBSET Nat
         /\ \A m \in Doublings(p) : m >= p /\ 2 * m \in Doublings(p)
         /\ Doublings(p) = {p} \union Doublings(2 * p)
<1>1. p \in Doublings(p) /\ Doublings(p) \in SUBSET Nat
  BY DEF Doublings
<1>2. ASSUME NEW m \in Doublings(p) PROVE m >= p /\ 2 * m \in Doublings(p)
  <2> DEFINE Above == {k \in Nat : k >= p}
  <2>1. Above \in SUBSET Nat /\ p \in Above /\ Doubles(Above)
    BY DEF Doubles
  <2>2. m \in Nat /\ m \in Above
    BY <2>1 DEF Doublings
  <2>3. ASSUME NEW S \in SUBSET Nat, p \in S, Doubles(S) PROVE 2 * m \in S
    BY <2>3 DEF Doublings, Doubles
  <2> QED
    BY <2>2, <2>3 DEF Doublings
<1>3. Doublings(2 * p) \subseteq Doublings(p)
  BY DEF Doublings, Doubles
<1>4. ASSUME NEW m \in Doublings(p), m # p PROVE m \in Doublings(2 * p)
  <2>1. ASSUME NEW S \in SUBSET Nat, 2 * p \in S, Doubles(S) PROVE m \in S
    <3>1. S \union {p} \in SUBSET Nat /\ Doubles(S \union {p})
      BY <2>1 DEF Doubles
    <3>2. m \in S \union {p}
      BY <3>1 DEF Doublings
    <3> QED
      BY <3>2, <1>4
  <2> QED
    BY <2>1 DEF Doublings
<1> QED
  BY <1>1, <1>2, <1>3, <1>4

(* The loop of nextPowerOfTwo() is a function: the least of the doublings of  *)
(* p that is not below v.                                                     *)
LEMMA DoubleIsDefined ==
  ASSUME NEW v \in Nat
  PROVE  \E g : g = [p \in Nat |-> IF p < v THEN g[2 * p] ELSE p]
<1> DEFINE E(p) == {m \in Doublings(p) : m >= v}
           Min(S) == CHOOSE m \in S : \A k \in S : m =< k
           g == [p \in Nat |-> Min(E(p))]
<1>1. ASSUME NEW p \in Nat, p < v PROVE E(p) = E(2 * p)
  BY <1>1, DoublingsOf
<1>2. ASSUME NEW p \in Nat, ~(p < v) PROVE Min(E(p)) = p
  <2>1. p \in E(p) /\ E(p) \in SUBSET Nat /\ \A m \in E(p) : p =< m
    BY <1>2, DoublingsOf
  <2> HIDE DEF E
  <2> QED
    BY <2>1
<1>3. \A p \in Nat : 2 * p \in Nat
  OBVIOUS
<1> HIDE DEF Min, E
<1>4. ASSUME NEW p \in Nat PROVE Min(E(p)) = IF p < v THEN g[2 * p] ELSE p
  BY <1>1, <1>2, <1>3
<1>5. g = [p \in Nat |-> IF p < v THEN g[2 * p] ELSE p]
  BY <1>4
<1> QED
  BY <1>5

(* RingBuffer::nextPowerOfTwo() (ring_buffer.cpp:9-14) returns what its name  *)
(* says: a power of two, at least v and, but for the least capacity of 2,     *)
(* less than twice v.                                                         *)
THEOREM RoundsUp ==
  ASSUME NEW v \in Nat
  PROVE  /\ NextPowerOfTwo(v) \in PowersOfTwo
         /\ NextPowerOfTwo(v) >= 2 /\ NextPowerOfTwo(v) >= v
         /\ v >= 2 => NextPowerOfTwo(v) < 2 * v
<1>1. PowersOfTwo \in SUBSET Nat /\ 1 \in PowersOfTwo
      /\ \A p \in PowersOfTwo : p >= 1 /\ 2 * p \in PowersOfTwo
  BY DoublingsOf DEF PowersOfTwo
<1>2. CASE v < 2
  <2>1. NextPowerOfTwo(v) = 2
    BY <1>2 DEF NextPowerOfTwo
  <2>2. 2 * 1 \in PowersOfTwo
    BY <1>1
  <2> QED
    BY <1>2, <2>1, <2>2
<1>3. CASE v >= 2
  <2> DEFINE g == CHOOSE g : g = [p \in Nat |-> IF p < v THEN g[2 * p] ELSE p]
  <2>1. NextPowerOfTwo(v) = g[1]
    BY <1>3 DEF NextPowerOfTwo
  <2>2. g = [p \in Nat |-> IF p < v THEN g[2 * p] ELSE p]
    BY DoubleIsDefined
  <2> HIDE DEF g
  <2>3. \A p \in Nat : g[p] = IF p < v THEN g[2 * p] ELSE p
    BY <2>2
  <2> DEFINE Good(p) == g[p] \in PowersOfTwo /\ g[p] >= v /\ g[p] < 2 * v
             Start == {p \in PowersOfTwo : p < 2 * v}
             Bad == {d \in Nat : \E p \in Start : d = 2 * v - p /\ ~Good(p)}
  <2>4. Bad = {}
    <3> SUFFICES ASSUME Bad # {} PROVE FALSE
      OBVIOUS
    <3>1. PICK d \in Bad : \A e \in Bad : d =< e
      <4>1. Bad \in SUBSET Nat
        OBVIOUS
      <4> HIDE DEF Bad
      <4> QED
        BY <4>1, LeastElement
    <3>2. PICK p \in Start : d = 2 * v - p /\ ~Good(p)
      OBVIOUS
    <3>3. p \in PowersOfTwo /\ p \in Nat /\ p >= 1 /\ p < 2 * v
      BY <1>1
    <3>4. p < v
      BY <2>3, <3>2, <3>3
    <3>5. 2 * p \in Start /\ ~Good(2 * p)
      <4>1. g[p] = g[2 * p]
        BY <2>3, <3>3, <3>4
      <4>2. 2 * p \in PowersOfTwo /\ 2 * p < 2 * v
        BY <1>1, <3>3, <3>4
      <4> QED
        BY <4>1, <4>2, <3>2
    <3>6. 2 * v - 2 * p \in Nat /\ 2 * v - 2 * p < d
      BY <3>2, <3>3, <3>4
    <3>7. 2 * v - 2 * p \in Bad
      BY <3>5, <3>6
    <3> HIDE DEF Bad, Start, Good
    <3>8. d =< 2 * v - 2 * p
      BY <3>1, <3>7
    <3> QED
      BY <3>2, <3>3, <3>6, <3>8
  <2>5. Good(1)
    <3>1. 1 \in Start /\ 2 * v - 1 \in Nat
      BY <1>1, <1>3
    <3> QED
      BY <2>4, <3>1
  <2>6. \A c \in PowersOfTwo : c >= v => c >= 2
    BY <1>1, <1>3
  <2> QED
    BY <2>1, <2>5, <2>6
<1> QED
  BY <1>2, <1>3

(* Of two powers of two one divides the other.                                *)
Divides(d, n) == \E k \in Nat : n = k * d

LEMMA PowersNested == \A a, b \in PowersOfTwo : Divides(a, b) \/ Divides(b, a)
<1>1. PowersOfTwo \in SUBSET Nat /\ \A p \in PowersOfTwo : p >= 1 /\ 2 * p \in PowersOfTwo
  BY DoublingsOf DEF PowersOfTwo
<1>2. \A n \in Nat : Divides(1, n) /\ Divides(n, n)
  <2>1. \A n \in Nat : n = n * 1 /\ n = 1 * n
    OBVIOUS
  <2> QED
    BY <2>1 DEF Divides
<1>3. ASSUME NEW a \in Nat, NEW b \in Nat, Divides(a, b) PROVE Divides(a, 2 * b)
  <2>1. PICK k \in Nat : b = k * a
    BY <1>3 DEF Divides
  <2>2. 2 * k \in Nat /\ 2 * b = (2 * k) * a
    BY <2>1
  <2> QED
    BY <2>2 DEF Divides
<1>4. ASSUME NEW a \in PowersOfTwo, NEW b \in PowersOfTwo, Divides(b, a), Divides(a, 2 * b)
      PROVE  a = b \/ a = 2 * b
  <2>1. a \in Nat /\ b \in Nat /\ a >= 1 /\ b >= 1
    BY <1>1
  <2>2. PICK j \in Nat : a = j * b
    BY <1>4 DEF Divides
  <2>3. PICK l \in Nat : 2 * b = l * a
    BY <1>4 DEF Divides
  <2>4. j # 0 /\ l # 0
    BY <2>1, <2>2, <2>3
  <2>5. j >= 3 => FALSE
    <3>1. ASSUME j >= 3 PROVE a >= 3 * b
      BY <2>1, <2>2, <3>1, Later
    <3>2. l * a >= 1 * a
      BY <2>1, <2>4, Later
    <3> QED
      BY <2>1, <2>3, <3>1, <3>2
  <2>6. j = 1 \/ j = 2
    BY <2>4, <2>5
  <2> QED
    BY <2>1, <2>2, <2>6
<1> DEFINE Nested(a) == \A b \in PowersOfTwo : Divides(a, b) \/ Divides(b, a)
           Good == {a \in PowersOfTwo : Nested(a)}
<1>5. 1 \in Good
  BY <1>1, <1>2, DoublingsOf DEF PowersOfTwo
<1>6. ASSUME NEW a \in Good PROVE 2 * a \in Good
  <2>1. a \in PowersOfTwo /\ 2 * a \in PowersOfTwo /\ a \in Nat /\ Nested(a)
    BY <1>1
  <2> DEFINE Below == {b \in PowersOfTwo : Divides(b, a) \/ Divides(2 * a, b)}
  <2>2. 1 \in Below
    BY <1>1, <1>2, <2>1, DoublingsOf DEF PowersOfTwo
  <2>3. ASSUME NEW b \in Below PROVE 2 * b \in Below
    <3>1. b \in PowersOfTwo /\ 2 * b \in PowersOfTwo /\ b \in Nat /\ 2 * a \in Nat
      BY <1>1, <2>1
    <3>2. CASE Divides(2 * a, b)
      BY <1>3, <3>1, <3>2
    <3>3. CASE Divides(b, a)
      <4>1. Divides(a, 2 * b) \/ Divides(2 * b, a)
        BY <2>1, <3>1
      <4>2. CASE Divides(2 * b, a)
        BY <3>1, <4>2
      <4>3. CASE Divides(a, 2 * b)
        <5>1. a = b \/ a = 2 * b
          BY <1>4, <2>1, <3>1, <3>3, <4>3
        <5>2. Divides(2 * a, 2 * a) /\ Divides(a, a)
          BY <1>2, <2>1, <3>1
        <5> QED
          BY <3>1, <5>1, <5>2
      <4> QED
        BY <4>1, <4>2, <4>3
    <3> QED
      BY <3>2, <3>3
  <2>4. PowersOfTwo \subseteq Below
    <3>1. Below \in SUBSET Nat /\ Doubles(Below)
      BY <1>1, <2>3 DEF Doubles
    <3> HIDE DEF Below
    <3> QED
      BY <2>2, <3>1 DEF PowersOfTwo, Doublings
  <2>5. \A b \in PowersOfTwo : Divides(b, 2 * a) \/ Divides(2 * a, b)
    BY <1>1, <1>3, <2>1, <2>4
  <2> QED
    BY <2>1, <2>5
<1>7. PowersOfTwo \subseteq Good
  <2>1. Good \in SUBSET Nat /\ Doubles(Good)
    BY <1>1, <1>6 DEF Doubles
  <2> HIDE DEF Good
  <2> QED
    BY <1>5, <2>1 DEF PowersOfTwo, Doublings
<1> QED
  BY <1>7

(* The ring the constructor makes (ring_buffer.cpp:16-19) is as RingBuffer     *)
(* assumes it: its capacity divides the number of values of a size_t, which    *)
(* is a larger power of two, so that mask_ picks a slot by the remainder and   *)
(* the wrap of an index does not change the slot.                              *)
THEOREM CapacityDivides ==
  ASSUME NEW v \in Nat, NEW values \in PowersOfTwo, NextPowerOfTwo(v) < values
  PROVE  /\ NextPowerOfTwo(v) \in Nat \ {0}
         /\ values % NextPowerOfTwo(v) = 0
<1> DEFINE c == NextPowerOfTwo(v)
<1>1. c \in PowersOfTwo /\ c \in Nat /\ c >= 2 /\ values \in Nat /\ c < values
  BY RoundsUp, DoublingsOf DEF PowersOfTwo
<1> HIDE DEF c
<1>2. Divides(c, values) \/ Divides(values, c)
  BY <1>1, PowersNested
<1>3. ~Divides(values, c)
  <2> SUFFICES ASSUME NEW k \in Nat, c = k * values PROVE FALSE
    BY DEF Divides
  <2>1. k # 0
    BY <1>1
  <2>2. k * values >= 1 * values
    BY <1>1, <2>1, Later
  <2> QED
    BY <1>1, <2>2
<1>4. PICK k \in Nat : values = k * c
  BY <1>2, <1>3 DEF Divides
<1>5. values % c = 0
  <2>1. values = k * c + 0
    BY <1>1, <1>4
  <2> QED
    BY <1>1, <1>4, <2>1, QuotientUnique
<1> QED
  BY <1>1, <1>5 DEF c
=============================================================================
