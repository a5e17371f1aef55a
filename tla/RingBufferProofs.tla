-------------------------- MODULE RingBufferProofs ---------------------------
(***************************************************************************)
(* Proofs about the ring buffer, for any first allocation that is a power  *)
(* of two, any argument of New and any length of content.                  *)
(***************************************************************************)
EXTENDS RingBuffer, SequenceTheorems, WellFoundedInduction, TLAPS

(***************************************************************************)
(* Powers of two                                                           *)
(***************************************************************************)

LEMMA LeastElement ==
    ASSUME NEW T \in SUBSET Nat, T # {}
    PROVE  \E x \in T : \A y \in T : x <= y
<1>1. IsWellFoundedOn(OpToRel(<, Nat), Nat)
  BY NatLessThanWellFounded
<1>2. PICK x \in T : \A y \in T : ~ (<<y, x>> \in OpToRel(<, Nat))
  BY <1>1, WFMin, Zenon
<1>3. \A y \in T : ~(y < x)
  BY <1>2 DEF OpToRel
<1> QED
  BY <1>3

\* A number is odd or even, and the product of odd numbers is odd.
LEMMA OddTimesOdd ==
    ASSUME NEW a \in Nat, NEW b \in Nat, a % 2 # 0, b % 2 # 0
    PROVE  (a * b) % 2 # 0
<1>1. PICK i \in Nat : a = 2 * i + 1
  <2>1. a = 2 * (a \div 2) + 1 /\ a \div 2 \in Nat
    OBVIOUS
  <2> QED
    BY <2>1
<1>2. PICK j \in Nat : b = 2 * j + 1
  <2>1. b = 2 * (b \div 2) + 1 /\ b \div 2 \in Nat
    OBVIOUS
  <2> QED
    BY <2>1
<1>3. a * b = 2 * (2 * (i * j) + i + j) + 1
  BY <1>1, <1>2
<1>4. i * j \in Nat
  OBVIOUS
<1> DEFINE k == 2 * (i * j) + i + j
<1>5. k \in Nat /\ a * b = 2 * k + 1
  BY <1>3, <1>4
<1> HIDE DEF k
<1> QED
  BY <1>5

\* Exact division, both ways.
LEMMA Divides ==
    ASSUME NEW n \in Nat, NEW d \in Nat \ {0}
    PROVE  /\ n % d = 0 => n = d * (n \div d) /\ n \div d \in Nat
           /\ \A k \in Nat : n = d * k => n % d = 0
<1>1. n % d = 0 => n = d * (n \div d) /\ n \div d \in Nat
  OBVIOUS
<1>2. ASSUME NEW k \in Nat, n = d * k PROVE n % d = 0
  BY <1>2
<1> QED
  BY <1>1, <1>2

LEMMA DoublePower ==
    ASSUME NEW p \in Nat, PowerOfTwo(p)
    PROVE  PowerOfTwo(2 * p)
<1> SUFFICES ASSUME NEW d \in 2..(2 * p), (2 * p) % d = 0, d % 2 # 0 PROVE FALSE
  BY DEF PowerOfTwo
<1>0. d \in Nat \ {0} /\ p > 0
  BY DEF PowerOfTwo
<1>1. PICK q \in Nat : 2 * p = d * q
  <2> DEFINE n == 2 * p
  <2>1. n \in Nat /\ n % d = 0
    OBVIOUS
  <2> HIDE DEF n
  <2>2. n = d * (n \div d) /\ n \div d \in Nat
    BY <1>0, <2>1, Divides
  <2> QED
    BY <2>2 DEF n
<1>2. (d * q) % 2 = 0
  BY <1>1
<1>3. q % 2 = 0
  BY <1>0, <1>2, OddTimesOdd
<1>4. PICK k \in Nat : q = 2 * k
  <2>1. q = 2 * (q \div 2) /\ q \div 2 \in Nat
    BY <1>3
  <2> QED
    BY <2>1
<1>5. p = d * k
  <2>1. d * (2 * k) = 2 * (d * k)
    BY <1>0
  <2>2. d * k \in Nat
    BY <1>0
  <2> QED
    BY <1>1, <1>4, <2>1, <2>2
<1>6. k # 0
  BY <1>0, <1>5
<1>7. d <= p
  BY <1>0, <1>5, <1>6
<1>8. p % d = 0
  BY <1>0, <1>5, Divides
<1> QED
  BY <1>7, <1>8 DEF PowerOfTwo

\* Reset keeps a power of two, or leaves no buffer.
LEMMA HalfPower ==
    ASSUME NEW p \in Nat, PowerOfTwo(p)
    PROVE  p \div 2 = 0 \/ PowerOfTwo(p \div 2)
<1>1. CASE p = 1
  BY <1>1
<1>2. CASE p # 1
  <2> DEFINE h == p \div 2
  <2>1. p % 2 = 0
    <3>1. p \in 2..p /\ p % p = 0
      BY <1>2 DEF PowerOfTwo
    <3> QED
      BY <3>1 DEF PowerOfTwo
  <2>2. p = 2 * h /\ h \in Nat /\ h > 0
    BY <1>2, <2>1 DEF PowerOfTwo
  <2> HIDE DEF h
  <2>3. ASSUME NEW d \in 2..h, h % d = 0 PROVE d % 2 = 0
    <3>0. d \in Nat \ {0}
      OBVIOUS
    <3>4. h \in Nat /\ h % d = 0
      BY <2>2, <2>3
    <3>1. PICK k \in Nat : h = d * k
      BY <3>0, <3>4, Divides, Zenon
    <3>2. p = d * (2 * k)
      BY <2>2, <3>0, <3>1
    <3>3. p % d = 0 /\ d \in 2..p
      BY <2>2, <3>0, <3>2, Divides
    <3> QED
      BY <3>3 DEF PowerOfTwo
  <2> QED
    BY <2>2, <2>3 DEF PowerOfTwo, h
<1> QED
  BY <1>1, <1>2

\* There is a power of two behind every number, not farther than the double.
LEMMA PowerBetween ==
    ASSUME NEW n \in Nat \ {0}
    PROVE  \E p \in (n + 1)..(2 * n) : PowerOfTwo(p)
<1> DEFINE T == {i \in Nat : i # 0 /\ ~\E p \in (i + 1)..(2 * i) : PowerOfTwo(p)}
<1> SUFFICES ASSUME T # {} PROVE FALSE
  OBVIOUS
<1>1. PICK i \in T : \A j \in T : i <= j
  BY LeastElement
<1>2. CASE i = 1
  <2>1. PowerOfTwo(2)
    BY DEF PowerOfTwo
  <2> QED
    BY <1>2, <2>1
<1>3. CASE i > 1
  <2> DEFINE m == i \div 2
  <2>1. m \in Nat /\ m # 0 /\ m < i /\ i <= 2 * m + 1 /\ 2 * m <= i
    BY <1>3
  <2> HIDE DEF m
  <2>2. m \notin T
    BY <1>1, <2>1
  <2>3. PICK p \in (m + 1)..(2 * m) : PowerOfTwo(p)
    BY <2>1, <2>2
  <2>4. PowerOfTwo(2 * p)
    BY <2>1, <2>3, DoublePower
  <2>5. 2 * p \in (i + 1)..(2 * i)
    BY <2>1, <2>3
  <2> QED
    BY <1>1, <2>4, <2>5
<1> QED
  BY <1>1, <1>2, <1>3

LEMMA CeilIsPower ==
    ASSUME NEW n \in Nat
    PROVE  /\ CeilToPowerOfTwo(n) \in Nat /\ CeilToPowerOfTwo(n) >= n
           /\ PowerOfTwo(CeilToPowerOfTwo(n))
<1> DEFINE T == {k \in 2..(2 * n + 2) : PowerOfTwo(k) /\ k >= n}
<1>1. T \in SUBSET Nat
  OBVIOUS
<1>2. T # {}
  <2>1. CASE n = 0
    <3>1. PowerOfTwo(2)
      BY DEF PowerOfTwo
    <3> QED
      BY <2>1, <3>1
  <2>2. CASE n # 0
    <3>1. PICK p \in (n + 1)..(2 * n) : PowerOfTwo(p)
      BY <2>2, PowerBetween
    <3>2. p \in T
      BY <2>2, <3>1
    <3> QED
      BY <3>2
  <2> QED
    BY <2>1, <2>2
<1>3. \E x \in T : \A y \in T : x =< y
  BY <1>1, <1>2, LeastElement
<1>4. CeilToPowerOfTwo(n) = CHOOSE x \in T : \A y \in T : x =< y
  BY DEF CeilToPowerOfTwo, Min
<1>5. CeilToPowerOfTwo(n) \in T
  BY <1>3, <1>4
<1> QED
  BY <1>5

(***************************************************************************)
(* The inductive invariant                                                 *)
(***************************************************************************)

\* the position x, at most one round ahead, in a buffer of size s
Wrap(x, s) == IF x < s THEN x ELSE x - s

\* A buffer b of size s holds c between the positions i and j.
Holds(b, s, i, j, c) ==
    /\ s \in Nat /\ b \in [0..(s - 1) -> Byte] /\ c \in Seq(Byte) /\ Len(c) <= s
    /\ i \in Nat /\ j \in Nat
    /\ s = 0 => i = 0 /\ j = 0
    /\ s > 0 => i < s /\ j = Wrap(i + Len(c), s)
    /\ \A k \in 1..Len(c) : c[k] = b[Wrap(i + k - 1, s)]

Inv ==
    /\ Holds(buf, size, r, w, content)
    /\ size = 0 \/ PowerOfTwo(size)
    /\ isEmpty \in BOOLEAN /\ (isEmpty <=> Len(content) = 0)
    /\ isEmpty => r = 0 /\ w = 0

LEMMA WrapIsMod ==
    ASSUME NEW s \in Nat \ {0}, NEW x \in Nat, x < 2 * s
    PROVE  x % s = Wrap(x, s) /\ Wrap(x, s) \in 0..(s - 1)
BY DEF Wrap

LEMMA WrapTwice ==
    ASSUME NEW s \in Nat \ {0}, NEW i \in 0..(s - 1), NEW m \in 0..s, NEW k \in Nat, m + k <= s
    PROVE  Wrap(Wrap(i + m, s) + k, s) = Wrap(i + (m + k), s)
BY DEF Wrap

\* A slice of the buffer is a sequence of bytes.
LEMMA SliceIsSeq ==
    ASSUME buf \in [0..(size - 1) -> Byte], size \in Nat,
           NEW i \in Nat, NEW n \in Nat, NEW j \in Nat, j = i + n, j <= size
    PROVE  /\ Slice(i, j) \in Seq(Byte) /\ Len(Slice(i, j)) = n
           /\ \A k \in 1..n : Slice(i, j)[k] = buf[i + k - 1]
<1>0. j - i = n
  OBVIOUS
<1>1. \A k \in 1..n : i + k - 1 \in 0..(size - 1)
  OBVIOUS
<1>2. \A k \in 1..n : buf[i + k - 1] \in Byte
  BY <1>1
<1>3. Slice(i, j) = [k \in 1..n |-> buf[i + k - 1]]
  BY <1>0 DEF Slice
<1>4. Slice(i, j) \in [1..n -> Byte]
  BY <1>2, <1>3
<1>5. Slice(i, j) \in Seq(Byte) /\ Len(Slice(i, j)) = n
  BY <1>4
<1> QED
  BY <1>3, <1>5

\* Length and Free count the bytes of the content.
LEMMA LengthIsLen ==
    ASSUME Inv
    PROVE  Length = Len(content) /\ Free = size - Len(content) /\ Len(content) \in Nat
BY DEF Inv, Holds, Length, Free, Wrap

\* The first m bytes of the content are a slice, or two.
LEMMA FrontIsSlices ==
    ASSUME Inv, NEW m \in 1..Len(content)
    PROVE  /\ w > r => r + m <= size
           /\ r + m <= size => Slice(r, r + m) = SubSeq(content, 1, m)
           /\ r + m > size => Slice(r, size) \o Slice(0, m - (size - r)) = SubSeq(content, 1, m)
<1>0. /\ size \in Nat \ {0} /\ r \in 0..(size - 1) /\ Len(content) \in 1..size /\ content \in Seq(Byte)
      /\ buf \in [0..(size - 1) -> Byte] /\ w = Wrap(r + Len(content), size)
      /\ \A k \in 1..Len(content) : content[k] = buf[Wrap(r + k - 1, size)]
  BY DEF Inv, Holds
<1>1. w > r => r + m <= size
  BY <1>0 DEF Wrap
<1> DEFINE f == SubSeq(content, 1, m)
<1>2. f \in Seq(Byte) /\ Len(f) = m /\ \A k \in 1..m : f[k] = content[k]
  <2>1. \A k \in 1..m : content[k] \in Byte
    BY <1>0
  <2> QED
    BY <2>1, SubSeqProperties
<1> HIDE DEF f
<1>3. \A k \in 1..m : f[k] = buf[Wrap(r + k - 1, size)]
  BY <1>0, <1>2
<1>4. ASSUME r + m <= size PROVE Slice(r, r + m) = f
  <2> DEFINE t == Slice(r, r + m)
  <2>1. t \in Seq(Byte) /\ Len(t) = m /\ \A k \in 1..m : t[k] = buf[r + k - 1]
    <3>1. r \in Nat /\ m \in Nat /\ r + m \in Nat
      BY <1>0
    <3> QED
      BY <1>0, <1>4, <3>1, SliceIsSeq
  <2> HIDE DEF t
  <2>2. \A k \in 1..m : Wrap(r + k - 1, size) = r + k - 1
    BY <1>0, <1>4 DEF Wrap
  <2>3. \A k \in 1..Len(t) : t[k] = f[k]
    BY <1>3, <2>1, <2>2
  <2>4. t = f
    BY <1>2, <2>1, <2>3, SeqEqual
  <2> QED
    BY <2>4 DEF t
<1>5. ASSUME r + m > size PROVE Slice(r, size) \o Slice(0, m - (size - r)) = f
  <2> DEFINE h == Slice(r, size)
             u == Slice(0, m - (size - r))
             t == h \o u
             n == size - r
  <2>1. h \in Seq(Byte) /\ Len(h) = n /\ \A k \in 1..n : h[k] = buf[r + k - 1]
    <3>1. r \in Nat /\ n \in Nat /\ size = r + n /\ size <= size
      BY <1>0
    <3> QED
      BY <1>0, <3>1, SliceIsSeq
  <2>2. m - n \in Nat /\ m - n <= size /\ n \in Nat
    BY <1>0, <1>5
  <2>3. u \in Seq(Byte) /\ Len(u) = m - n /\ \A k \in 1..(m - n) : u[k] = buf[0 + k - 1]
    <3>1. m - (size - r) = 0 + (m - n) /\ m - (size - r) \in Nat /\ m - (size - r) <= size
      BY <1>0, <2>2
    <3> QED
      BY <1>0, <2>2, <3>1, SliceIsSeq
  <2> HIDE DEF h, u
  <2>4. /\ t \in Seq(Byte) /\ Len(t) = Len(h) + Len(u)
        /\ \A k \in 1..(Len(h) + Len(u)) : t[k] = IF k <= Len(h) THEN h[k] ELSE u[k - Len(h)]
    BY <2>1, <2>3, ConcatProperties
  <2> HIDE DEF t
  <2>5. Len(t) = m
    BY <2>1, <2>2, <2>3, <2>4
  <2>6. ASSUME NEW k \in 1..m PROVE t[k] = f[k]
    <3>1. CASE k <= n
      <4>1. Wrap(r + k - 1, size) = r + k - 1 /\ k \in 1..n
        BY <1>0, <2>2, <3>1 DEF Wrap, n
      <4> QED
        BY <1>3, <2>1, <2>4, <2>5, <3>1, <4>1
    <3>2. CASE k > n
      <4>1. Wrap(r + k - 1, size) = 0 + (k - n) - 1 /\ k - n \in 1..(m - n)
        BY <1>0, <2>2, <3>2 DEF Wrap, n
      <4>2. t[k] = u[k - n]
        BY <2>1, <2>2, <2>4, <2>5, <3>2
      <4> QED
        BY <1>3, <2>3, <4>1, <4>2
    <3> QED
      BY <2>2, <3>1, <3>2
  <2>7. t = f
    BY <1>2, <2>4, <2>5, <2>6, SeqEqual
  <2> QED
    BY <2>7 DEF t, h, u
<1> QED
  BY <1>1, <1>4, <1>5 DEF f

\* What is read without moving.
LEMMA InvContent == Inv => TypeOK /\ ContentKept
<1> SUFFICES ASSUME Inv PROVE TypeOK /\ ContentKept
  OBVIOUS
<1>1. Length = Len(content) /\ Free = size - Len(content) /\ Len(content) \in Nat
  BY LengthIsLen
<1>2. TypeOK
  BY WrapIsMod DEF Inv, Holds, TypeOK, Wrap
<1>3. content \in Seq(Byte)
  BY DEF Inv, Holds
<1>4. LazyReadAll = content
  <2>1. CASE isEmpty
    BY <1>3, <2>1, EmptySeq DEF Inv, LazyReadAll
  <2>2. CASE ~isEmpty
    <3> DEFINE m == Len(content)
    <3>1. m \in 1..Len(content)
      BY <1>1, <2>2 DEF Inv
    <3>2. SubSeq(content, 1, m) = content
      BY <1>3, SubSeqFull
    <3>3. /\ w > r => w = r + m /\ r + m <= size
          /\ ~(w > r) => m - (size - r) = w /\ r + m >= size
      BY <1>1, <2>2 DEF Inv, Holds, Wrap
    <3> HIDE DEF m
    <3>4. CASE w > r
      BY <2>2, <3>1, <3>2, <3>3, <3>4, FrontIsSlices DEF LazyReadAll
    <3>5. CASE ~(w > r) /\ r + m > size
      BY <2>2, <3>1, <3>2, <3>3, <3>5, FrontIsSlices DEF LazyReadAll
    <3>6. CASE ~(w > r) /\ r + m = size
      <4>1. Slice(r, size) = content
        <5>1. r + m <= size
          BY <3>6, <1>1 DEF Inv, Holds
        <5>2. Slice(r, r + m) = content
          BY <3>1, <3>2, <5>1, FrontIsSlices
        <5> QED
          BY <3>6, <5>2
      <4>2. w = 0
        BY <3>3, <3>6, <1>1 DEF Inv, Holds, m
      <4>3. Slice(0, w) = << >>
        BY <4>2 DEF Slice
      <4> QED
        BY <1>3, <2>2, <3>6, <4>1, <4>3, ConcatEmptySeq DEF LazyReadAll
    <3> QED
      BY <1>1, <3>3, <3>4, <3>5, <3>6 DEF Inv, Holds, m
  <2> QED
    BY <2>1, <2>2
<1>5. ASSUME NEW n \in 0..(MaxLength + 1) PROVE LazyRead(n) = SubSeq(content, 1, Least(n, Len(content)))
  <2> DEFINE m == Least(n, Len(content))
  <2>0. n \in Nat
    BY BufferAssumption
  <2>1. CASE isEmpty \/ n <= 0
    <3>1. m = 0
      BY <1>1, <2>0, <2>1 DEF Inv, Least
    <3>2. SubSeq(content, 1, m) = << >>
      BY <3>1, SubSeqEmpty
    <3> QED
      BY <2>1, <3>2 DEF LazyRead
  <2>2. CASE ~(isEmpty \/ n <= 0)
    <3>1. m \in 1..Len(content)
      BY <1>1, <2>0, <2>2 DEF Inv, Least
    <3>2. LazyRead(n) = IF w > r \/ r + m <= size THEN Slice(r, r + m)
                        ELSE Slice(r, size) \o Slice(0, m - (size - r))
      BY <1>1, <2>2 DEF LazyRead
    <3> HIDE DEF m
    <3>3. r + m <= size \/ r + m > size
      BY <1>1, <3>1 DEF Inv, Holds
    <3>4. LazyRead(n) = SubSeq(content, 1, m)
      BY <3>1, <3>2, <3>3, FrontIsSlices
    <3> QED
      BY <3>4 DEF m
  <2> QED
    BY <2>1, <2>2
<1> QED
  BY <1>1, <1>2, <1>4, <1>5 DEF ContentKept

(***************************************************************************)
(* Reading                                                                 *)
(***************************************************************************)

LEMMA ZerosIsBuf ==
    ASSUME NEW s \in Nat
    PROVE  Zeros(s) \in [0..(s - 1) -> Byte]
BY BufferAssumption DEF Zeros

LEMMA ResetStep ==
    ASSUME Inv, Reset, content' = << >>
    PROVE  Inv'
<1>1. size \in Nat /\ size \div 2 \in Nat
  BY DEF Inv, Holds
<1>2. size' = 0 \/ PowerOfTwo(size')
  BY <1>1, HalfPower DEF Inv, Reset
<1>3. buf' \in [0..(size' - 1) -> Byte] /\ size' \in Nat
  BY <1>1, ZerosIsBuf DEF Reset
<1>4. content' \in Seq(Byte) /\ Len(content') = 0
  BY EmptySeq
<1>5. isEmpty' = TRUE /\ r' = 0 /\ w' = 0
  BY DEF Reset
<1>6. Holds(buf', size', r', w', content')
  <2>1. 1..Len(content') = {}
    BY <1>4
  <2>2. size' > 0 => Wrap(0 + Len(content'), size') = 0
    BY <1>4 DEF Wrap
  <2>3. Len(content') <= size'
    BY <1>3, <1>4
  <2> QED
    BY <1>3, <1>4, <1>5, <2>1, <2>2, <2>3 DEF Holds
<1> QED
  BY <1>2, <1>4, <1>5, <1>6 DEF Inv

\* The content behind the first m bytes.
LEMMA RestOf ==
    ASSUME Inv, NEW m \in Nat \ {0}
    PROVE  /\ m < Len(content) => /\ Rest(m) \in Seq(Byte) /\ Len(Rest(m)) = Len(content) - m
                                  /\ \A k \in 1..(Len(content) - m) : Rest(m)[k] = content[m + k]
           /\ m >= Len(content) => Rest(m) = << >>
<1>1. content \in Seq(Byte) /\ Len(content) \in Nat
  BY DEF Inv, Holds
<1>2. m >= Len(content) => Rest(m) = << >>
  BY <1>1, SubSeqEmpty DEF Rest
<1>3. ASSUME m < Len(content)
      PROVE  /\ Rest(m) \in Seq(Byte) /\ Len(Rest(m)) = Len(content) - m
             /\ \A k \in 1..(Len(content) - m) : Rest(m)[k] = content[m + k]
  <2>1. \A i \in (m + 1)..Len(content) : content[i] \in Byte
    BY <1>1
  <2>2. /\ Rest(m) \in Seq(Byte)
        /\ Len(Rest(m)) = IF m + 1 <= Len(content) THEN Len(content) - (m + 1) + 1 ELSE 0
        /\ \A k \in 1..(Len(content) - (m + 1) + 1) : Rest(m)[k] = content[m + 1 + k - 1]
    BY <1>1, <2>1, SubSeqProperties DEF Rest
  <2>3. Len(content) - (m + 1) + 1 = Len(content) - m
    BY <1>1
  <2>4. \A k \in 1..(Len(content) - m) : m + 1 + k - 1 = m + k
    BY <1>1
  <2>5. Len(Rest(m)) = Len(content) - m
    BY <1>1, <1>3, <2>2
  <2>6. \A k \in 1..(Len(content) - m) : Rest(m)[k] = content[m + k]
    <3> TAKE k \in 1..(Len(content) - m)
    <3>1. k \in 1..(Len(content) - (m + 1) + 1)
      BY <2>3
    <3> QED
      BY <2>2, <2>4, <3>1
  <2> QED
    BY <2>2, <2>5, <2>6
<1> QED
  BY <1>2, <1>3

\* r moves over some bytes but not all.
LEMMA MoveStep ==
    ASSUME Inv, NEW m \in Nat \ {0}, m < Len(content), r' = Wrap(r + m, size),
           content' = Rest(m), UNCHANGED <<buf, size, w, isEmpty>>
    PROVE  Inv'
<1>0. /\ size \in Nat \ {0} /\ r \in 0..(size - 1) /\ Len(content) \in 1..size
      /\ buf \in [0..(size - 1) -> Byte] /\ w = Wrap(r + Len(content), size)
      /\ \A k \in 1..Len(content) : content[k] = buf[Wrap(r + k - 1, size)]
      /\ ~isEmpty /\ w \in Nat
  BY DEF Inv, Holds
<1> DEFINE c == Rest(m)
           n == Len(content) - m
<1>1. c \in Seq(Byte) /\ Len(c) = n /\ \A k \in 1..n : c[k] = content[m + k]
  BY RestOf
<1> HIDE DEF c
<1>2. n \in 1..size /\ m + n = Len(content)
  BY <1>0
<1>3. r' \in 0..(size - 1)
  BY <1>0 DEF Wrap
<1>4. Wrap(r' + n, size) = w
  BY <1>0, <1>2, WrapTwice DEF Wrap
<1>5. \A k \in 1..n : c[k] = buf[Wrap(r' + k - 1, size)]
  <2> TAKE k \in 1..n
  <2>1. m + k \in 1..Len(content)
    BY <1>0, <1>2
  <2>2. c[k] = buf[Wrap(r + (m + k) - 1, size)]
    BY <1>0, <1>1, <2>1
  <2>3. Wrap(r + (m + k) - 1, size) = Wrap(r' + k - 1, size)
    BY <1>0, <1>2 DEF Wrap
  <2> QED
    BY <2>2, <2>3
<1> HIDE DEF n
<1>6. content' = c
  BY DEF c
<1>7. Holds(buf', size', r', w', content')
  BY <1>0, <1>1, <1>2, <1>3, <1>4, <1>5, <1>6 DEF Holds
<1>8. Len(content') # 0 /\ ~isEmpty'
  BY <1>0, <1>1, <1>2, <1>6
<1> QED
  BY <1>0, <1>7, <1>8 DEF Inv

\* m bytes are taken: the buffer is empty if r arrives at w.
LEMMA TakeStep ==
    ASSUME Inv, ~isEmpty, NEW m \in 1..Len(content), NEW next, next = Wrap(r + m, size),
           IF next = w THEN Reset ELSE r' = next /\ UNCHANGED <<buf, size, w, isEmpty>>,
           content' = Rest(m)
    PROVE  Inv'
<1>0. /\ size \in Nat \ {0} /\ r \in 0..(size - 1) /\ Len(content) \in 1..size
      /\ w = Wrap(r + Len(content), size)
  BY DEF Inv, Holds
<1>1. next = w <=> m = Len(content)
  BY <1>0 DEF Wrap
<1>2. CASE m = Len(content)
  <2>1. m \in Nat \ {0} /\ m >= Len(content)
    BY <1>0, <1>2
  <2>2. content' = << >>
    BY <2>1, RestOf
  <2> QED
    BY <1>1, <1>2, <2>2, ResetStep
<1>3. CASE m # Len(content)
  <2>1. m \in Nat \ {0} /\ m < Len(content)
    BY <1>0, <1>3
  <2> QED
    BY <1>1, <1>3, <2>1, MoveStep
<1> QED
  BY <1>2, <1>3

LEMMA ShiftStep ==
    ASSUME Inv, NEW n \in Nat \ {0}, Shift(n)
    PROVE  Inv'
<1>1. Length = Len(content) /\ Len(content) \in Nat
  BY LengthIsLen
<1>2. content' = Rest(n) /\ Advance(n, Len(content))
  BY <1>1 DEF Shift
<1>3. CASE n < Len(content)
  <2>1. size \in Nat \ {0} /\ r \in 0..(size - 1) /\ Len(content) <= size
    BY <1>1, <1>3 DEF Inv, Holds
  <2>2. r + n \in Nat /\ r + n < 2 * size
    BY <1>1, <1>3, <2>1
  <2>3. (r + n) % size = Wrap(r + n, size)
    BY <2>1, <2>2, WrapIsMod
  <2> QED
    BY <1>2, <1>3, <2>3, MoveStep DEF Advance
<1>4. CASE ~(n < Len(content))
  <2>1. n >= Len(content)
    BY <1>1, <1>4
  <2>2. content' = << >>
    BY <1>2, <2>1, RestOf
  <2> QED
    BY <1>2, <1>4, <2>2, ResetStep DEF Advance
<1> QED
  BY <1>3, <1>4

\* Read takes the first m bytes and returns them.
LEMMA ReadStep ==
    ASSUME Inv, NEW n \in Nat \ {0}, Read(n)
    PROVE  Inv' /\ content = got' \o content'
<1> DEFINE m == Least(n, Length)
           next == IF w > r THEN r + m ELSE (r + m) % size
<1>1. Length = Len(content) /\ Len(content) \in Nat /\ content \in Seq(Byte)
  BY LengthIsLen DEF Inv, Holds
<1>2. ~isEmpty /\ content' = Rest(m)
      /\ (IF next = w THEN Reset ELSE r' = next /\ UNCHANGED <<buf, size, w, isEmpty>>)
  BY DEF Read
<1>3. m \in 1..Len(content)
  BY <1>1, <1>2 DEF Least, Inv
<1>4. got' = IF w > r \/ r + m <= size THEN Slice(r, r + m)
             ELSE Slice(r, size) \o Slice(0, m - (size - r))
  BY DEF Read
<1> HIDE DEF m
<1>5. size \in Nat \ {0} /\ r \in 0..(size - 1) /\ Len(content) <= size /\ w = Wrap(r + Len(content), size)
  BY <1>2 DEF Inv, Holds
<1>6. r + m <= size \/ r + m > size
  BY <1>1, <1>3, <1>5
<1>7. got' = SubSeq(content, 1, m)
  BY <1>3, <1>4, <1>6, FrontIsSlices
<1>8. next = Wrap(r + m, size)
  <2>1. r + m \in Nat /\ r + m < 2 * size
    BY <1>1, <1>3, <1>5
  <2>2. (r + m) % size = Wrap(r + m, size)
    BY <1>5, <2>1, WrapIsMod
  <2>3. w > r => r + m < size
    BY <1>1, <1>3, <1>5 DEF Wrap
  <2> QED
    BY <2>2, <2>3 DEF Wrap
<1> HIDE DEF next
<1>9. Inv'
  BY <1>2, <1>3, <1>8, TakeStep
<1>10. content = got' \o content'
  <2>1. 1 \in 1..(Len(content) + 1) /\ m \in (1 - 1)..Len(content) /\ Len(content) \in m..Len(content)
    BY <1>1, <1>3
  <2>2. SubSeq(content, 1, m) \o SubSeq(content, m + 1, Len(content)) = SubSeq(content, 1, Len(content))
    BY <1>1, <2>1, ConcatAdjacentSubSeq
  <2> QED
    BY <1>1, <1>2, <1>7, <2>2, SubSeqFull DEF Rest
<1> QED
  BY <1>9, <1>10

LEMMA ReadByteStep ==
    ASSUME Inv, ReadByte
    PROVE  Inv' /\ content = got' \o content'
<1> DEFINE next == IF r + 1 = size THEN 0 ELSE r + 1
<1>1. Len(content) \in Nat /\ content \in Seq(Byte)
  BY LengthIsLen DEF Inv, Holds
<1>2. /\ ~isEmpty /\ content' = Rest(1) /\ got' = <<buf[r]>>
      /\ IF next = w THEN Reset ELSE r' = next /\ UNCHANGED <<buf, size, w, isEmpty>>
  BY DEF ReadByte
<1>3. 1 \in 1..Len(content)
  BY <1>1, <1>2 DEF Inv
<1>4. size \in Nat \ {0} /\ r \in 0..(size - 1) /\ content[1] = buf[Wrap(r + 1 - 1, size)]
  BY <1>2, <1>3 DEF Inv, Holds
<1>5. next = Wrap(r + 1, size)
  BY <1>4 DEF Wrap
<1>6. content[1] = buf[r]
  BY <1>4 DEF Wrap
<1> HIDE DEF next
<1>7. Inv'
  BY <1>2, <1>3, <1>5, TakeStep
<1>8. content = got' \o content'
  <2>1. Len(content) \in 1..Len(content)
    BY <1>1, <1>3
  <2>2. SubSeq(content, 1, Len(content)) = <<content[1]>> \o SubSeq(content, 1 + 1, Len(content))
    BY <1>1, <1>3, <2>1, SubSeqRecursiveFirst
  <2> QED
    BY <1>1, <1>2, <1>6, <2>2, SubSeqFull DEF Rest
<1> QED
  BY <1>7, <1>8

(***************************************************************************)
(* Writing                                                                 *)
(***************************************************************************)

LEMMA CopyIsBuf ==
    ASSUME NEW s \in Nat, NEW b \in [0..(s - 1) -> Byte], NEW at \in Nat, NEW p \in Seq(Byte)
    PROVE  /\ Copy(b, at, p) \in [0..(s - 1) -> Byte]
           /\ \A x \in 0..(s - 1) : at <= x /\ x < at + Len(p) => Copy(b, at, p)[x] = p[x - at + 1]
           /\ \A x \in 0..(s - 1) : ~(at <= x /\ x < at + Len(p)) => Copy(b, at, p)[x] = b[x]
<1>1. Copy(b, at, p) = [x \in 0..(s - 1) |-> IF at <= x /\ x < at + Len(p) THEN p[x - at + 1] ELSE b[x]]
  BY DEF Copy
<1>2. \A x \in 0..(s - 1) : (at <= x /\ x < at + Len(p)) => p[x - at + 1] \in Byte
  <2> TAKE x \in 0..(s - 1)
  <2>1. (at <= x /\ x < at + Len(p)) => x - at + 1 \in 1..Len(p)
    OBVIOUS
  <2> QED
    BY <2>1
<1> QED
  BY <1>1, <1>2

\* malloc: the bytes at the beginning of a new buffer.
LEMMA CopiedHolds ==
    ASSUME NEW q \in Seq(Byte), NEW cap \in Nat, Len(q) < cap
    PROVE  Holds(Copy(Zeros(cap), 0, q), cap, 0, Len(q), q)
<1> DEFINE z == Zeros(cap)
           c == Copy(z, 0, q)
<1>1. z \in [0..(cap - 1) -> Byte]
  BY ZerosIsBuf
<1> HIDE DEF z
<1>2. /\ c \in [0..(cap - 1) -> Byte]
      /\ \A x \in 0..(cap - 1) : 0 <= x /\ x < 0 + Len(q) => c[x] = q[x - 0 + 1]
      /\ \A x \in 0..(cap - 1) : ~(0 <= x /\ x < 0 + Len(q)) => c[x] = z[x]
  <2>1. cap \in Nat /\ 0 \in Nat /\ q \in Seq(Byte)
    OBVIOUS
  <2> QED
    BY <1>1, <2>1, CopyIsBuf, Zenon
<1> HIDE DEF c
<1>3. \A k \in 1..Len(q) : q[k] = c[Wrap(0 + k - 1, cap)]
  <2> TAKE k \in 1..Len(q)
  <2>1. Wrap(0 + k - 1, cap) = k - 1 /\ k - 1 \in 0..(cap - 1) /\ k - 1 < 0 + Len(q) /\ (k - 1) - 0 + 1 = k
        /\ 0 <= k - 1
    BY DEF Wrap
  <2> QED
    BY <1>2, <2>1
<1>4. Wrap(0 + Len(q), cap) = Len(q) /\ cap > 0 /\ Len(q) <= cap /\ Len(q) \in Nat
  BY DEF Wrap
<1>5. Holds(c, cap, 0, Len(q), q)
  BY <1>2, <1>3, <1>4 DEF Holds
<1> QED
  BY <1>5 DEF c, z

\* The buffer after malloc, or the same one if there is room.
LEMMA PreparedHolds ==
    ASSUME Inv, NEW n \in Nat \ {0}
    PROVE  LET b == Prepared(n)
           IN  /\ Holds(b.buf, b.size, b.r, b.w, content) /\ Len(content) + n <= b.size
               /\ PowerOfTwo(b.size)
<1>1. Length = Len(content) /\ Free = size - Len(content) /\ Len(content) \in Nat
      /\ size \in Nat /\ content \in Seq(Byte) /\ Len(content) <= size
  BY LengthIsLen DEF Inv, Holds
<1>2. CASE n > Free
  <2> DEFINE need == n - Free
             cap == IF size = 0 /\ need < InitSize THEN InitSize ELSE CeilToPowerOfTwo(size + need)
             c == Copy(Zeros(cap), 0, content)
  <2>1. need \in Nat /\ size + need = Len(content) + n
    BY <1>1, <1>2
  <2>2. cap \in Nat /\ Len(content) + n <= cap /\ PowerOfTwo(cap)
    <3>1. CASE size = 0 /\ need < InitSize
      BY <1>1, <2>1, <3>1, BufferAssumption
    <3>2. CASE ~(size = 0 /\ need < InitSize)
      BY <1>1, <2>1, <3>2, CeilIsPower
    <3> QED
      BY <3>1, <3>2
  <2>3. Prepared(n) = [buf |-> c, size |-> cap, r |-> 0, w |-> Len(content)]
    <3>1. LazyReadAll = content
      BY InvContent DEF ContentKept
    <3> QED
      BY <1>1, <1>2, <3>1 DEF Prepared, Malloc
  <2> HIDE DEF need, cap
  <2>4. Len(content) < cap
    BY <1>1, <2>2
  <2>5. Holds(c, cap, 0, Len(content), content)
    BY <1>1, <2>2, <2>4, CopiedHolds
  <2> HIDE DEF c
  <2> QED
    BY <2>2, <2>3, <2>5
<1>3. CASE ~(n > Free)
  <2>1. Prepared(n) = [buf |-> buf, size |-> size, r |-> r, w |-> w]
    BY <1>3 DEF Prepared
  <2>2. Len(content) + n <= size /\ size # 0
    BY <1>1, <1>3
  <2> QED
    BY <2>1, <2>2 DEF Inv
<1> QED
  BY <1>2, <1>3

\* The bytes p are put behind the content.
LEMMA PutHolds ==
    ASSUME NEW b, NEW s, NEW i, NEW j, NEW c, Holds(b, s, i, j, c),
           NEW p \in Seq(Byte), Len(p) # 0, Len(c) + Len(p) <= s,
           NEW b2 \in [0..(s - 1) -> Byte],
           \A k \in 1..Len(c) : b2[Wrap(i + k - 1, s)] = b[Wrap(i + k - 1, s)],
           \A k \in 1..Len(p) : b2[Wrap(i + Len(c) + k - 1, s)] = p[k]
    PROVE  Holds(b2, s, i, Wrap(i + Len(c) + Len(p), s), c \o p)
<1>1. /\ s \in Nat \ {0} /\ i \in 0..(s - 1) /\ c \in Seq(Byte) /\ Len(c) \in Nat /\ Len(p) \in Nat
      /\ \A k \in 1..Len(c) : c[k] = b[Wrap(i + k - 1, s)]
  BY DEF Holds
<1> DEFINE t == c \o p
<1>2. /\ t \in Seq(Byte) /\ Len(t) = Len(c) + Len(p)
      /\ \A k \in 1..(Len(c) + Len(p)) : t[k] = IF k <= Len(c) THEN c[k] ELSE p[k - Len(c)]
  BY <1>1, ConcatProperties
<1> HIDE DEF t
<1>3. ASSUME NEW k \in 1..Len(t) PROVE t[k] = b2[Wrap(i + k - 1, s)]
  <2>1. CASE k <= Len(c)
    <3>1. k \in 1..Len(c) /\ k \in 1..(Len(c) + Len(p))
      BY <1>1, <1>2, <2>1
    <3> QED
      BY <1>1, <1>2, <2>1, <3>1
  <2>2. CASE k > Len(c)
    <3>1. k - Len(c) \in 1..Len(p) /\ i + Len(c) + (k - Len(c)) - 1 = i + k - 1
      BY <1>1, <1>2, <2>2
    <3>2. b2[Wrap(i + Len(c) + (k - Len(c)) - 1, s)] = p[k - Len(c)]
      BY <3>1
    <3> QED
      BY <1>1, <1>2, <2>2, <3>1, <3>2
  <2> QED
    BY <1>1, <1>2, <2>1, <2>2
<1>4. Wrap(i + Len(c) + Len(p), s) \in Nat /\ i + Len(t) = i + Len(c) + Len(p) /\ Len(t) <= s
  BY <1>1, <1>2 DEF Wrap
<1>5. Holds(b2, s, i, Wrap(i + Len(c) + Len(p), s), t)
  BY <1>1, <1>2, <1>3, <1>4 DEF Holds
<1> QED
  BY <1>5 DEF t

\* A write that does not reach the end of the buffer, or begins before r.
LEMMA PutOnce ==
    ASSUME NEW b, NEW s, NEW i, NEW j, NEW c, Holds(b, s, i, j, c),
           NEW p \in Seq(Byte), Len(p) # 0, Len(c) + Len(p) <= s,
           ~(j >= i /\ s - j < Len(p)),
           NEW b2 \in [0..(s - 1) -> Byte],
           \A x \in 0..(s - 1) : j <= x /\ x < j + Len(p) => b2[x] = p[x - j + 1],
           \A x \in 0..(s - 1) : ~(j <= x /\ x < j + Len(p)) => b2[x] = b[x]
    PROVE  Holds(b2, s, i, IF j + Len(p) = s THEN 0 ELSE j + Len(p), c \o p)
<1>1. /\ s \in Nat \ {0} /\ i \in 0..(s - 1) /\ c \in Seq(Byte) /\ Len(c) \in Nat /\ Len(p) \in Nat
      /\ j = Wrap(i + Len(c), s)
  BY DEF Holds
<1>2. \A k \in 1..Len(c) : b2[Wrap(i + k - 1, s)] = b[Wrap(i + k - 1, s)]
  <2> TAKE k \in 1..Len(c)
  <2> DEFINE x == Wrap(i + k - 1, s)
  <2>1. x \in 0..(s - 1) /\ ~(j <= x /\ x < j + Len(p))
    BY <1>1 DEF Wrap
  <2> QED
    BY <2>1
<1>3. \A k \in 1..Len(p) : b2[Wrap(i + Len(c) + k - 1, s)] = p[k]
  <2> TAKE k \in 1..Len(p)
  <2> DEFINE x == Wrap(i + Len(c) + k - 1, s)
  <2>1. x \in 0..(s - 1) /\ j <= x /\ x < j + Len(p) /\ x - j + 1 = k
    BY <1>1 DEF Wrap
  <2> QED
    BY <2>1
<1> DEFINE n == Len(p)
           l == Len(c)
<1>4. Wrap(i + l + n, s) = IF j + n = s THEN 0 ELSE j + n
  <2>1. /\ l + n <= s /\ n # 0 /\ n \in Nat /\ l \in Nat
        /\ ~(j >= i /\ s - j < n) /\ j = Wrap(i + l, s)
    BY <1>1
  <2>2. s \in Nat \ {0} /\ i \in 0..(s - 1)
    BY <1>1
  <2> HIDE DEF n, l
  <2>3. CASE i + l < s
    <3>1. j = i + l /\ j + n <= s
      BY <2>1, <2>2, <2>3 DEF Wrap
    <3> QED
      BY <2>1, <2>2, <3>1 DEF Wrap
  <2>4. CASE ~(i + l < s)
    <3>1. j = i + l - s /\ j + n < s /\ i + l + n >= s
      BY <2>1, <2>2, <2>4 DEF Wrap
    <3> QED
      BY <2>1, <2>2, <3>1 DEF Wrap
  <2> QED
    BY <2>3, <2>4
<1>5. Holds(b2, s, i, Wrap(i + l + n, s), c \o p)
  BY <1>2, <1>3, PutHolds
<1> QED
  BY <1>4, <1>5

\* The same for the two ways in which the code writes in one part.
LEMMA PutCopy ==
    ASSUME NEW b, NEW s, NEW i, NEW j, NEW c, Holds(b, s, i, j, c),
           NEW p \in Seq(Byte), Len(p) # 0, Len(c) + Len(p) <= s,
           ~(j >= i /\ s - j < Len(p))
    PROVE  Holds(Copy(b, j, p), s, i, IF j + Len(p) = s THEN 0 ELSE j + Len(p), c \o p)
<1> DEFINE b2 == Copy(b, j, p)
<1>1. s \in Nat /\ b \in [0..(s - 1) -> Byte] /\ j \in Nat /\ p \in Seq(Byte)
  BY DEF Holds
<1>2. /\ b2 \in [0..(s - 1) -> Byte]
      /\ \A x \in 0..(s - 1) : j <= x /\ x < j + Len(p) => b2[x] = p[x - j + 1]
      /\ \A x \in 0..(s - 1) : ~(j <= x /\ x < j + Len(p)) => b2[x] = b[x]
  BY <1>1, CopyIsBuf, Zenon
<1> HIDE DEF b2
<1>3. Holds(b2, s, i, IF j + Len(p) = s THEN 0 ELSE j + Len(p), c \o p)
  BY <1>2, PutOnce
<1> QED
  BY <1>3 DEF b2

LEMMA PutByte ==
    ASSUME NEW b, NEW s, NEW i, NEW j, NEW c, Holds(b, s, i, j, c),
           NEW x \in Byte, Len(c) + 1 <= s
    PROVE  Holds([b EXCEPT ![j] = x], s, i, IF j + 1 = s THEN 0 ELSE j + 1, c \o <<x>>)
<1> DEFINE p == <<x>>
           b2 == [b EXCEPT ![j] = x]
<1>1. p \in Seq(Byte) /\ Len(p) = 1 /\ p[1] = x
  OBVIOUS
<1>2. /\ s \in Nat \ {0} /\ i \in 0..(s - 1) /\ Len(c) \in Nat
      /\ j \in 0..(s - 1) /\ b \in [0..(s - 1) -> Byte]
  BY DEF Holds, Wrap
<1>3. /\ b2 \in [0..(s - 1) -> Byte] /\ b2[j] = x
      /\ \A y \in 0..(s - 1) : y # j => b2[y] = b[y]
  BY <1>2
<1> HIDE DEF p, b2
<1>4. /\ \A y \in 0..(s - 1) : j <= y /\ y < j + Len(p) => b2[y] = p[y - j + 1]
      /\ \A y \in 0..(s - 1) : ~(j <= y /\ y < j + Len(p)) => b2[y] = b[y]
  BY <1>1, <1>2, <1>3
<1>5. Len(p) # 0 /\ Len(c) + Len(p) <= s /\ ~(j >= i /\ s - j < Len(p))
  BY <1>1, <1>2
<1>6. Holds(b2, s, i, IF j + Len(p) = s THEN 0 ELSE j + Len(p), c \o p)
  BY <1>1, <1>3, <1>4, <1>5, PutOnce
<1> QED
  BY <1>1, <1>6 DEF p, b2

\* A write in two parts, the second one at the beginning of the buffer.
LEMMA PutTwice ==
    ASSUME NEW b, NEW s, NEW i, NEW j, NEW c, Holds(b, s, i, j, c),
           NEW p \in Seq(Byte), Len(p) # 0, Len(c) + Len(p) <= s,
           j >= i, s - j < Len(p)
    PROVE  LET c1 == s - j
               n == Len(p)
           IN  Holds(Copy(Copy(b, j, SubSeq(p, 1, c1)), 0, SubSeq(p, c1 + 1, n)), s, i,
                     IF n - c1 = s THEN 0 ELSE n - c1, c \o p)
<1> DEFINE c1 == s - j
           n == Len(p)
           f == SubSeq(p, 1, c1)
           g == SubSeq(p, c1 + 1, n)
           b1 == Copy(b, j, f)
           b2 == Copy(b1, 0, g)
<1>1. /\ s \in Nat \ {0} /\ i \in 0..(s - 1) /\ c \in Seq(Byte) /\ Len(c) \in Nat /\ n \in Nat
      /\ j = Wrap(i + Len(c), s) /\ b \in [0..(s - 1) -> Byte] /\ j \in Nat
  BY DEF Holds
<1>2. /\ j = i + Len(c) /\ j < s /\ c1 \in 1..n /\ n - c1 <= i /\ n - c1 \in Nat /\ s = j + c1
  BY <1>1 DEF Wrap
<1> HIDE DEF c1, n
<1>3. f \in Seq(Byte) /\ Len(f) = c1 /\ \A k \in 1..c1 : f[k] = p[k]
  <2>1. \A k \in 1..c1 : p[k] \in Byte
    <3>1. \A k \in 1..c1 : k \in 1..Len(p)
      BY <1>1, <1>2 DEF n
    <3> QED
      BY <3>1, ElementOfSeq
  <2>2. /\ f \in Seq(Byte) /\ Len(f) = IF 1 <= c1 THEN c1 - 1 + 1 ELSE 0
        /\ \A k \in 1..(c1 - 1 + 1) : f[k] = p[1 + k - 1]
    <3>1. 1 \in Int /\ c1 \in Int
      BY <1>1, <1>2
    <3> QED
      BY <2>1, <3>1, SubSeqProperties
  <2>3. c1 - 1 + 1 = c1 /\ \A k \in 1..c1 : 1 + k - 1 = k
    BY <1>1, <1>2
  <2> HIDE DEF f
  <2> QED
    BY <1>1, <1>2, <2>2, <2>3
<1>4. g \in Seq(Byte) /\ Len(g) = n - c1 /\ \A k \in 1..(n - c1) : g[k] = p[c1 + k]
  <2>1. \A k \in (c1 + 1)..n : p[k] \in Byte
    <3>1. \A k \in (c1 + 1)..n : k \in 1..Len(p)
      BY <1>1, <1>2 DEF n
    <3> QED
      BY <3>1, ElementOfSeq
  <2>2. /\ g \in Seq(Byte) /\ Len(g) = IF c1 + 1 <= n THEN n - (c1 + 1) + 1 ELSE 0
        /\ \A k \in 1..(n - (c1 + 1) + 1) : g[k] = p[c1 + 1 + k - 1]
    <3>1. c1 + 1 \in Int /\ n \in Int
      BY <1>1, <1>2
    <3> QED
      BY <2>1, <3>1, SubSeqProperties
  <2>3. n - (c1 + 1) + 1 = n - c1 /\ \A k \in 1..(n - c1) : c1 + 1 + k - 1 = c1 + k
    BY <1>1, <1>2
  <2> HIDE DEF g
  <2> QED
    BY <1>1, <1>2, <2>2, <2>3
<1> HIDE DEF f, g
<1>5. /\ b1 \in [0..(s - 1) -> Byte]
      /\ \A x \in 0..(s - 1) : j <= x /\ x < j + Len(f) => b1[x] = f[x - j + 1]
      /\ \A x \in 0..(s - 1) : ~(j <= x /\ x < j + Len(f)) => b1[x] = b[x]
  <2>1. s \in Nat /\ b \in [0..(s - 1) -> Byte] /\ j \in Nat /\ f \in Seq(Byte)
    BY <1>1, <1>3
  <2> QED
    BY <2>1, CopyIsBuf, Zenon
<1> HIDE DEF b1
<1>6. /\ b2 \in [0..(s - 1) -> Byte]
      /\ \A x \in 0..(s - 1) : 0 <= x /\ x < 0 + Len(g) => b2[x] = g[x - 0 + 1]
      /\ \A x \in 0..(s - 1) : ~(0 <= x /\ x < 0 + Len(g)) => b2[x] = b1[x]
  <2>1. s \in Nat /\ b1 \in [0..(s - 1) -> Byte] /\ 0 \in Nat /\ g \in Seq(Byte)
    BY <1>1, <1>4, <1>5
  <2> QED
    BY <2>1, CopyIsBuf, Zenon
<1> HIDE DEF b2
<1>7. \A k \in 1..Len(c) : b2[Wrap(i + k - 1, s)] = b[Wrap(i + k - 1, s)]
  <2> TAKE k \in 1..Len(c)
  <2> DEFINE x == Wrap(i + k - 1, s)
  <2>1. x \in 0..(s - 1) /\ ~(j <= x /\ x < j + Len(f)) /\ ~(0 <= x /\ x < 0 + Len(g))
    BY <1>1, <1>2, <1>3, <1>4 DEF Wrap
  <2> QED
    BY <1>5, <1>6, <2>1
<1>8. \A k \in 1..n : b2[Wrap(i + Len(c) + k - 1, s)] = p[k]
  <2> TAKE k \in 1..n
  <2> DEFINE x == Wrap(i + Len(c) + k - 1, s)
  <2>1. CASE k <= c1
    <3>1. /\ x \in 0..(s - 1) /\ j <= x /\ x < j + Len(f) /\ x - j + 1 = k /\ k \in 1..c1
          /\ ~(0 <= x /\ x < 0 + Len(g))
      BY <1>1, <1>2, <1>3, <1>4, <2>1 DEF Wrap
    <3> QED
      BY <1>3, <1>5, <1>6, <3>1
  <2>2. CASE k > c1
    <3>1. /\ x \in 0..(s - 1) /\ 0 <= x /\ x < 0 + Len(g) /\ x - 0 + 1 = k - c1
          /\ k - c1 \in 1..(n - c1) /\ c1 + (k - c1) = k
      BY <1>1, <1>2, <1>3, <1>4, <2>2 DEF Wrap
    <3> QED
      BY <1>4, <1>6, <3>1
  <2> QED
    BY <1>1, <1>2, <2>1, <2>2
<1>9. Wrap(i + Len(c) + n, s) = IF n - c1 = s THEN 0 ELSE n - c1
  BY <1>1, <1>2 DEF Wrap
<1>10. Holds(b2, s, i, Wrap(i + Len(c) + n, s), c \o p)
  BY <1>6, <1>7, <1>8, PutHolds DEF n
<1> QED
  BY <1>9, <1>10 DEF b2, b1, f, g, c1, n

LEMMA PutInv ==
    ASSUME Inv, Holds(buf', size', r', w', content'), PowerOfTwo(size'),
           isEmpty' = FALSE, Len(content') # 0
    PROVE  Inv'
BY DEF Inv

LEMMA WriteStep ==
    ASSUME Inv, NEW p \in Seq(Byte), Write(p)
    PROVE  Inv'
<1> DEFINE n == Len(p)
           b == Prepared(n)
           c1 == b.size - b.w
<1>1. n \in Nat \ {0} /\ content \in Seq(Byte) /\ Len(content) \in Nat
  BY DEF Write, Inv, Holds
<1>2. /\ Holds(b.buf, b.size, b.r, b.w, content) /\ Len(content) + n <= b.size
      /\ PowerOfTwo(b.size)
  BY <1>1, PreparedHolds
<1>3. size' = b.size /\ r' = b.r /\ isEmpty' = FALSE /\ content' = content \o p
  BY DEF Write
<1>4. IF b.w >= b.r /\ c1 < n
      THEN /\ buf' = Copy(Copy(b.buf, b.w, SubSeq(p, 1, c1)), 0, SubSeq(p, c1 + 1, n))
           /\ w' = IF n - c1 = b.size THEN 0 ELSE n - c1
      ELSE /\ buf' = Copy(b.buf, b.w, p)
           /\ w' = IF b.w + n = b.size THEN 0 ELSE b.w + n
  BY DEF Write
<1> HIDE DEF b
<1>5. Len(content') # 0
  BY <1>1, <1>3, ConcatProperties
<1>6. CASE b.w >= b.r /\ c1 < n
  <2>1. Holds(buf', b.size, b.r, w', content \o p)
    BY <1>1, <1>2, <1>4, <1>6, PutTwice
  <2> QED
    BY <1>2, <1>3, <1>5, <2>1, PutInv
<1>7. CASE ~(b.w >= b.r /\ c1 < n)
  <2>1. buf' = Copy(b.buf, b.w, p) /\ w' = IF b.w + n = b.size THEN 0 ELSE b.w + n
    BY <1>4, <1>7
  <2>2. Holds(Copy(b.buf, b.w, p), b.size, b.r, IF b.w + n = b.size THEN 0 ELSE b.w + n, content \o p)
    BY <1>1, <1>2, <1>7, PutCopy
  <2>3. Holds(buf', b.size, b.r, w', content \o p)
    BY <2>1, <2>2
  <2> QED
    BY <1>2, <1>3, <1>5, <2>3, PutInv
<1> QED
  BY <1>6, <1>7

LEMMA WriteByteStep ==
    ASSUME Inv, NEW c \in Byte, WriteByte(c)
    PROVE  Inv'
<1> DEFINE b == Prepared(1)
           p == <<c>>
<1>1. content \in Seq(Byte) /\ Len(content) \in Nat
  BY DEF Inv, Holds
<1>2. p \in Seq(Byte) /\ Len(p) = 1 /\ p[1] = c
  OBVIOUS
<1>3. /\ Holds(b.buf, b.size, b.r, b.w, content) /\ Len(content) + 1 <= b.size
      /\ PowerOfTwo(b.size)
  BY PreparedHolds
<1>4. /\ size' = b.size /\ r' = b.r /\ isEmpty' = FALSE /\ content' = Append(content, c)
      /\ buf' = [b.buf EXCEPT ![b.w] = c] /\ w' = IF b.w + 1 = b.size THEN 0 ELSE b.w + 1
  BY DEF WriteByte
<1>5. content' = content \o p
  BY <1>1, <1>4, AppendIsConcat
<1> HIDE DEF b, p
<1>6. Len(content') # 0
  BY <1>1, <1>2, <1>5, ConcatProperties
<1>7. Holds([b.buf EXCEPT ![b.w] = c], b.size, b.r, IF b.w + 1 = b.size THEN 0 ELSE b.w + 1, content \o <<c>>)
  BY <1>3, PutByte
<1>8. Holds(buf', b.size, b.r, w', content \o p)
  BY <1>4, <1>7 DEF p
<1> QED
  BY <1>3, <1>4, <1>5, <1>6, <1>8, PutInv

(***************************************************************************)
(* The theorems                                                            *)
(***************************************************************************)

LEMMA InitInv == Init => Inv
<1> SUFFICES ASSUME Init PROVE Inv
  OBVIOUS
<1>1. size \in Nat /\ (size = 0 \/ PowerOfTwo(size))
  BY BufferAssumption, CeilIsPower DEF Init
<1>2. buf \in [0..(size - 1) -> Byte]
  BY <1>1, ZerosIsBuf DEF Init
<1>3. content \in Seq(Byte) /\ Len(content) = 0 /\ 1..Len(content) = {}
  BY EmptySeq DEF Init
<1>4. size > 0 => Wrap(0 + Len(content), size) = 0
  BY <1>3 DEF Wrap
<1>5. Len(content) <= size
  BY <1>1, <1>3
<1>6. Holds(buf, size, r, w, content)
  BY <1>1, <1>2, <1>3, <1>4, <1>5 DEF Init, Holds
<1> QED
  BY <1>1, <1>3, <1>6 DEF Init, Inv

LEMMA NextInv ==
    ASSUME Inv, Next
    PROVE  Inv' /\ (got' # << >> => content = got' \o content')
<1>1. ASSUME NEW n \in 1..(MaxLength + 1), Shift(n) PROVE Inv' /\ got' = << >>
  <2>1. n \in Nat \ {0}
    BY BufferAssumption
  <2> QED
    BY <1>1, <2>1, ShiftStep DEF Shift
<1>2. ASSUME NEW n \in 1..(MaxLength + 1), Read(n) PROVE Inv' /\ content = got' \o content'
  <2>1. n \in Nat \ {0}
    BY BufferAssumption
  <2> QED
    BY <1>2, <2>1, ReadStep
<1>3. CASE ReadByte
  BY <1>3, ReadByteStep
<1>4. CASE ResetBuffer
  BY <1>4, ResetStep DEF ResetBuffer
<1>5. ASSUME NEW n \in 1..MaxWrite, NEW p \in [1..n -> Byte], Write(p) PROVE Inv' /\ got' = << >>
  <2>1. p \in Seq(Byte)
    BY BufferAssumption
  <2> QED
    BY <1>5, <2>1, WriteStep DEF Write
<1>6. ASSUME NEW c \in Byte, WriteByte(c) PROVE Inv' /\ got' = << >>
  BY <1>6, WriteByteStep DEF WriteByte
<1> QED
  BY <1>1, <1>2, <1>3, <1>4, <1>5, <1>6 DEF Next

LEMMA StutterInv ==
    ASSUME Inv, UNCHANGED vars
    PROVE  Inv'
BY DEF Inv, vars, Holds

LEMMA Invariance == Spec => []Inv
<1>1. Inv /\ [Next]_vars => Inv'
  BY NextInv, StutterInv
<1> QED
  BY <1>1, InitInv, PTL DEF Spec

\* The size always is a power of two or 0, although Reset halves and malloc
\* grows it, and the positions lie in the buffer.
THEOREM TypeCorrect == Spec => []TypeOK
<1>1. Inv => TypeOK
  BY InvContent
<1> QED
  BY <1>1, Invariance, PTL

\* LazyReadAll, LazyRead, Length and Free tell of exactly the bytes that were
\* written and not yet consumed, for every size and every wrap-around.
THEOREM ContentIsKept == Spec => []ContentKept
<1>1. Inv => ContentKept
  BY InvContent
<1> QED
  BY <1>1, Invariance, PTL

\* Read and ReadByte return the front of the content and remove just that.
THEOREM ReadsFront == Spec => ReadReturnsFront
<1>1. Inv /\ [Next]_vars => [got' # << >> => content = got' \o content']_vars
  BY NextInv
<1> QED
  BY <1>1, Invariance, PTL DEF Spec, ReadReturnsFront
=============================================================================
