-------------------------- MODULE TimerWheelProofs ---------------------------
(***************************************************************************)
(* Proofs about the timer wheel, for any width of the buckets, any size of *)
(* the wheels, any start time, any delays and any number of timers.        *)
(***************************************************************************)
EXTENDS TimerWheel, SequenceTheorems, WellFoundedInduction, TLAPS

(***************************************************************************)
(* Least and greatest elements                                             *)
(***************************************************************************)

LEMMA LeastElement ==
    ASSUME NEW T \in SUBSET Nat, T # {}
    PROVE  \E x \in T : \A y \in T : x <= y
<1>1. IsWellFoundedOn(OpToRel(<, Nat), Nat)
  BY NatLessThanWellFounded
<1>2. PICK x \in T : \A y \in T : ~ (<<y, x>> \in OpToRel(<, Nat))
  BY <1>1, WFMin, Zenon
<1>3. \A y \in T : ~(y < x)
  BY <1>2 DEF OpToRel
<1> QED
  BY <1>3

LEMMA MinIsLeast ==
    ASSUME NEW T \in SUBSET Nat, T # {}
    PROVE  Min(T) \in T /\ \A y \in T : Min(T) <= y
BY LeastElement DEF Min

LEMMA MaxIsGreatest ==
    ASSUME NEW T \in SUBSET Nat, T # {}, NEW e \in Nat, \A y \in T : y <= e
    PROVE  Max(T) \in T /\ \A y \in T : Max(T) >= y
<1> DEFINE U == {e - y : y \in T}
<1>1. U \in SUBSET Nat /\ U # {}
  <2>1. \A y \in T : e - y \in Nat
    OBVIOUS
  <2>2. PICK y \in T : TRUE
    OBVIOUS
  <2>3. e - y \in U
    OBVIOUS
  <2> QED
    BY <2>1, <2>3
<1>2. PICK x \in U : \A y \in U : x <= y
  BY <1>1, LeastElement
<1>3. PICK z \in T : x = e - z
  BY <1>2
<1>4. \A y \in T : z >= y
  <2> TAKE y \in T
  <2>1. e - y \in U /\ x <= e - y /\ y \in Nat /\ z \in Nat
    BY <1>2
  <2> QED
    BY <1>3, <2>1
<1>5. \E m \in T : \A y \in T : m >= y
  BY <1>4
<1> QED
  BY <1>5, Zenon DEF Max

(***************************************************************************)
(* Multiples                                                               *)
(***************************************************************************)

LEMMA Quotient ==
    ASSUME NEW n \in Nat, NEW d \in Nat \ {0}
    PROVE  /\ n \div d \in Nat /\ (n \div d) * d <= n
           /\ n % d = 0 => n = (n \div d) * d
OBVIOUS

LEMMA MultipleMod ==
    ASSUME NEW n \in Nat, NEW d \in Nat \ {0}
    PROVE  (n * d) % d = 0
OBVIOUS

\* The sum of two multiples.
LEMMA SumOfMultiples ==
    ASSUME NEW m \in Nat, NEW d \in Nat \ {0}, m % d = 0, NEW k \in Nat
    PROVE  (m + k * d) % d = 0
<1> DEFINE q == m \div d
<1>1. q \in Nat /\ m = q * d
  BY Quotient
<1> HIDE DEF q
<1>2. m + k * d = (q + k) * d
  BY <1>1
<1>3. ((q + k) * d) % d = 0
  BY <1>1, MultipleMod
<1> QED
  BY <1>2, <1>3

\* A wheel begins at the beginning of a bucket.
LEMMA WheelIsBucket ==
    ASSUME NEW m \in Nat, m % Interval = 0
    PROVE  m % TickMs = 0
<1>1. TickMs \in Nat \ {0} /\ WheelSize \in Nat \ {0}
  BY WheelAssumption
<1>2. Interval \in Nat \ {0} /\ Interval = TickMs * WheelSize
  BY <1>1 DEF Interval
<1> DEFINE q == m \div Interval
<1>3. q \in Nat /\ m = q * Interval
  BY <1>2, Quotient
<1> HIDE DEF q
<1>4. m = (q * WheelSize) * TickMs /\ q * WheelSize \in Nat
  BY <1>1, <1>2, <1>3
<1> QED
  BY <1>1, <1>4, MultipleMod

LEMMA IntervalPositive == Interval \in Nat \ {0} /\ TickMs \in Nat \ {0}
<1>1. TickMs \in Nat \ {0} /\ WheelSize \in Nat \ {0}
  BY WheelAssumption
<1> QED
  BY <1>1 DEF Interval

LEMMA PriorityIsEarlier ==
    ASSUME NEW b \in Nat
    PROVE  Priority(b) \in Nat /\ Priority(b) <= b
<1> DEFINE q == b \div TickMs
<1>1. q \in Nat /\ q * TickMs <= b /\ TickMs \in Nat
  BY IntervalPositive, Quotient
<1> HIDE DEF q
<1>2. q * TickMs \in Nat
  BY <1>1
<1> QED
  BY <1>1, <1>2 DEF Priority, q

(***************************************************************************)
(* Lists of timers                                                         *)
(***************************************************************************)

Listed(t, s) == \E i \in DOMAIN s : s[i] = t

\* Bucket.Add.
LEMMA AppendLists ==
    ASSUME NEW S, NEW s \in Seq(S), NEW t \in S
    PROVE  /\ Append(s, t) \in Seq(S) /\ Listed(t, Append(s, t))
           /\ \A x : Listed(x, s) => Listed(x, Append(s, t))
<1>1. /\ Append(s, t) \in Seq(S) /\ Len(s) \in Nat /\ DOMAIN s = 1..Len(s)
      /\ DOMAIN Append(s, t) = 1..(Len(s) + 1) /\ Append(s, t)[Len(s) + 1] = t
      /\ \A i \in 1..Len(s) : Append(s, t)[i] = s[i]
  BY AppendProperties, LenProperties
<1>2. Len(s) + 1 \in 1..(Len(s) + 1) /\ \A i \in 1..Len(s) : i \in 1..(Len(s) + 1)
  BY <1>1
<1> HIDE DEF Listed
<1>3. Listed(t, Append(s, t))
  BY <1>1, <1>2 DEF Listed
<1>4. ASSUME NEW x, Listed(x, s) PROVE Listed(x, Append(s, t))
  BY <1>1, <1>2, <1>4 DEF Listed
<1> QED
  BY <1>1, <1>3, <1>4

\* The tick goes on to the next timer.
LEMMA TailLists ==
    ASSUME NEW S, NEW s \in Seq(S), s # << >>
    PROVE  /\ Head(s) \in S /\ Tail(s) \in Seq(S) /\ Listed(Head(s), s)
           /\ \A x : Listed(x, s) => x = Head(s) \/ Listed(x, Tail(s))
<1>1. /\ Head(s) \in S /\ Tail(s) \in Seq(S) /\ Len(s) \in Nat \ {0} /\ Head(s) = s[1]
      /\ DOMAIN s = 1..Len(s) /\ DOMAIN Tail(s) = 1..(Len(s) - 1)
      /\ \A i \in 1..(Len(s) - 1) : Tail(s)[i] = s[i + 1]
  BY HeadTailProperties, LenProperties, EmptySeq
<1>2. ASSUME NEW x, Listed(x, s) PROVE x = Head(s) \/ Listed(x, Tail(s))
  <2>1. PICK i \in 1..Len(s) : s[i] = x
    BY <1>1, <1>2 DEF Listed
  <2>2. CASE i = 1
    BY <1>1, <2>1, <2>2
  <2>3. CASE i # 1
    <3>1. i - 1 \in 1..(Len(s) - 1) /\ (i - 1) + 1 = i
      BY <1>1, <2>1, <2>3
    <3>2. Tail(s)[i - 1] = x
      BY <1>1, <2>1, <3>1
    <3> QED
      BY <1>1, <3>1, <3>2 DEF Listed
  <2> QED
    BY <2>2, <2>3
<1>3. Listed(Head(s), s)
  BY <1>1 DEF Listed
<1> QED
  BY <1>1, <1>2, <1>3

\* Bucket.remove takes out one element of the list.
LEMMA RemoveLists ==
    ASSUME NEW S, NEW s \in Seq(S), NEW i \in 1..Len(s)
    PROVE  /\ RemoveAt(s, i) \in Seq(S)
           /\ \A x : x # s[i] /\ Listed(x, s) => Listed(x, RemoveAt(s, i))
<1> DEFINE n == Len(s)
           f == SubSeq(s, 1, i - 1)
           g == SubSeq(s, i + 1, n)
<1>1. n \in Nat /\ DOMAIN s = 1..n /\ i \in 1..n /\ \A k \in 1..n : s[k] \in S
  BY LenProperties
<1>2. f \in Seq(S) /\ Len(f) = i - 1 /\ \A k \in 1..(i - 1) : f[k] = s[k]
  <2>1. 1 \in Int /\ i - 1 \in Int /\ \A k \in 1..(i - 1) : s[k] \in S
    BY <1>1
  <2>2. /\ f \in Seq(S) /\ Len(f) = IF 1 <= i - 1 THEN (i - 1) - 1 + 1 ELSE 0
        /\ \A k \in 1..((i - 1) - 1 + 1) : f[k] = s[1 + k - 1]
    BY <2>1, SubSeqProperties
  <2> HIDE DEF f
  <2>3. (i - 1) - 1 + 1 = i - 1 /\ \A k \in 1..(i - 1) : 1 + k - 1 = k
    BY <1>1
  <2> QED
    BY <1>1, <2>2, <2>3
<1>3. g \in Seq(S) /\ Len(g) = n - i /\ \A k \in 1..(n - i) : g[k] = s[i + k]
  <2>1. i + 1 \in Int /\ n \in Int /\ \A k \in (i + 1)..n : s[k] \in S
    BY <1>1
  <2>2. /\ g \in Seq(S) /\ Len(g) = IF i + 1 <= n THEN n - (i + 1) + 1 ELSE 0
        /\ \A k \in 1..(n - (i + 1) + 1) : g[k] = s[i + 1 + k - 1]
    BY <2>1, SubSeqProperties
  <2> HIDE DEF g, n
  <2>3. n - (i + 1) + 1 = n - i /\ \A k \in 1..(n - i) : i + 1 + k - 1 = i + k
    BY <1>1
  <2> QED
    BY <1>1, <2>2, <2>3
<1> HIDE DEF f, g, n
<1>4. /\ f \o g \in Seq(S) /\ DOMAIN (f \o g) = 1..(n - 1)
      /\ \A k \in 1..(n - 1) : (f \o g)[k] = IF k <= i - 1 THEN f[k] ELSE g[k - (i - 1)]
  <2>1. Len(f) + Len(g) = n - 1
    BY <1>1, <1>2, <1>3
  <2>2. /\ f \o g \in Seq(S) /\ Len(f \o g) = n - 1
        /\ \A k \in 1..(n - 1) : (f \o g)[k] = IF k <= Len(f) THEN f[k] ELSE g[k - Len(f)]
    BY <1>2, <1>3, <2>1, ConcatProperties
  <2> QED
    BY <1>2, <2>2, LenProperties
<1>5. ASSUME NEW x, x # s[i], Listed(x, s) PROVE Listed(x, f \o g)
  <2>1. PICK k \in 1..n : s[k] = x
    BY <1>1, <1>5 DEF Listed
  <2>2. CASE k < i
    <3>1. k \in 1..(n - 1) /\ k <= i - 1 /\ k \in 1..(i - 1)
      BY <1>1, <2>1, <2>2
    <3> QED
      BY <1>2, <1>4, <2>1, <3>1 DEF Listed
  <2>3. CASE k > i
    <3>1. k - 1 \in 1..(n - 1) /\ ~(k - 1 <= i - 1) /\ (k - 1) - (i - 1) = k - i /\ k - i \in 1..(n - i) /\ i + (k - i) = k
      BY <1>1, <2>1, <2>3
    <3>2. (f \o g)[k - 1] = x
      BY <1>3, <1>4, <2>1, <3>1
    <3> QED
      BY <1>4, <3>1, <3>2 DEF Listed
  <2> QED
    BY <1>1, <1>5, <2>1, <2>2, <2>3
<1> QED
  BY <1>4, <1>5 DEF RemoveAt, f, g, n

\* Timer.Stop finds the element.
LEMMA LastIndex ==
    ASSUME NEW S, NEW s \in Seq(S), NEW t, Listed(t, s)
    PROVE  LET i == SelectLastInSeq(s, LAMBDA x : x = t) IN i \in 1..Len(s) /\ s[i] = t
<1> DEFINE I == {i \in 1..Len(s) : s[i] = t}
<1>1. Len(s) \in Nat /\ DOMAIN s = 1..Len(s)
  BY LenProperties
<1>2. I \in SUBSET Nat /\ I # {} /\ \A i \in I : i <= Len(s)
  BY <1>1 DEF Listed
<1>3. Max(I) \in I
  BY <1>1, <1>2, MaxIsGreatest
<1>4. SelectLastInSeq(s, LAMBDA x : x = t) = Max(I)
  BY <1>2 DEF SelectLastInSeq
<1> QED
  BY <1>3, <1>4

(***************************************************************************)
(* The inductive invariant                                                 *)
(***************************************************************************)

Timers == 1..Len(expiration)

ClockInv == now \in Start..Horizon /\ last \in Start..now

WheelInv ==
    /\ wheels \in SUBSET Nat /\ {Start, current} \subseteq wheels
    /\ \A s \in wheels : s >= Start /\ (s - Start) % Interval = 0

BucketInv ==
    /\ DOMAIN bucket \subseteq Nat
    /\ queue \subseteq DOMAIN bucket /\ expired \subseteq DOMAIN bucket
    /\ \A b \in DOMAIN bucket : (b - Start) % TickMs = 0 /\ bucket[b] \in Seq(Timers)

TimerInv ==
    /\ expiration \in Seq(Nat)
    /\ repeat \in Seq(Nat) /\ Len(repeat) = Len(expiration)
    /\ addedAt \in Seq(Nat) /\ Len(addedAt) = Len(expiration)
    /\ fired \in Seq(Nat) /\ Len(fired) = Len(expiration)
    /\ DOMAIN bucketOf = Timers
    /\ \A t \in Timers : bucketOf[t] \in DOMAIN bucket \cup {nil}
    /\ timerMap \subseteq Timers /\ cancelled \subseteq Timers

TickInv ==
    /\ phase \in {"idle", "fire", "callback"}
    /\ firing \in Seq(Timers)
    /\ phase = "idle" => expired = {} /\ firing = << >>
    /\ phase = "callback" => firing # << >>

\* A live timer is listed, and the tick will come to it.
ListInv ==
    \A t \in Timers : bucketOf[t] # nil =>
        /\ Listed(t, bucket[bucketOf[t]])
        /\ bucketOf[t] \in queue \/ bucketOf[t] \in expired \/ Listed(t, firing)

GoneInv == \A t \in cancelled : bucketOf[t] = nil

\* A timer without interval whose callback has run is stopped as soon as the
\* callback returns.
OnceInv ==
    \A t \in Timers : repeat[t] = 0 =>
        /\ fired[t] <= 1
        /\ bucketOf[t] # nil /\ ~(phase = "callback" /\ t = Head(firing)) => fired[t] = 0

\* A timer without interval lies in a bucket that is not later than its time, and
\* once a tick has begun at this time, the tick still has to look at it.
DueInv ==
    \A t \in Timers : repeat[t] = 0 /\ bucketOf[t] # nil =>
        /\ bucketOf[t] <= expiration[t]
        /\ expiration[t] <= last /\ addedAt[t] < last
              => bucketOf[t] \in expired \/ Listed(t, firing)

Inv ==
    /\ ClockInv /\ WheelInv /\ BucketInv /\ TimerInv /\ TickInv
    /\ ListInv /\ GoneInv /\ OnceInv /\ DueInv

(***************************************************************************)
(* Adding to and removing from the wheels                                  *)
(***************************************************************************)

\* the wheel and the bucket that add, starting at wheel w, finds for time e
AtWheel(w, e) == Max({s \in wheels : w <= s /\ s <= e})
InWheel(w, e) == IF e < AtWheel(w, e) + Interval THEN AtWheel(w, e) ELSE Truncate(AtWheel(w, e), e)
BucketAt(w, e) == InWheel(w, e) + ((e - InWheel(w, e)) \div TickMs) * TickMs

LEMMA WheelFound ==
    ASSUME WheelInv, NEW w \in wheels, NEW e \in Nat, w <= e
    PROVE  /\ InWheel(w, e) \in Nat /\ Start <= InWheel(w, e) /\ InWheel(w, e) <= e
           /\ (InWheel(w, e) - Start) % Interval = 0
<1> DEFINE T == {s \in wheels : w <= s /\ s <= e}
           a == AtWheel(w, e)
           k == (e - a) \div Interval
<1>1. w \in Nat /\ Start \in Nat /\ Interval \in Nat \ {0}
  BY WheelAssumption, IntervalPositive DEF WheelInv
<1>2. T \in SUBSET Nat /\ T # {} /\ \A s \in T : s <= e
  <2>1. w \in T
    BY <1>1
  <2> QED
    BY <2>1 DEF WheelInv
<1>3. a \in T
  BY <1>2, MaxIsGreatest DEF AtWheel
<1>4. a \in Nat /\ Start <= a /\ a <= e /\ (a - Start) % Interval = 0
  BY <1>3 DEF WheelInv
<1> HIDE DEF a
<1>5. e - a \in Nat /\ a - Start \in Nat
  BY <1>1, <1>4
<1>6. k \in Nat /\ k * Interval <= e - a
  BY <1>1, <1>5, Quotient
<1> HIDE DEF k
<1>7. k * Interval \in Nat
  BY <1>1, <1>6
<1>8. ((a - Start) + k * Interval) % Interval = 0
  BY <1>1, <1>4, <1>5, <1>6, SumOfMultiples
<1> DEFINE m == k * Interval
<1>9. m \in Nat /\ m <= e - a /\ ((a - Start) + m) % Interval = 0
  BY <1>6, <1>7, <1>8
<1>10. Truncate(a, e) = a + m
  BY DEF Truncate, k
<1> HIDE DEF m
<1> DEFINE z == a + m
<1>11. InWheel(w, e) = a \/ InWheel(w, e) = z
  BY <1>10 DEF InWheel, a
<1>12. z \in Nat /\ Start <= z /\ z <= e /\ z - Start = (a - Start) + m
  BY <1>1, <1>4, <1>9
<1> HIDE DEF z
<1>13. (z - Start) % Interval = 0
  BY <1>9, <1>12
<1> QED
  BY <1>4, <1>11, <1>12, <1>13

LEMMA BucketFound ==
    ASSUME WheelInv, NEW w \in wheels, NEW e \in Nat, w <= e
    PROVE  /\ BucketAt(w, e) \in Nat /\ BucketAt(w, e) <= e
           /\ (BucketAt(w, e) - Start) % TickMs = 0
<1> DEFINE a == InWheel(w, e)
           k == (e - a) \div TickMs
           m == k * TickMs
<1>1. Start \in Nat /\ TickMs \in Nat \ {0}
  BY WheelAssumption, IntervalPositive
<1>2. a \in Nat /\ Start <= a /\ a <= e /\ (a - Start) % Interval = 0
  BY WheelFound
<1> DEFINE z == a + m
<1>3. BucketAt(w, e) = z
  BY DEF BucketAt
<1> HIDE DEF a
<1>4. e - a \in Nat /\ a - Start \in Nat
  BY <1>1, <1>2
<1>5. k \in Nat /\ k * TickMs <= e - a
  BY <1>1, <1>4, Quotient
<1> HIDE DEF k
<1>6. m \in Nat /\ m <= e - a
  BY <1>1, <1>5
<1>7. ((a - Start) + m) % TickMs = 0
  BY <1>1, <1>2, <1>4, <1>5, WheelIsBucket, SumOfMultiples
<1> HIDE DEF m
<1>8. z \in Nat /\ z <= e /\ z - Start = (a - Start) + m
  BY <1>1, <1>2, <1>6
<1> HIDE DEF z
<1>9. (z - Start) % TickMs = 0
  BY <1>7, <1>8
<1> QED
  BY <1>3, <1>8, <1>9

\* what add has done when it has put t into bucket b
PutInto(b, t, e) ==
    /\ b \in Nat /\ b <= e /\ (b - Start) % TickMs = 0
    /\ wheels' \in SUBSET Nat /\ wheels \subseteq wheels'
    /\ \A s \in wheels' : s >= Start /\ (s - Start) % Interval = 0
    /\ queue' = queue \cup {b}
    /\ DOMAIN bucket' = DOMAIN bucket \cup {b}
    /\ bucket'[b] = Append(IF b \in DOMAIN bucket THEN bucket[b] ELSE << >>, t)
    /\ \A x \in DOMAIN bucket \ {b} : bucket'[x] = bucket[x]
    /\ DOMAIN bucketOf' = DOMAIN bucketOf \cup {t}
    /\ bucketOf'[t] = b
    /\ \A x \in DOMAIN bucketOf \ {t} : bucketOf'[x] = bucketOf[x]

LEMMA AddEffect ==
    ASSUME WheelInv, NEW w \in wheels, NEW e \in Nat, w <= e, NEW t, Add(w, t, e)
    PROVE  \E b : PutInto(b, t, e)
<1> PICK b : b = BucketAt(w, e)
  OBVIOUS
<1> DEFINE i == InWheel(w, e)
           list == IF b \in DOMAIN bucket THEN bucket[b] ELSE << >>
<1>1. /\ wheels' = wheels \cup {i}
      /\ bucket' = Assign(bucket, b, Append(list, t))
      /\ queue' = queue \cup {b}
      /\ bucketOf' = Assign(bucketOf, t, b)
  BY DEF Add, AtWheel, InWheel, BucketAt
<1>2. i \in Nat /\ Start <= i /\ (i - Start) % Interval = 0
  BY WheelFound
<1>3. b \in Nat /\ b <= e /\ (b - Start) % TickMs = 0
  BY BucketFound
<1> HIDE DEF i
<1>4. /\ wheels' \in SUBSET Nat /\ wheels \subseteq wheels'
      /\ \A s \in wheels' : s >= Start /\ (s - Start) % Interval = 0
  <2>1. Start \in Nat /\ i >= Start
    BY <1>2, WheelAssumption
  <2> QED
    BY <1>1, <1>2, <2>1 DEF WheelInv
<1> HIDE DEF list
<1>5. /\ DOMAIN bucket' = DOMAIN bucket \cup {b} /\ bucket'[b] = Append(list, t)
      /\ \A x \in DOMAIN bucket \ {b} : bucket'[x] = bucket[x]
  BY <1>1 DEF Assign
<1>6. /\ DOMAIN bucketOf' = DOMAIN bucketOf \cup {t} /\ bucketOf'[t] = b
      /\ \A x \in DOMAIN bucketOf \ {t} : bucketOf'[x] = bucketOf[x]
  BY <1>1 DEF Assign
<1> QED
  BY <1>1, <1>3, <1>4, <1>5, <1>6 DEF PutInto, list

\* No list loses a timer, and t is at the end of the list of its bucket.
LEMMA AddLists ==
    ASSUME BucketInv, NEW n \in Nat, Len(expiration) \in 0..n,
           NEW t \in 1..n, NEW b, NEW e, PutInto(b, t, e)
    PROVE  /\ \A y \in DOMAIN bucket' :
                 y \in Nat /\ (y - Start) % TickMs = 0 /\ bucket'[y] \in Seq(1..n)
           /\ \A y \in DOMAIN bucket : \A x : Listed(x, bucket[y]) => Listed(x, bucket'[y])
           /\ Listed(t, bucket'[b])
<1> DEFINE list == IF b \in DOMAIN bucket THEN bucket[b] ELSE << >>
<1>1. /\ b \in Nat /\ (b - Start) % TickMs = 0 /\ DOMAIN bucket' = DOMAIN bucket \cup {b}
      /\ bucket'[b] = Append(list, t)
      /\ \A x \in DOMAIN bucket \ {b} : bucket'[x] = bucket[x]
  BY DEF PutInto
<1>2. \A x \in DOMAIN bucket : bucket[x] \in Seq(1..n)
  <2>1. Timers \subseteq 1..n
    BY DEF Timers
  <2> QED
    BY <2>1, SeqMonotonic DEF BucketInv
<1>3. list \in Seq(1..n)
  BY <1>2, EmptySeq
<1>4. /\ Append(list, t) \in Seq(1..n) /\ Listed(t, Append(list, t))
      /\ \A x : Listed(x, list) => Listed(x, Append(list, t))
  BY <1>3, AppendLists
<1>5. ASSUME NEW y \in DOMAIN bucket, NEW x, Listed(x, bucket[y]) PROVE Listed(x, bucket'[y])
  BY <1>1, <1>4, <1>5
<1>6. ASSUME NEW y \in DOMAIN bucket' PROVE y \in Nat /\ (y - Start) % TickMs = 0 /\ bucket'[y] \in Seq(1..n)
  BY <1>1, <1>2, <1>4 DEF BucketInv
<1> QED
  BY <1>1, <1>4, <1>5, <1>6

LEMMA StopEffect ==
    ASSUME BucketInv, NEW t \in DOMAIN bucketOf, bucketOf[t] \in DOMAIN bucket \cup {nil},
           bucketOf[t] # nil => Listed(t, bucket[bucketOf[t]]), Stop(t)
    PROVE  /\ DOMAIN bucket' = DOMAIN bucket
           /\ \A b \in DOMAIN bucket : bucket'[b] \in Seq(Timers)
           /\ \A b \in DOMAIN bucket : \A x : x # t /\ Listed(x, bucket[b]) => Listed(x, bucket'[b])
           /\ DOMAIN bucketOf' = DOMAIN bucketOf
           /\ bucketOf'[t] = nil
           /\ \A x \in DOMAIN bucketOf \ {t} : bucketOf'[x] = bucketOf[x]
<1>1. CASE bucketOf[t] = nil
  BY <1>1 DEF Stop, BucketInv
<1>2. CASE bucketOf[t] # nil
  <2> DEFINE b == bucketOf[t]
             i == SelectLastInSeq(bucket[b], LAMBDA x : x = t)
  <2>1. b \in DOMAIN bucket /\ bucket[b] \in Seq(Timers) /\ Listed(t, bucket[b])
    BY <1>2 DEF BucketInv
  <2>2. /\ bucket' = [bucket EXCEPT ![b] = RemoveAt(bucket[b], i)]
        /\ bucketOf' = [bucketOf EXCEPT ![t] = nil]
    BY <1>2 DEF Stop
  <2>3. i \in 1..Len(bucket[b]) /\ bucket[b][i] = t
    BY <2>1, LastIndex
  <2> HIDE DEF b, i
  <2>4. /\ RemoveAt(bucket[b], i) \in Seq(Timers)
        /\ \A x : x # t /\ Listed(x, bucket[b]) => Listed(x, RemoveAt(bucket[b], i))
    BY <2>1, <2>3, RemoveLists
  <2>5. /\ DOMAIN bucket' = DOMAIN bucket /\ bucket'[b] = RemoveAt(bucket[b], i)
        /\ \A y \in DOMAIN bucket \ {b} : bucket'[y] = bucket[y]
    BY <2>1, <2>2
  <2>6. \A y \in DOMAIN bucket : bucket'[y] \in Seq(Timers)
    BY <2>4, <2>5 DEF BucketInv
  <2>7. ASSUME NEW y \in DOMAIN bucket, NEW x, x # t, Listed(x, bucket[y]) PROVE Listed(x, bucket'[y])
    BY <2>4, <2>5, <2>7
  <2> QED
    BY <2>2, <2>5, <2>6, <2>7
<1> QED
  BY <1>1, <1>2

(***************************************************************************)
(* The steps                                                               *)
(***************************************************************************)

LEMMA AppendNat ==
    ASSUME NEW s \in Seq(Nat), NEW v \in Nat, NEW n, n = Len(s)
    PROVE  /\ Append(s, v) \in Seq(Nat) /\ Len(Append(s, v)) = n + 1
           /\ \A x \in 1..n : Append(s, v)[x] = s[x]
           /\ Append(s, v)[n + 1] = v
BY AppendProperties

LEMMA InitInv == Init => Inv
<1> SUFFICES ASSUME Init PROVE Inv
  OBVIOUS
<1>1. Start \in Nat /\ Start <= Horizon /\ Horizon \in Nat /\ Interval \in Nat \ {0}
  BY WheelAssumption, IntervalPositive
<1>2. (Start - Start) % Interval = 0
  BY <1>1
<1>3. << >> \in Seq(Nat) /\ << >> \in Seq(Timers) /\ Len(<< >>) = 0 /\ DOMAIN << >> = {}
  BY EmptySeq
<1>4. Timers = {}
  BY <1>3 DEF Init, Timers
<1>5. ClockInv /\ WheelInv
  BY <1>1, <1>2 DEF Init, ClockInv, WheelInv
<1>6. BucketInv /\ TimerInv /\ TickInv
  BY <1>3, <1>4 DEF Init, BucketInv, TimerInv, TickInv
<1>7. ListInv /\ GoneInv /\ OnceInv /\ DueInv
  BY <1>4 DEF Init, ListInv, GoneInv, OnceInv, DueInv
<1> QED
  BY <1>5, <1>6, <1>7 DEF Inv

LEMMA AddTimerStep ==
    ASSUME Inv, NEW d \in Nat, NEW r \in Nat, AddTimer(d, r)
    PROVE  Inv'
<1> DEFINE n == Len(expiration)
           e == now + d
<1>1. n \in Nat /\ now \in Nat /\ e \in Nat /\ Start <= e /\ Start \in wheels /\ nil \notin Nat
      /\ last <= now /\ last \in Nat
  BY WheelAssumption, LenProperties DEF Inv, ClockInv, WheelInv, TimerInv
<1>2. /\ expiration' = Append(expiration, e) /\ repeat' = Append(repeat, r)
      /\ addedAt' = Append(addedAt, now) /\ fired' = Append(fired, 0)
      /\ Add(Start, n + 1, e) /\ timerMap' = timerMap \cup {n + 1}
      /\ UNCHANGED <<now, last, current, phase, expired, firing, cancelled>>
  BY DEF AddTimer, tick
<1>3. /\ expiration' \in Seq(Nat) /\ Len(expiration') = n + 1
      /\ \A x \in 1..n : expiration'[x] = expiration[x]
      /\ expiration'[n + 1] = e
  BY <1>1, <1>2, AppendNat DEF Inv, TimerInv
<1>4. /\ repeat' \in Seq(Nat) /\ Len(repeat') = n + 1
      /\ \A x \in 1..n : repeat'[x] = repeat[x]
  BY <1>1, <1>2, AppendNat DEF Inv, TimerInv
<1>5. /\ addedAt' \in Seq(Nat) /\ Len(addedAt') = n + 1
      /\ \A x \in 1..n : addedAt'[x] = addedAt[x]
      /\ addedAt'[n + 1] = now
  BY <1>1, <1>2, AppendNat DEF Inv, TimerInv
<1>6. /\ fired' \in Seq(Nat) /\ Len(fired') = n + 1
      /\ \A x \in 1..n : fired'[x] = fired[x]
      /\ fired'[n + 1] = 0
  BY <1>1, <1>2, AppendNat DEF Inv, TimerInv
<1>7. Timers = 1..n /\ Timers' = 1..(n + 1) /\ Timers' = Timers \cup {n + 1} /\ n + 1 \notin Timers
  BY <1>1, <1>3 DEF Timers
<1>8. PICK b : PutInto(b, n + 1, e)
  BY <1>1, <1>2, AddEffect DEF Inv
<1>9. /\ b \in Nat /\ b <= e /\ wheels' \in SUBSET Nat /\ wheels \subseteq wheels'
      /\ \A s \in wheels' : s >= Start /\ (s - Start) % Interval = 0
      /\ queue' = queue \cup {b} /\ DOMAIN bucket' = DOMAIN bucket \cup {b}
      /\ DOMAIN bucketOf' = Timers' /\ bucketOf'[n + 1] = b
      /\ \A x \in Timers : bucketOf'[x] = bucketOf[x]
  BY <1>7, <1>8 DEF PutInto, Inv, TimerInv
<1>10. /\ \A y \in DOMAIN bucket' :
             y \in Nat /\ (y - Start) % TickMs = 0 /\ bucket'[y] \in Seq(1..(n + 1))
       /\ \A y \in DOMAIN bucket : \A x : Listed(x, bucket[y]) => Listed(x, bucket'[y])
       /\ Listed(n + 1, bucket'[b])
  <2>1. n + 1 \in Nat /\ Len(expiration) \in 0..(n + 1) /\ n + 1 \in 1..(n + 1)
    BY <1>1
  <2> QED
    BY <1>8, <2>1, AddLists DEF Inv
<1> HIDE DEF n, e
<1>11. ClockInv' /\ WheelInv'
  BY <1>2, <1>9 DEF Inv, ClockInv, WheelInv
<1>12. BucketInv'
  BY <1>2, <1>7, <1>9, <1>10 DEF Inv, BucketInv
<1>13. TimerInv'
  BY <1>2, <1>3, <1>4, <1>5, <1>6, <1>7, <1>9 DEF Inv, TimerInv
<1>14. TickInv'
  <2>1. firing' \in Seq(Timers')
    BY <1>2, <1>7, SeqMonotonic DEF Inv, TickInv
  <2> QED
    BY <1>2, <2>1 DEF Inv, TickInv
<1>15. ListInv'
  <2> SUFFICES ASSUME NEW x \in Timers', bucketOf'[x] # nil
               PROVE  /\ Listed(x, bucket'[bucketOf'[x]])
                      /\ bucketOf'[x] \in queue' \/ bucketOf'[x] \in expired' \/ Listed(x, firing')
    BY DEF ListInv, Listed
  <2>1. CASE x = n + 1
    BY <1>9, <1>10, <2>1
  <2>2. CASE x \in Timers
    <3>1. bucketOf'[x] = bucketOf[x] /\ bucketOf[x] \in DOMAIN bucket
      BY <1>9, <2>2 DEF Inv, TimerInv
    <3>2. /\ Listed(x, bucket[bucketOf[x]])
          /\ bucketOf[x] \in queue \/ bucketOf[x] \in expired \/ Listed(x, firing)
      BY <2>2, <3>1 DEF Inv, ListInv
    <3> QED
      BY <1>2, <1>9, <1>10, <3>1, <3>2
  <2> QED
    BY <1>7, <2>1, <2>2
<1>16. GoneInv'
  BY <1>2, <1>7, <1>9 DEF Inv, GoneInv, TimerInv
<1>17. OnceInv'
  <2> SUFFICES ASSUME NEW x \in Timers', repeat'[x] = 0
               PROVE  /\ fired'[x] <= 1
                      /\ bucketOf'[x] # nil /\ ~(phase' = "callback" /\ x = Head(firing')) => fired'[x] = 0
    BY DEF OnceInv
  <2>1. CASE x = n + 1
    BY <1>6, <2>1
  <2>2. CASE x \in Timers
    BY <1>2, <1>4, <1>6, <1>7, <1>9, <2>2 DEF Inv, OnceInv
  <2> QED
    BY <1>7, <2>1, <2>2
<1>18. DueInv'
  <2> SUFFICES ASSUME NEW x \in Timers', repeat'[x] = 0, bucketOf'[x] # nil
               PROVE  /\ bucketOf'[x] <= expiration'[x]
                      /\ expiration'[x] <= last' /\ addedAt'[x] < last'
                            => bucketOf'[x] \in expired' \/ Listed(x, firing')
    BY DEF DueInv, Listed
  <2>1. CASE x = n + 1
    BY <1>1, <1>2, <1>3, <1>5, <1>9, <2>1
  <2>2. CASE x \in Timers
    BY <1>2, <1>3, <1>4, <1>5, <1>7, <1>9, <2>2 DEF Inv, DueInv
  <2> QED
    BY <1>7, <2>1, <2>2
<1> QED
  BY <1>11, <1>12, <1>13, <1>14, <1>15, <1>16, <1>17, <1>18 DEF Inv

\* What Stop(t) leaves of the invariant.  phase and firing are treated by the
\* actions that call it.
LEMMA StopKeeps ==
    ASSUME Inv, NEW t \in Timers, Stop(t), UNCHANGED <<expiration, queue>>, expired' = expired
    PROVE  /\ BucketInv' /\ Timers' = Timers /\ DOMAIN bucketOf' = Timers
           /\ bucketOf'[t] = nil
           /\ \A x \in Timers \ {t} : bucketOf'[x] = bucketOf[x]
           /\ \A x \in Timers : bucketOf'[x] \in DOMAIN bucket' \cup {nil}
           /\ \A x \in Timers : bucketOf'[x] # nil => Listed(x, bucket'[bucketOf'[x]])
<1>1. t \in DOMAIN bucketOf /\ bucketOf[t] \in DOMAIN bucket \cup {nil} /\ DOMAIN bucketOf = Timers
      /\ (bucketOf[t] # nil => Listed(t, bucket[bucketOf[t]])) /\ BucketInv
  BY DEF Inv, TimerInv, ListInv
<1>2. /\ DOMAIN bucket' = DOMAIN bucket
      /\ \A b \in DOMAIN bucket : bucket'[b] \in Seq(Timers)
      /\ \A b \in DOMAIN bucket : \A x : x # t /\ Listed(x, bucket[b]) => Listed(x, bucket'[b])
      /\ DOMAIN bucketOf' = DOMAIN bucketOf
      /\ bucketOf'[t] = nil
      /\ \A x \in DOMAIN bucketOf \ {t} : bucketOf'[x] = bucketOf[x]
  BY <1>1, StopEffect
<1>3. Timers' = Timers
  BY DEF Timers
<1>4. BucketInv'
  BY <1>1, <1>2, <1>3 DEF BucketInv
<1>5. \A x \in Timers : bucketOf'[x] \in DOMAIN bucket' \cup {nil}
  BY <1>1, <1>2 DEF Inv, TimerInv
<1>6. ASSUME NEW x \in Timers, bucketOf'[x] # nil PROVE Listed(x, bucket'[bucketOf'[x]])
  <2>1. x # t /\ bucketOf'[x] = bucketOf[x] /\ bucketOf[x] \in DOMAIN bucket
    BY <1>1, <1>2, <1>6 DEF Inv, TimerInv
  <2>2. Listed(x, bucket[bucketOf[x]])
    BY <1>6, <2>1 DEF Inv, ListInv
  <2> QED
    BY <1>2, <2>1, <2>2
<1> QED
  BY <1>1, <1>2, <1>3, <1>4, <1>5, <1>6

LEMMA CancelStep ==
    ASSUME Inv, NEW t \in timerMap, Cancel(t)
    PROVE  Inv'
<1>1. /\ t \in Timers /\ Stop(t) /\ timerMap' = timerMap \ {t} /\ cancelled' = cancelled \cup {t}
      /\ UNCHANGED <<now, last, current, phase, expired, firing, wheels, queue, expiration, repeat,
                     addedAt, fired>>
  BY DEF Cancel, tick, Inv, TimerInv
<1>2. /\ BucketInv' /\ Timers' = Timers /\ DOMAIN bucketOf' = Timers /\ bucketOf'[t] = nil
      /\ \A x \in Timers \ {t} : bucketOf'[x] = bucketOf[x]
      /\ \A x \in Timers : bucketOf'[x] \in DOMAIN bucket' \cup {nil}
      /\ \A x \in Timers : bucketOf'[x] # nil => Listed(x, bucket'[bucketOf'[x]])
  BY <1>1, StopKeeps
<1>3. ClockInv' /\ WheelInv' /\ TickInv'
  BY <1>1, <1>2 DEF Inv, ClockInv, WheelInv, TickInv
<1>4. TimerInv'
  BY <1>1, <1>2 DEF Inv, TimerInv
<1>5. ListInv'
  BY <1>1, <1>2 DEF Inv, ListInv
<1>6. GoneInv' /\ OnceInv' /\ DueInv'
  BY <1>1, <1>2 DEF Inv, GoneInv, OnceInv, DueInv, TimerInv
<1> QED
  BY <1>2, <1>3, <1>4, <1>5, <1>6 DEF Inv

\* A tick takes the buckets that are due: at its beginning, and again when it goes
\* on to the next wheel.
LEMMA ShiftStep ==
    ASSUME Inv, expired = {}, firing = << >>, GetExpiredAndShift(last'), last' \in last..now,
           phase' = "fire", current' \in wheels,
           UNCHANGED <<now, wheels, bucket, timers, timerMap, firing, history>>
    PROVE  Inv'
<1> DEFINE due == {b \in queue : Priority(b) <= last'}
<1>0. last' \in Nat /\ last' \in Start..now
  BY WheelAssumption DEF Inv, ClockInv
<1>1. expired' = due /\ queue' = queue \ due /\ due \subseteq queue
  BY DEF GetExpiredAndShift
<1>2. Timers' = Timers /\ UNCHANGED <<expiration, repeat, bucketOf, addedAt, fired, cancelled>>
  BY DEF timers, history, Timers
<1>3. \A x \in Timers : ~Listed(x, firing)
  BY DEF Listed
<1>4. \A x \in Timers : bucketOf[x] # nil => bucketOf[x] \in queue /\ bucketOf[x] \in Nat
  BY <1>3 DEF Inv, ListInv, BucketInv
<1>5. ClockInv' /\ WheelInv' /\ BucketInv' /\ TickInv'
  <2>1. ClockInv' /\ WheelInv'
    BY <1>0 DEF Inv, ClockInv, WheelInv
  <2>2. BucketInv' /\ TickInv'
    BY <1>1, <1>2 DEF Inv, BucketInv, TickInv
  <2> QED
    BY <2>1, <2>2
<1>6. TimerInv' /\ GoneInv'
  BY <1>2 DEF Inv, TimerInv, GoneInv
<1>7. ListInv'
  BY <1>1, <1>2, <1>4 DEF Inv, ListInv
<1>8. OnceInv'
  BY <1>2 DEF Inv, OnceInv, TickInv
<1>9. DueInv'
  <2> SUFFICES ASSUME NEW x \in Timers, repeat[x] = 0, bucketOf[x] # nil
               PROVE  /\ bucketOf[x] <= expiration[x]
                      /\ expiration[x] <= last' /\ addedAt[x] < last' => bucketOf[x] \in expired'
    BY <1>2 DEF DueInv
  <2>1. bucketOf[x] <= expiration[x] /\ bucketOf[x] \in queue /\ bucketOf[x] \in Nat
    BY <1>4 DEF Inv, DueInv
  <2>2. Priority(bucketOf[x]) \in Nat /\ Priority(bucketOf[x]) <= bucketOf[x]
    BY <2>1, PriorityIsEarlier
  <2>3. expiration[x] \in Nat /\ last' \in Nat
    BY <1>0, ElementOfSeq DEF Inv, TimerInv, Timers
  <2> QED
    BY <1>1, <2>1, <2>2, <2>3
<1> QED
  BY <1>5, <1>6, <1>7, <1>8, <1>9 DEF Inv

LEMMA HandleMainTickStep ==
    ASSUME Inv, HandleMainTick
    PROVE  Inv'
<1>1. last' \in last..now /\ expired = {} /\ firing = << >>
  BY WheelAssumption DEF HandleMainTick, Inv, ClockInv, TickInv
<1>2. GetExpiredAndShift(last')
  BY DEF HandleMainTick
<1>3. current' \in wheels
  BY DEF HandleMainTick, Inv, WheelInv
<1> QED
  BY <1>1, <1>2, <1>3, ShiftStep DEF HandleMainTick

LEMMA NextWheelStep ==
    ASSUME Inv, NextWheel
    PROVE  Inv'
<1>1. last' \in last..now /\ phase' = "fire"
  BY WheelAssumption DEF NextWheel, Inv, ClockInv
<1>2. GetExpiredAndShift(last')
  BY DEF NextWheel
<1>3. current' \in wheels
  <2>1. Reached \in SUBSET Nat /\ Reached # {} /\ Reached \subseteq wheels
    BY DEF NextWheel, Reached, Inv, WheelInv
  <2> QED
    BY <2>1, MinIsLeast DEF NextWheel
<1> QED
  BY <1>1, <1>2, <1>3, ShiftStep DEF NextWheel

LEMMA GetTimersStep ==
    ASSUME Inv, GetTimers
    PROVE  Inv'
<1> DEFINE b == Min(expired)
<1>1. b \in expired /\ b \in DOMAIN bucket
  BY MinIsLeast DEF GetTimers, Inv, BucketInv
<1> HIDE DEF b
<1>2. /\ phase = "fire" /\ firing = << >> /\ firing' = bucket[b] /\ expired' = expired \ {b}
      /\ UNCHANGED <<now, last, wheels, queue, bucket, current, expiration, repeat, bucketOf, timerMap,
                     phase, addedAt, fired, cancelled>>
  BY DEF GetTimers, b, wheel, timers, history
<1>3. Timers' = Timers
  BY <1>2 DEF Timers
<1>4. \A x \in Timers : ~Listed(x, firing)
  BY <1>2 DEF Listed
<1>5. \A x \in Timers : bucketOf[x] = b => Listed(x, firing')
  <2> TAKE x \in Timers
  <2>1. nil \notin Nat /\ b \in Nat
    BY <1>1, WheelAssumption DEF Inv, BucketInv
  <2> QED
    BY <1>2, <2>1 DEF Inv, ListInv
<1>6. ClockInv' /\ WheelInv' /\ BucketInv' /\ TickInv'
  BY <1>1, <1>2, <1>3 DEF Inv, ClockInv, WheelInv, BucketInv, TickInv
<1>7. TimerInv' /\ GoneInv'
  BY <1>2, <1>3 DEF Inv, TimerInv, GoneInv
<1>8. ListInv'
  BY <1>2, <1>3, <1>4, <1>5 DEF Inv, ListInv
<1>9. OnceInv' /\ DueInv'
  BY <1>2, <1>3, <1>4, <1>5 DEF Inv, OnceInv, DueInv
<1> QED
  BY <1>6, <1>7, <1>8, <1>9 DEF Inv

LEMMA SkipStoppedStep ==
    ASSUME Inv, SkipStopped
    PROVE  Inv'
<1> DEFINE t == Head(firing)
<1>1. /\ phase = "fire" /\ firing # << >> /\ bucketOf[t] = nil /\ firing' = Tail(firing)
      /\ UNCHANGED <<now, last, wheels, queue, bucket, current, expiration, repeat, bucketOf, timerMap,
                     phase, expired, addedAt, fired, cancelled>>
  BY DEF SkipStopped, wheel, timers, history
<1>2. t \in Timers /\ firing' \in Seq(Timers) /\ \A x : Listed(x, firing) => x = t \/ Listed(x, firing')
  BY <1>1, TailLists DEF Inv, TickInv
<1> HIDE DEF t
<1>3. Timers' = Timers
  BY <1>1 DEF Timers
<1>4. ClockInv' /\ WheelInv' /\ BucketInv' /\ TickInv'
  BY <1>1, <1>2, <1>3 DEF Inv, ClockInv, WheelInv, BucketInv, TickInv
<1>5. TimerInv' /\ GoneInv'
  BY <1>1, <1>3 DEF Inv, TimerInv, GoneInv
<1>6. ListInv'
  BY <1>1, <1>2, <1>3 DEF Inv, ListInv
<1>7. OnceInv' /\ DueInv'
  BY <1>1, <1>2, <1>3 DEF Inv, OnceInv, DueInv
<1> QED
  BY <1>4, <1>5, <1>6, <1>7 DEF Inv

LEMMA CallbackStep ==
    ASSUME Inv, Callback
    PROVE  Inv'
<1> DEFINE t == Head(firing)
<1>1. /\ phase = "fire" /\ firing # << >> /\ bucketOf[t] # nil /\ phase' = "callback"
      /\ fired' = [fired EXCEPT ![t] = @ + 1]
      /\ UNCHANGED <<now, last, wheels, queue, bucket, current, expiration, repeat, bucketOf, timerMap,
                     expired, firing, addedAt, cancelled>>
  BY DEF Callback, wheel, timers
<1>2. t \in Timers
  BY <1>1, TailLists DEF Inv, TickInv
<1>3. Timers' = Timers
  BY <1>1 DEF Timers
<1>4. /\ fired' \in Seq(Nat) /\ Len(fired') = Len(expiration) /\ fired'[t] = fired[t] + 1
      /\ \A x \in Timers \ {t} : fired'[x] = fired[x]
  <2>1. fired \in Seq(Nat) /\ t \in 1..Len(fired) /\ DOMAIN fired = 1..Len(fired) /\ Len(fired) = Len(expiration)
    BY <1>2, LenProperties DEF Inv, TimerInv, Timers
  <2>2. fired[t] + 1 \in Nat
    BY <2>1, ElementOfSeq
  <2> HIDE DEF t
  <2>3. fired' \in Seq(Nat) /\ Len(fired') = Len(fired)
    BY <1>1, <2>1, <2>2, ExceptSeq
  <2> QED
    BY <1>1, <2>1, <2>3 DEF Timers
<1>5. ClockInv' /\ WheelInv' /\ BucketInv' /\ TickInv'
  BY <1>1, <1>3 DEF Inv, ClockInv, WheelInv, BucketInv, TickInv
<1>6. TimerInv' /\ GoneInv'
  BY <1>1, <1>3, <1>4 DEF Inv, TimerInv, GoneInv
<1>7. ListInv' /\ DueInv'
  BY <1>1, <1>3 DEF Inv, ListInv, DueInv
<1>8. OnceInv'
  BY <1>1, <1>2, <1>3, <1>4 DEF Inv, OnceInv
<1> QED
  BY <1>5, <1>6, <1>7, <1>8 DEF Inv

\* The callback returns: the timer leaves the list of the tick, and is stopped
\* or in a bucket of the queue.
LEMMA FinishStep ==
    ASSUME Inv, CallbackReturns, Finish(Head(firing))
    PROVE  Inv'
<1> DEFINE t == Head(firing)
<1>1. /\ phase = "callback" /\ phase' = "fire" /\ firing # << >> /\ firing' = Tail(firing) /\ Stop(t)
      /\ UNCHANGED <<now, last, current, repeat, timerMap, expired, addedAt, fired, cancelled,
                     expiration, wheels, queue>>
  BY DEF CallbackReturns, Finish, history, Inv, TickInv
<1>2. t \in Timers /\ firing' \in Seq(Timers) /\ \A x : Listed(x, firing) => x = t \/ Listed(x, firing')
  BY <1>1, TailLists DEF Inv, TickInv
<1> HIDE DEF t
<1>3. /\ BucketInv' /\ Timers' = Timers /\ DOMAIN bucketOf' = Timers /\ bucketOf'[t] = nil
      /\ \A x \in Timers \ {t} : bucketOf'[x] = bucketOf[x]
      /\ \A x \in Timers : bucketOf'[x] \in DOMAIN bucket' \cup {nil}
      /\ \A x \in Timers : bucketOf'[x] # nil => Listed(x, bucket'[bucketOf'[x]])
  BY <1>1, <1>2, StopKeeps
<1>4. ClockInv' /\ WheelInv' /\ TickInv'
  BY <1>1, <1>2, <1>3 DEF Inv, ClockInv, WheelInv, TickInv
<1>5. TimerInv' /\ GoneInv'
  BY <1>1, <1>3 DEF Inv, TimerInv, GoneInv
<1>6. ListInv'
  BY <1>1, <1>2, <1>3 DEF Inv, ListInv
<1>7. OnceInv'
  BY <1>1, <1>2, <1>3 DEF Inv, OnceInv, t
<1>8. DueInv'
  BY <1>1, <1>2, <1>3 DEF Inv, DueInv
<1> QED
  BY <1>3, <1>4, <1>5, <1>6, <1>7, <1>8 DEF Inv

LEMMA RepeatStep ==
    ASSUME Inv, CallbackReturns, Repeat(Head(firing))
    PROVE  Inv'
<1> DEFINE t == Head(firing)
           n == Len(expiration)
           e == IF expiration[t] + repeat[t] < current THEN current ELSE expiration[t] + repeat[t]
<1>1. /\ phase = "callback" /\ phase' = "fire" /\ firing # << >> /\ firing' = Tail(firing)
      /\ repeat[t] > 0 /\ bucketOf[t] # nil
      /\ expiration' = [expiration EXCEPT ![t] = e] /\ Add(current, t, e)
      /\ UNCHANGED <<now, last, current, repeat, timerMap, expired, addedAt, fired, cancelled>>
  BY DEF CallbackReturns, Repeat, history, Inv, TickInv
<1>2. t \in Timers /\ firing' \in Seq(Timers) /\ \A x : Listed(x, firing) => x = t \/ Listed(x, firing')
  BY <1>1, TailLists DEF Inv, TickInv
<1> HIDE DEF t
<1>3. /\ n \in Nat /\ Timers = 1..n /\ DOMAIN expiration = Timers /\ expiration[t] \in Nat
      /\ repeat[t] \in Nat /\ current \in Nat /\ current \in wheels
  BY <1>2, LenProperties, ElementOfSeq DEF Inv, TimerInv, Timers, WheelInv
<1>4. e \in Nat /\ current <= e
  BY <1>3
<1> HIDE DEF e, n
<1>5. /\ expiration' \in Seq(Nat) /\ Len(expiration') = n
      /\ \A x \in Timers \ {t} : expiration'[x] = expiration[x]
  <2>1. expiration \in Seq(Nat) /\ t \in 1..Len(expiration)
    BY <1>2 DEF Inv, TimerInv, Timers
  <2>2. expiration' \in Seq(Nat) /\ Len(expiration') = Len(expiration)
    BY <1>1, <1>4, <2>1, ExceptSeq
  <2> QED
    BY <1>1, <1>3, <2>2 DEF n
<1>6. Timers' = Timers
  BY <1>3, <1>5 DEF Timers
<1>7. PICK b : PutInto(b, t, e)
  BY <1>1, <1>3, <1>4, AddEffect DEF Inv
<1>8. /\ b \in Nat /\ wheels' \in SUBSET Nat /\ wheels \subseteq wheels'
      /\ \A s \in wheels' : s >= Start /\ (s - Start) % Interval = 0
      /\ queue' = queue \cup {b} /\ DOMAIN bucket' = DOMAIN bucket \cup {b}
      /\ DOMAIN bucketOf' = Timers /\ bucketOf'[t] = b
      /\ \A x \in Timers \ {t} : bucketOf'[x] = bucketOf[x]
  BY <1>2, <1>7 DEF PutInto, Inv, TimerInv
<1>9. /\ \A y \in DOMAIN bucket' :
            y \in Nat /\ (y - Start) % TickMs = 0 /\ bucket'[y] \in Seq(1..n)
      /\ \A y \in DOMAIN bucket : \A x : Listed(x, bucket[y]) => Listed(x, bucket'[y])
      /\ Listed(t, bucket'[b])
  <2>1. n \in Nat /\ Len(expiration) \in 0..n /\ t \in 1..n /\ BucketInv
    BY <1>2, <1>3 DEF Inv, n
  <2> QED
    BY <1>7, <2>1, AddLists
<1>10. ClockInv' /\ WheelInv'
  BY <1>1, <1>8 DEF Inv, ClockInv, WheelInv
<1>11. BucketInv' /\ TickInv'
  BY <1>1, <1>2, <1>3, <1>6, <1>8, <1>9 DEF Inv, BucketInv, TickInv
<1>12. TimerInv' /\ GoneInv'
  BY <1>1, <1>2, <1>5, <1>6, <1>8 DEF Inv, TimerInv, GoneInv, n
<1>13. ListInv'
  <2> SUFFICES ASSUME NEW x \in Timers, bucketOf'[x] # nil
               PROVE  /\ Listed(x, bucket'[bucketOf'[x]])
                      /\ bucketOf'[x] \in queue' \/ bucketOf'[x] \in expired' \/ Listed(x, firing')
    BY <1>6 DEF ListInv
  <2>1. CASE x = t
    BY <1>8, <1>9, <2>1
  <2>2. CASE x # t
    <3>1. bucketOf'[x] = bucketOf[x] /\ bucketOf[x] \in DOMAIN bucket
      BY <1>8, <2>2 DEF Inv, TimerInv
    <3>2. /\ Listed(x, bucket[bucketOf[x]])
          /\ bucketOf[x] \in queue \/ bucketOf[x] \in expired \/ Listed(x, firing)
      BY <3>1 DEF Inv, ListInv
    <3> QED
      BY <1>1, <1>2, <1>8, <1>9, <2>2, <3>1, <3>2
  <2> QED
    BY <2>1, <2>2
<1>14. \A x \in Timers : repeat[x] = 0 => x # t
  BY <1>1
<1>15. OnceInv'
  BY <1>1, <1>6, <1>8, <1>14 DEF Inv, OnceInv, t
<1>16. DueInv'
  <2> SUFFICES ASSUME NEW x \in Timers, repeat[x] = 0, bucketOf'[x] # nil
               PROVE  /\ bucketOf'[x] <= expiration'[x]
                      /\ expiration'[x] <= last' /\ addedAt'[x] < last'
                            => bucketOf'[x] \in expired' \/ Listed(x, firing')
    BY <1>1, <1>6 DEF DueInv
  <2>1. x # t /\ bucketOf'[x] = bucketOf[x] /\ expiration'[x] = expiration[x]
    BY <1>5, <1>8, <1>14
  <2> QED
    BY <1>1, <1>2, <2>1 DEF Inv, DueInv
<1> QED
  BY <1>10, <1>11, <1>12, <1>13, <1>15, <1>16 DEF Inv

LEMMA TickEndsStep ==
    ASSUME Inv, TickEnds
    PROVE  Inv'
<1>1. /\ phase = "fire" /\ phase' = "idle" /\ firing = << >> /\ expired = {}
      /\ UNCHANGED <<now, last, wheels, queue, bucket, current, expiration, repeat, bucketOf, timerMap,
                     expired, firing, addedAt, fired, cancelled>>
  BY DEF TickEnds, wheel, timers, history
<1>2. Timers' = Timers
  BY <1>1 DEF Timers
<1>3. ClockInv' /\ WheelInv' /\ BucketInv' /\ TickInv'
  BY <1>1, <1>2 DEF Inv, ClockInv, WheelInv, BucketInv, TickInv
<1>4. TimerInv' /\ GoneInv' /\ ListInv' /\ OnceInv' /\ DueInv'
  BY <1>1, <1>2 DEF Inv, TimerInv, GoneInv, ListInv, OnceInv, DueInv
<1> QED
  BY <1>3, <1>4 DEF Inv

\* Time passes, or nothing happens.
LEMMA AdvanceStep ==
    ASSUME Inv, now' \in now..Horizon, UNCHANGED <<tick, wheel, timers, timerMap, history>>
    PROVE  Inv'
<1>1. UNCHANGED <<last, wheels, queue, bucket, current, expiration, repeat, bucketOf, timerMap,
                  phase, expired, firing, addedAt, fired, cancelled>>
  BY DEF tick, wheel, timers, history
<1>2. Timers' = Timers
  BY <1>1 DEF Timers
<1>3. ClockInv'
  BY <1>1, WheelAssumption DEF Inv, ClockInv
<1>4. WheelInv' /\ BucketInv' /\ TickInv'
  BY <1>1, <1>2 DEF Inv, WheelInv, BucketInv, TickInv
<1>5. TimerInv' /\ GoneInv' /\ ListInv' /\ OnceInv' /\ DueInv'
  BY <1>1, <1>2 DEF Inv, TimerInv, GoneInv, ListInv, OnceInv, DueInv
<1> QED
  BY <1>3, <1>4, <1>5 DEF Inv

LEMMA NextInv ==
    ASSUME Inv, [Next]_vars
    PROVE  Inv'
<1>1. ASSUME NEW d \in Durations, NEW r \in Repeats, AddTimer(d, r) PROVE Inv'
  <2>1. d \in Nat /\ r \in Nat
    BY WheelAssumption
  <2> QED
    BY <1>1, <2>1, AddTimerStep
<1>2. ASSUME NEW t \in timerMap, Cancel(t) PROVE Inv'
  BY <1>2, CancelStep
<1>3. CASE HandleMainTick
  BY <1>3, HandleMainTickStep
<1>4. CASE GetTimers
  BY <1>4, GetTimersStep
<1>5. CASE SkipStopped
  BY <1>5, SkipStoppedStep
<1>6. CASE Callback
  BY <1>6, CallbackStep
<1>7. CASE CallbackReturns
  BY <1>7, FinishStep, RepeatStep DEF CallbackReturns
<1>8. CASE NextWheel
  BY <1>8, NextWheelStep
<1>9. CASE TickEnds
  BY <1>9, TickEndsStep
<1>10. CASE Advance
  <2>1. now' \in now..Horizon
    BY <1>10, WheelAssumption DEF Advance, Inv, ClockInv
  <2> QED
    BY <1>10, <2>1, AdvanceStep DEF Advance
<1>11. CASE UNCHANGED vars
  <2>1. now' \in now..Horizon /\ UNCHANGED <<tick, wheel, timers, timerMap, history>>
    BY <1>11, WheelAssumption DEF vars, tick, wheel, timers, history, Inv, ClockInv
  <2> QED
    BY <2>1, AdvanceStep
<1> QED
  BY <1>1, <1>2, <1>3, <1>4, <1>5, <1>6, <1>7, <1>8, <1>9, <1>10, <1>11 DEF Next

LEMMA Invariance == Spec => []Inv
<1>1. Inv /\ [Next]_vars => Inv'
  BY NextInv
<1> QED
  BY <1>1, InitInv, PTL DEF Spec

(***************************************************************************)
(* The theorems                                                            *)
(***************************************************************************)

\* Wheels, buckets and timers keep their types: wheels begin at multiples of the
\* interval and buckets at multiples of the tick after the start.
THEOREM TypeCorrect == Spec => []TypeOK
<1>1. Inv => TypeOK
  <2> SUFFICES ASSUME Inv PROVE TypeOK
    OBVIOUS
  <2>1. Added = Timers
    BY LenProperties DEF Inv, TimerInv, Timers, Added
  <2> QED
    BY <2>1 DEF Inv, ClockInv, WheelInv, BucketInv, TimerInv, TickInv, TypeOK
<1> QED
  BY <1>1, Invariance, PTL

\* Whatever callbacks add and cancel during a tick, a timer that is neither
\* cancelled nor finished is listed where the wheel will find it.
THEOREM NoneForgotten == Spec => []NoTimerForgotten
<1>1. Inv => NoTimerForgotten
  <2> SUFFICES ASSUME Inv PROVE NoTimerForgotten
    OBVIOUS
  <2>1. Added = Timers
    BY LenProperties DEF Inv, TimerInv, Timers, Added
  <2> QED
    BY <2>1 DEF Inv, ListInv, Listed, Live, NoTimerForgotten
<1> QED
  BY <1>1, Invariance, PTL

\* Cancel is final, also for a repeating timer that its own callback cancels and
\* for one that is still listed in a bucket it has left.
THEOREM CancelIsFinal == Spec => []CancelledIsGone
<1>1. Inv => CancelledIsGone
  BY DEF Inv, GoneInv, Live, CancelledIsGone
<1> QED
  BY <1>1, Invariance, PTL

\* A timer without interval runs at most once, and no tick leaves it behind whose
\* time had come and that was set before the tick.
THEOREM OncePunctually == Spec => []OnceAndOnTime
<1>1. Inv => OnceAndOnTime
  <2> SUFFICES ASSUME Inv, NEW t \in Added, repeat[t] = 0
               PROVE  /\ fired[t] <= 1
                      /\ phase = "idle" /\ t \in Live => expiration[t] > last \/ addedAt[t] >= last
    BY DEF OnceAndOnTime
  <2>1. t \in Timers
    BY LenProperties DEF Inv, TimerInv, Timers, Added
  <2>2. expiration[t] \in Nat /\ addedAt[t] \in Nat /\ last \in Nat
    <3>1. last \in Nat
      BY WheelAssumption DEF Inv, ClockInv
    <3>2. expiration[t] \in Nat /\ addedAt[t] \in Nat
      BY <2>1, ElementOfSeq DEF Inv, TimerInv, Timers
    <3> QED
      BY <3>1, <3>2
  <2>3. phase = "idle" => ~Listed(t, firing) /\ expired = {}
    BY DEF Inv, TickInv, Listed
  <2> QED
    BY <2>1, <2>2, <2>3 DEF Inv, OnceInv, DueInv, Live
<1> QED
  BY <1>1, Invariance, PTL
=============================================================================
