--------------------------- MODULE TaskQueueProofs ---------------------------
(***************************************************************************)
(* Proofs about the lock-free task queue, for any number of producers,     *)
(* consumers and tasks.                                                    *)
(***************************************************************************)
EXTENDS TaskQueue, SequenceTheorems, TLAPS

(***************************************************************************)
(* The inductive invariant                                                 *)
(***************************************************************************)

\* The chain of next pointers is the sequence linked; every other node has no
\* successor.
ListInv ==
    /\ Len(linked) >= 1
    /\ \A i, j \in 1..Len(linked) : linked[i] = linked[j] => i = j
    /\ \A i \in 1..(Len(linked) - 1) : next[linked[i]] = linked[i + 1]
    /\ next[linked[Len(linked)]] = nil
    /\ \A n \in Ptr : (\A i \in 1..Len(linked) : linked[i] # n) => next[n] = nil

\* A node that is not linked yet belongs to one Enqueue call.
FreshInv ==
    /\ \A p \in Producer :
          pc[p] \in {"enqTail", "enqNext", "enqLink", "enqHelp"} =>
              newNode[p] \in Node /\ \A i \in 1..Len(linked) : linked[i] # newNode[p]
    /\ \A p, q \in Producer : p # q /\ newNode[p] # nil => newNode[p] # newNode[q]

\* where tail is in the list
TailPos == CHOOSE k \in 1..Len(linked) : linked[k] = tail

TailInv ==
    /\ TailPos \in 1..Len(linked)
    /\ linked[TailPos] = tail
    /\ TailPos >= Len(linked) - 1
    /\ TailPos >= Len(taken) + 1

\* What the local copies of goroutine t still mean: all of them are nodes of
\* the list, a local head is not behind a node the head has not reached yet,
\* and a local tail is not behind tail.
Local(t) ==
    /\ pc[t] \in {"enqNext", "enqLink"} => \E i \in 1..TailPos : lTail[t] = linked[i]
    /\ pc[t] \in {"enqHelp", "deqHelp"} =>
          \E i \in 1..(Len(linked) - 1) : lTail[t] = linked[i] /\ lNext[t] = linked[i + 1]
    /\ pc[t] = "enqSwing" =>
          \E i \in 1..(Len(linked) - 1) : lTail[t] = linked[i] /\ newNode[t] = linked[i + 1]
    /\ pc[t] = "deqTail" => \E i \in 1..(Len(taken) + 1) : lHead[t] = linked[i]
    /\ pc[t] = "deqNext" =>
          \E i \in 1..(Len(taken) + 1) : \E j \in i..TailPos :
              lHead[t] = linked[i] /\ lTail[t] = linked[j]
    /\ pc[t] = "deqSwap" =>
          \E i \in 1..(TailPos - 1) : lHead[t] = linked[i] /\ lNext[t] = linked[i + 1]

LocalInv == \A t \in Thread : Local(t)

Inv == TypeOK /\ ListInv /\ FreshInv /\ TakenInLinkOrder /\ TailInv /\ LocalInv

(***************************************************************************)
(* Frame lemmas                                                            *)
(***************************************************************************)

LEMMA UniquePos ==
    ASSUME NEW s, NEW x, NEW k \in 1..Len(s), s[k] = x,
           \A i, j \in 1..Len(s) : s[i] = s[j] => i = j
    PROVE  (CHOOSE m \in 1..Len(s) : s[m] = x) = k
<1>1. \E m \in 1..Len(s) : s[m] = x
  OBVIOUS
<1> DEFINE c == CHOOSE m \in 1..Len(s) : s[m] = x
<1>2. c \in 1..Len(s) /\ s[c] = x
  BY <1>1
<1> QED
  BY <1>2

LEMMA Intervals ==
    ASSUME NEW a \in Nat, NEW b \in Nat, a <= b
    PROVE  \A i \in 1..(a - 1) : i \in 1..(b - 1) /\ i \in 1..a /\ i + 1 \in 1..a
OBVIOUS

LEMMA Numbers ==
    ASSUME Inv
    PROVE  /\ Len(linked) \in Nat
           /\ Len(taken) \in Nat
           /\ TailPos \in Nat
           /\ Len(taken) + 1 <= Len(linked)
           /\ \A i \in 1..Len(linked) : linked[i] \in Ptr
<1>1. Len(linked) \in Nat /\ Len(taken) \in Nat /\ \A i \in 1..Len(linked) : linked[i] \in Ptr
  BY DEF Inv, TypeOK
<1>2. TailPos \in 1..Len(linked) /\ Len(taken) < Len(linked)
  BY DEF Inv, TailInv, TakenInLinkOrder
<1> QED
  BY <1>1, <1>2

SameLocals(t) ==
    /\ pc'[t] = pc[t]
    /\ newNode'[t] = newNode[t]
    /\ lHead'[t] = lHead[t]
    /\ lTail'[t] = lTail[t]
    /\ lNext'[t] = lNext[t]

\* The list only grows and head and tail only move forward.
Grows ==
    /\ Len(linked') \in Nat /\ Len(linked) <= Len(linked')
    /\ \A i \in 1..Len(linked) : linked'[i] = linked[i]
    /\ Len(taken') \in Nat /\ Len(taken) <= Len(taken')
    /\ TailPos' \in Nat /\ TailPos <= TailPos'

\* What the copies of a goroutine mean survives every step of the others.
LEMMA LocalGrows ==
    ASSUME Inv, Grows, NEW t \in Thread, SameLocals(t)
    PROVE  Local(t)'
<1>0. Local(t) /\ TailPos \in 1..Len(linked)
  BY DEF Inv, LocalInv, TailInv
<1>a. /\ Len(linked) \in Nat /\ Len(taken) \in Nat /\ TailPos \in Nat
      /\ TailPos <= Len(linked) /\ Len(taken) + 1 <= Len(linked)
  BY <1>0, Numbers
<1>b. /\ Len(linked') \in Nat /\ Len(linked) <= Len(linked')
      /\ Len(taken') \in Nat /\ Len(taken) <= Len(taken')
      /\ TailPos' \in Nat /\ TailPos <= TailPos'
  BY DEF Grows
<1>c. \A i \in 1..Len(linked) : linked'[i] = linked[i]
  BY DEF Grows
<1>d. /\ \A i \in 1..TailPos : i \in 1..TailPos' /\ i \in 1..Len(linked)
      /\ \A i \in 1..(Len(linked) - 1) :
            /\ i \in 1..(Len(linked') - 1)
            /\ i \in 1..Len(linked) /\ i + 1 \in 1..Len(linked)
      /\ \A i \in 1..(Len(taken) + 1) : i \in 1..(Len(taken') + 1) /\ i \in 1..Len(linked)
      /\ \A i \in 1..(TailPos - 1) :
            /\ i \in 1..(TailPos' - 1)
            /\ i \in 1..Len(linked) /\ i + 1 \in 1..Len(linked)
  <2>1. \A i \in 1..TailPos : i \in 1..TailPos' /\ i \in 1..Len(linked)
    BY <1>a, <1>b
  <2>2. \A i \in 1..(Len(linked) - 1) :
            /\ i \in 1..(Len(linked') - 1)
            /\ i \in 1..Len(linked) /\ i + 1 \in 1..Len(linked)
    BY <1>a, <1>b
  <2>3. \A i \in 1..(Len(taken) + 1) : i \in 1..(Len(taken') + 1) /\ i \in 1..Len(linked)
    BY <1>a, <1>b
  <2>4. \A i \in 1..(TailPos - 1) :
            /\ i \in 1..(TailPos' - 1)
            /\ i \in 1..Len(linked) /\ i + 1 \in 1..Len(linked)
    <3>1. \A i \in 1..(TailPos - 1) :
             i \in 1..(TailPos' - 1) /\ i \in 1..TailPos /\ i + 1 \in 1..TailPos
      BY <1>a, <1>b, Intervals
    <3> QED
      BY <2>1, <3>1
  <2> QED
    BY <2>1, <2>2, <2>3, <2>4
<1>1. /\ \A i \in 1..TailPos : i \in 1..TailPos' /\ linked'[i] = linked[i]
      /\ \A i \in 1..(Len(linked) - 1) :
            /\ i \in 1..(Len(linked') - 1)
            /\ linked'[i] = linked[i] /\ linked'[i + 1] = linked[i + 1]
      /\ \A i \in 1..(Len(taken) + 1) : i \in 1..(Len(taken') + 1) /\ linked'[i] = linked[i]
      /\ \A i \in 1..(TailPos - 1) :
            /\ i \in 1..(TailPos' - 1)
            /\ linked'[i] = linked[i] /\ linked'[i + 1] = linked[i + 1]
  BY <1>c, <1>d, Zenon
<1>2. (pc[t] \in {"enqNext", "enqLink"} => \E i \in 1..TailPos : lTail[t] = linked[i])'
  BY <1>0, <1>1 DEF Local, SameLocals
<1>3. (pc[t] \in {"enqHelp", "deqHelp"} =>
          \E i \in 1..(Len(linked) - 1) : lTail[t] = linked[i] /\ lNext[t] = linked[i + 1])'
  BY <1>0, <1>1 DEF Local, SameLocals
<1>4. (pc[t] = "enqSwing" =>
          \E i \in 1..(Len(linked) - 1) : lTail[t] = linked[i] /\ newNode[t] = linked[i + 1])'
  BY <1>0, <1>1 DEF Local, SameLocals
<1>5. (pc[t] = "deqTail" => \E i \in 1..(Len(taken) + 1) : lHead[t] = linked[i])'
  BY <1>0, <1>1 DEF Local, SameLocals
<1>6. ASSUME pc'[t] = "deqNext"
      PROVE  \E i \in 1..(Len(taken') + 1) : \E j \in i..TailPos' :
                lHead'[t] = linked'[i] /\ lTail'[t] = linked'[j]
  <2>1. PICK i \in 1..(Len(taken) + 1) : \E j \in i..TailPos :
           lHead[t] = linked[i] /\ lTail[t] = linked[j]
    BY <1>0, <1>6 DEF Local, SameLocals
  <2>2. PICK j \in i..TailPos : lHead[t] = linked[i] /\ lTail[t] = linked[j]
    BY <2>1
  <2>3. j \in 1..TailPos /\ j \in i..TailPos'
    BY Numbers DEF Grows
  <2>4. lHead'[t] = linked'[i] /\ lTail'[t] = linked'[j] /\ i \in 1..(Len(taken') + 1)
    BY <1>1, <2>2, <2>3 DEF SameLocals
  <2> QED
    BY <2>3, <2>4
<1>7. (pc[t] = "deqSwap" =>
          \E i \in 1..(TailPos - 1) : lHead[t] = linked[i] /\ lNext[t] = linked[i + 1])'
  BY <1>0, <1>1 DEF Local, SameLocals
<1> QED
  BY <1>2, <1>3, <1>4, <1>5, <1>6, <1>7 DEF Local

\* A step that leaves the list and its two pointers alone only has to account
\* for the goroutine that takes it.
LEMMA LocalOnly ==
    ASSUME Inv, UNCHANGED <<next, head, tail, linked, taken>>,
           NEW p \in Thread, TypeOK', FreshInv', Local(p)',
           \A t \in Thread : t # p => SameLocals(t)
    PROVE  Inv'
<1>1. TailPos' = TailPos
  BY DEF TailPos
<1>2. ListInv' /\ TakenInLinkOrder'
  BY DEF Inv, ListInv, TakenInLinkOrder
<1>3. TailInv'
  BY <1>1 DEF Inv, TailInv
<1>4. Grows
  BY <1>1, Numbers DEF Grows
<1>5. LocalInv'
  BY <1>4, LocalGrows DEF LocalInv
<1> QED
  BY <1>2, <1>3, <1>5 DEF Inv

\* FreshInv when no node is allocated or linked
LEMMA FreshFrame ==
    ASSUME Inv, linked' = linked, newNode' = newNode,
           \A q \in Producer : pc'[q] \in {"enqTail", "enqNext", "enqLink", "enqHelp"}
                               => pc[q] \in {"enqTail", "enqNext", "enqLink", "enqHelp"}
    PROVE  FreshInv'
BY DEF Inv, FreshInv

\* A CAS on tail with the copies of any goroutine moves it to the successor or
\* leaves it.
LEMMA TailCAS ==
    ASSUME Inv, NEW i \in 1..(Len(linked) - 1),
           tail' = IF tail = linked[i] THEN linked[i + 1] ELSE tail,
           UNCHANGED <<next, head, linked, taken>>
    PROVE  ListInv' /\ TakenInLinkOrder' /\ TailInv' /\ Grows
<1>1. ListInv' /\ TakenInLinkOrder'
  BY DEF Inv, ListInv, TakenInLinkOrder
<1>2. /\ Len(linked) \in Nat /\ Len(taken) \in Nat
      /\ TailPos \in 1..Len(linked) /\ linked[TailPos] = tail
      /\ TailPos >= Len(linked) - 1 /\ TailPos >= Len(taken) + 1
      /\ \A k, l \in 1..Len(linked) : linked[k] = linked[l] => k = l
  BY Numbers DEF Inv, TailInv, ListInv
<1>3. CASE tail = linked[i]
  <2>1. i = TailPos
    BY <1>2, <1>3
  <2>2. i + 1 \in 1..Len(linked) /\ linked[i + 1] = tail'
    BY <1>2, <1>3
  <2>3. (CHOOSE m \in 1..Len(linked) : linked[m] = tail') = i + 1
    BY <1>2, <2>2, UniquePos
  <2>4. TailPos' = i + 1
    BY <2>3 DEF TailPos
  <2> QED
    BY <1>1, <1>2, <2>1, <2>2, <2>4 DEF TailInv, Grows
<1>4. CASE tail # linked[i]
  <2>1. TailPos' = TailPos
    BY <1>4 DEF TailPos
  <2> QED
    BY <1>1, <1>2, <1>4, <2>1 DEF TailInv, Grows
<1> QED
  BY <1>3, <1>4

(***************************************************************************)
(* Every step keeps the invariant                                          *)
(***************************************************************************)

LEMMA EnqueueKeeps == ASSUME Inv, NEW p \in Producer, Enqueue(p) PROVE Inv'
<1>0. p \in Thread /\ TypeOK
  BY DEF Thread, Inv
<1> DEFINE n == CHOOSE x \in Node \ Allocated : TRUE
<1>1. n \in Node \ Allocated
  BY DEF Enqueue
<1>2. /\ pc' = [pc EXCEPT ![p] = "enqTail"] /\ newNode' = [newNode EXCEPT ![p] = n]
      /\ UNCHANGED <<next, head, tail, count, lHead, lTail, lNext, linked, taken>>
  BY DEF Enqueue, Goto
<1>3. TypeOK'
  BY <1>0, <1>1, <1>2 DEF TypeOK, Labels
<1>4. (\A i \in 1..Len(linked) : linked[i] # n) /\ (\A q \in Producer : newNode[q] # n)
  BY <1>1 DEF Allocated
<1>5. n # nil
  BY <1>1, NodeAssumption
<1>6. FreshInv'
  BY <1>0, <1>1, <1>2, <1>4, <1>5 DEF Inv, FreshInv, TypeOK, Thread
<1>7. Local(p)' /\ \A t \in Thread : t # p => SameLocals(t)
  BY <1>0, <1>2 DEF Local, SameLocals, TypeOK
<1> QED
  BY <1>0, <1>2, <1>3, <1>6, <1>7, LocalOnly

LEMMA EnqLoadTailKeeps == ASSUME Inv, NEW p \in Producer, EnqLoadTail(p) PROVE Inv'
<1>0. p \in Thread /\ TypeOK
  BY DEF Thread, Inv
<1>1. /\ pc[p] = "enqTail"
      /\ pc' = [pc EXCEPT ![p] = "enqNext"] /\ lTail' = [lTail EXCEPT ![p] = tail]
      /\ UNCHANGED <<next, head, tail, count, newNode, lHead, lNext, linked, taken>>
  BY DEF EnqLoadTail, Goto
<1>2. TypeOK'
  BY <1>0, <1>1 DEF TypeOK, Labels
<1>3. FreshInv'
  BY <1>0, <1>1, FreshFrame DEF TypeOK
<1>4. TailPos' = TailPos
  BY <1>1 DEF TailPos
<1>5. TailPos \in 1..TailPos /\ linked[TailPos] = tail
  BY Numbers DEF Inv, TailInv
<1>6. Local(p)'
  BY <1>0, <1>1, <1>4, <1>5 DEF Local, TypeOK
<1>7. \A t \in Thread : t # p => SameLocals(t)
  BY <1>0, <1>1 DEF SameLocals, TypeOK
<1> QED
  BY <1>0, <1>1, <1>2, <1>3, <1>6, <1>7, LocalOnly

\* the successor of a node of the list
LEMMA Successor ==
    ASSUME Inv, NEW i \in 1..Len(linked)
    PROVE  IF next[linked[i]] = nil
           THEN i = Len(linked)
           ELSE i \in 1..(Len(linked) - 1) /\ next[linked[i]] = linked[i + 1]
<1>1. /\ Len(linked) \in Nat
      /\ \A k \in 1..(Len(linked) - 1) : next[linked[k]] = linked[k + 1]
      /\ next[linked[Len(linked)]] = nil
      /\ \A k \in 1..Len(linked) : linked[k] # nil
  BY Numbers, NodeAssumption DEF Inv, ListInv, Ptr
<1>2. CASE i = Len(linked)
  BY <1>1, <1>2
<1>3. CASE i # Len(linked)
  <2>1. i \in 1..(Len(linked) - 1) /\ i + 1 \in 1..Len(linked)
    BY <1>1, <1>3
  <2> QED
    BY <1>1, <2>1
<1> QED
  BY <1>2, <1>3

LEMMA EnqLoadNextKeeps == ASSUME Inv, NEW p \in Producer, EnqLoadNext(p) PROVE Inv'
<1>0. p \in Thread /\ TypeOK
  BY DEF Thread, Inv
<1>1. /\ pc[p] = "enqNext"
      /\ pc' = [pc EXCEPT ![p] = IF next[lTail[p]] = nil THEN "enqLink" ELSE "enqHelp"]
      /\ lNext' = [lNext EXCEPT ![p] = next[lTail[p]]]
      /\ UNCHANGED <<next, head, tail, count, newNode, lHead, lTail, linked, taken>>
  BY DEF EnqLoadNext, Goto
<1>2. PICK i \in 1..TailPos : lTail[p] = linked[i]
  BY <1>0, <1>1 DEF Inv, LocalInv, Local
<1>3. i \in 1..Len(linked) /\ linked[i] \in Ptr
  <2>1. TailPos \in 1..Len(linked) /\ Len(linked) \in Nat
    BY Numbers DEF Inv, TailInv
  <2>2. i \in 1..Len(linked)
    BY <2>1
  <2> QED
    BY <2>2, Numbers
<1>4. TypeOK'
  BY <1>0, <1>1, <1>2, <1>3 DEF TypeOK, Labels
<1>5. FreshInv'
  BY <1>0, <1>1, FreshFrame DEF TypeOK
<1>6. TailPos' = TailPos
  BY <1>1 DEF TailPos
<1>7. Local(p)'
  BY <1>0, <1>1, <1>2, <1>3, <1>6, Successor DEF Local, TypeOK
<1>8. \A t \in Thread : t # p => SameLocals(t)
  BY <1>0, <1>1 DEF SameLocals, TypeOK
<1> QED
  BY <1>0, <1>1, <1>4, <1>5, <1>7, <1>8, LocalOnly

\* the steps that only go on, or return
LEMMA JumpKeeps ==
    ASSUME Inv,
           \/ \E p \in Producer : EnqLinkFails(p) \/ EnqCount(p)
           \/ \E c \in Consumer : DeqEmpty(c) \/ DeqSwapFails(c) \/ DeqCount(c)
    PROVE  Inv'
<1>0. TypeOK /\ count \in Int
  BY DEF Inv, TypeOK
<1>1. ASSUME NEW p \in Producer, EnqLinkFails(p) PROVE Inv'
  <2>0. p \in Thread
    BY DEF Thread
  <2>1. TypeOK'
    BY <1>0, <1>1, <2>0 DEF EnqLinkFails, Goto, TypeOK, Labels
  <2>2. FreshInv'
    BY <1>0, <1>1, <2>0, FreshFrame DEF EnqLinkFails, Goto, TypeOK
  <2>3. Local(p)' /\ \A t \in Thread : t # p => SameLocals(t)
    BY <1>0, <1>1, <2>0 DEF EnqLinkFails, Goto, Local, SameLocals, TypeOK
  <2>4. UNCHANGED <<next, head, tail, linked, taken>>
    BY <1>1 DEF EnqLinkFails
  <2> QED
    BY <2>0, <2>1, <2>2, <2>3, <2>4, LocalOnly
<1>2. ASSUME NEW p \in Producer, EnqCount(p) PROVE Inv'
  <2>0. p \in Thread
    BY DEF Thread
  <2>1. TypeOK'
    BY <1>0, <1>2, <2>0 DEF EnqCount, Goto, TypeOK, Labels
  <2>2. FreshInv'
    BY <1>0, <1>2, <2>0 DEF EnqCount, Goto, TypeOK, Inv, FreshInv, Thread
  <2>3. Local(p)' /\ \A t \in Thread : t # p => SameLocals(t)
    BY <1>0, <1>2, <2>0 DEF EnqCount, Goto, Local, SameLocals, TypeOK
  <2>4. UNCHANGED <<next, head, tail, linked, taken>>
    BY <1>2 DEF EnqCount
  <2> QED
    BY <2>0, <2>1, <2>2, <2>3, <2>4, LocalOnly
<1>3. ASSUME NEW c \in Consumer, DeqEmpty(c) \/ DeqSwapFails(c) \/ DeqCount(c) PROVE Inv'
  <2>0. c \in Thread
    BY DEF Thread
  <2>a. /\ \E x \in {"idle", "deqHead"} : pc' = [pc EXCEPT ![c] = x]
        /\ newNode' = newNode /\ linked' = linked
        /\ lHead' \in {lHead, [lHead EXCEPT ![c] = nil]}
        /\ lTail' \in {lTail, [lTail EXCEPT ![c] = nil]}
        /\ lNext' \in {lNext, [lNext EXCEPT ![c] = nil]}
    BY <1>3 DEF DeqEmpty, DeqSwapFails, DeqCount, Goto
  <2>c. count' \in Int /\ UNCHANGED <<next, head, tail, taken>>
    BY <1>0, <1>3 DEF DeqEmpty, DeqSwapFails, DeqCount
  <2>1. TypeOK'
    <3>1. pc' \in [Thread -> Labels]
      BY <1>0, <2>a DEF TypeOK, Labels
    <3>2. lHead' \in [Thread -> Ptr \cup {nil}]
      BY <1>0, <2>a DEF TypeOK
    <3>3. lTail' \in [Thread -> Ptr \cup {nil}]
      BY <1>0, <2>a DEF TypeOK
    <3>4. lNext' \in [Thread -> Ptr \cup {nil}]
      BY <1>0, <2>a DEF TypeOK
    <3> QED
      BY <1>0, <2>a, <2>c, <3>1, <3>2, <3>3, <3>4 DEF TypeOK
  <2>b. pc'[c] \in {"idle", "deqHead"} /\ \A t \in Thread : t # c => pc'[t] = pc[t]
    BY <1>0, <2>0, <2>a DEF TypeOK
  <2>2. FreshInv'
    <3>1. \A q \in Producer : q \in Thread
      BY DEF Thread
    <3>2. \A q \in Producer : pc'[q] \in {"enqTail", "enqNext", "enqLink", "enqHelp"}
                              => pc[q] \in {"enqTail", "enqNext", "enqLink", "enqHelp"}
      BY <2>b, <3>1
    <3> QED
      BY <2>a, <3>2, FreshFrame
  <2>3. Local(c)' /\ \A t \in Thread : t # c => SameLocals(t)
    <3>1. Local(c)'
      BY <2>b DEF Local
    <3>2. \A t \in Thread : t # c => lHead'[t] = lHead[t]
      BY <1>0, <2>a DEF TypeOK
    <3>3. \A t \in Thread : t # c => lTail'[t] = lTail[t]
      BY <1>0, <2>a DEF TypeOK
    <3>4. \A t \in Thread : t # c => lNext'[t] = lNext[t]
      BY <1>0, <2>a DEF TypeOK
    <3> QED
      BY <2>a, <2>b, <3>1, <3>2, <3>3, <3>4 DEF SameLocals
  <2>4. UNCHANGED <<next, head, tail, linked, taken>>
    BY <1>3 DEF DeqEmpty, DeqSwapFails, DeqCount
  <2> QED
    BY <2>0, <2>1, <2>2, <2>3, <2>4, LocalOnly
<1> QED
  BY <1>1, <1>2, <1>3

LEMMA DeqLoadHeadKeeps == ASSUME Inv, NEW c \in Consumer, DeqLoadHead(c) PROVE Inv'
<1>0. c \in Thread /\ TypeOK
  BY DEF Thread, Inv
<1>1. /\ pc[c] \in {"idle", "deqHead"}
      /\ pc' = [pc EXCEPT ![c] = "deqTail"] /\ lHead' = [lHead EXCEPT ![c] = head]
      /\ UNCHANGED <<next, head, tail, count, newNode, lTail, lNext, linked, taken>>
  BY DEF DeqLoadHead
<1>2. TypeOK'
  BY <1>0, <1>1 DEF TypeOK, Labels
<1>3. FreshInv'
  BY <1>0, <1>1, FreshFrame DEF TypeOK
<1>4. Len(taken) + 1 \in 1..(Len(taken) + 1) /\ head = linked[Len(taken) + 1]
  BY Numbers DEF Inv, TakenInLinkOrder
<1>5. Local(c)'
  BY <1>0, <1>1, <1>4 DEF Local, TypeOK
<1>6. \A t \in Thread : t # c => SameLocals(t)
  BY <1>0, <1>1 DEF SameLocals, TypeOK
<1> QED
  BY <1>0, <1>1, <1>2, <1>3, <1>5, <1>6, LocalOnly

LEMMA DeqLoadTailKeeps == ASSUME Inv, NEW c \in Consumer, DeqLoadTail(c) PROVE Inv'
<1>0. c \in Thread /\ TypeOK
  BY DEF Thread, Inv
<1>1. /\ pc[c] = "deqTail"
      /\ pc' = [pc EXCEPT ![c] = "deqNext"] /\ lTail' = [lTail EXCEPT ![c] = tail]
      /\ UNCHANGED <<next, head, tail, count, newNode, lHead, lNext, linked, taken>>
  BY DEF DeqLoadTail, Goto
<1>2. TypeOK'
  BY <1>0, <1>1 DEF TypeOK, Labels
<1>3. FreshInv'
  BY <1>0, <1>1, FreshFrame DEF TypeOK
<1>4. PICK i \in 1..(Len(taken) + 1) : lHead[c] = linked[i]
  BY <1>0, <1>1 DEF Inv, LocalInv, Local
<1>5. TailPos \in i..TailPos /\ linked[TailPos] = tail
  BY Numbers DEF Inv, TailInv
<1>6. TailPos' = TailPos
  BY <1>1 DEF TailPos
<1>7. pc'[c] = "deqNext" /\ lHead'[c] = linked'[i] /\ lTail'[c] = linked'[TailPos']
  BY <1>0, <1>1, <1>4, <1>5, <1>6 DEF TypeOK
<1>8. \E k \in 1..(Len(taken') + 1) : \E j \in k..TailPos' :
         lHead'[c] = linked'[k] /\ lTail'[c] = linked'[j]
  BY <1>1, <1>5, <1>6, <1>7
<1>9. Local(c)'
  BY <1>7, <1>8 DEF Local
<1>10. \A t \in Thread : t # c => SameLocals(t)
  BY <1>0, <1>1 DEF SameLocals, TypeOK
<1> QED
  BY <1>0, <1>1, <1>2, <1>3, <1>9, <1>10, LocalOnly

LEMMA DeqLoadNextKeeps == ASSUME Inv, NEW c \in Consumer, DeqLoadNext(c) PROVE Inv'
<1>0. c \in Thread /\ TypeOK
  BY DEF Thread, Inv
<1>1. /\ pc[c] = "deqNext"
      /\ pc' = [pc EXCEPT ![c] = IF lHead[c] = lTail[c] THEN "deqHelp" ELSE "deqSwap"]
      /\ lHead[c] = lTail[c] => next[lHead[c]] # nil
      /\ lNext' = [lNext EXCEPT ![c] = next[lHead[c]]]
      /\ UNCHANGED <<next, head, tail, count, newNode, lHead, lTail, linked, taken>>
  BY DEF DeqLoadNext, Goto
<1>2. PICK i \in 1..(Len(taken) + 1) : \E j \in i..TailPos :
         lHead[c] = linked[i] /\ lTail[c] = linked[j]
  BY <1>0, <1>1 DEF Inv, LocalInv, Local
<1>3. PICK j \in i..TailPos : lHead[c] = linked[i] /\ lTail[c] = linked[j]
  BY <1>2
<1>4. /\ i \in 1..Len(linked) /\ linked[i] \in Ptr
      /\ Len(linked) \in Nat /\ TailPos \in 1..Len(linked) /\ j \in i..Len(linked)
  BY Numbers DEF Inv, TailInv
<1>5. TypeOK'
  BY <1>0, <1>1, <1>3, <1>4 DEF TypeOK, Labels
<1>6. FreshInv'
  BY <1>0, <1>1, FreshFrame DEF TypeOK
<1>7. TailPos' = TailPos
  BY <1>1 DEF TailPos
<1>8. CASE lHead[c] = lTail[c]
  <2>1. i \in 1..(Len(linked) - 1) /\ next[linked[i]] = linked[i + 1]
    BY <1>1, <1>3, <1>4, <1>8, Successor
  <2>2. pc'[c] = "deqHelp" /\ lTail'[c] = linked'[i] /\ lNext'[c] = linked'[i + 1]
    BY <1>0, <1>1, <1>3, <1>8, <2>1 DEF TypeOK
  <2>3. Local(c)'
    BY <1>1, <2>1, <2>2 DEF Local
  <2>4. \A t \in Thread : t # c => SameLocals(t)
    BY <1>0, <1>1 DEF SameLocals, TypeOK
  <2> QED
    BY <1>0, <1>1, <1>5, <1>6, <2>3, <2>4, LocalOnly
<1>9. CASE lHead[c] # lTail[c]
  <2>1. i # j
    BY <1>3, <1>9
  <2>2. i \in 1..(TailPos - 1) /\ i # Len(linked)
    BY <1>4, <2>1
  <2>3. next[linked[i]] = linked[i + 1]
    BY <1>4, <2>2, Successor
  <2>4. pc'[c] = "deqSwap" /\ lHead'[c] = linked'[i] /\ lNext'[c] = linked'[i + 1]
    BY <1>0, <1>1, <1>3, <1>9, <2>3 DEF TypeOK
  <2>5. \E k \in 1..(TailPos' - 1) : lHead'[c] = linked'[k] /\ lNext'[c] = linked'[k + 1]
    BY <1>7, <2>2, <2>4
  <2>6. Local(c)'
    BY <2>4, <2>5 DEF Local
  <2>7. \A t \in Thread : t # c => SameLocals(t)
    BY <1>0, <1>1 DEF SameLocals, TypeOK
  <2> QED
    BY <1>0, <1>1, <1>5, <1>6, <2>6, <2>7, LocalOnly
<1> QED
  BY <1>8, <1>9

\* the three places that help tail forward
LEMMA TailStepKeeps ==
    ASSUME Inv,
           \/ \E p \in Producer : EnqHelp(p) \/ EnqSwing(p)
           \/ \E c \in Consumer : DeqHelp(c)
    PROVE  Inv'
<1>0. TypeOK
  BY DEF Inv
<1>1. PICK t \in Thread, y \in {"enqTail", "enqCount", "deqHead"} :
         /\ pc[t] \in {"enqHelp", "deqHelp", "enqSwing"}
         /\ y = "enqTail" => pc[t] = "enqHelp"
         /\ pc' = [pc EXCEPT ![t] = y]
         /\ tail' = IF tail = lTail[t]
                    THEN IF pc[t] = "enqSwing" THEN newNode[t] ELSE lNext[t]
                    ELSE tail
         /\ UNCHANGED <<next, head, count, newNode, lHead, lTail, lNext, linked, taken>>
  BY DEF EnqHelp, EnqSwing, DeqHelp, Goto, Thread
<1>2. PICK i \in 1..(Len(linked) - 1) :
         /\ lTail[t] = linked[i]
         /\ (IF pc[t] = "enqSwing" THEN newNode[t] ELSE lNext[t]) = linked[i + 1]
  BY <1>1 DEF Inv, LocalInv, Local
<1>3. ListInv' /\ TakenInLinkOrder' /\ TailInv' /\ Grows
  BY <1>1, <1>2, TailCAS
<1>4. i + 1 \in 1..Len(linked) /\ linked[i + 1] \in Ptr
  BY Numbers
<1>5. TypeOK'
  BY <1>0, <1>1, <1>2, <1>4 DEF TypeOK, Labels
<1>6. \A q \in Thread : q # t => pc'[q] = pc[q]
  BY <1>0, <1>1 DEF TypeOK
<1>7. pc'[t] = y
  BY <1>0, <1>1 DEF TypeOK
<1>8. FreshInv'
  <2>1. \A q \in Producer : pc'[q] \in {"enqTail", "enqNext", "enqLink", "enqHelp"}
                            => pc[q] \in {"enqTail", "enqNext", "enqLink", "enqHelp"}
    BY <1>1, <1>6, <1>7 DEF Thread
  <2> QED
    BY <1>1, <2>1, FreshFrame
<1>9. Local(t)'
  BY <1>7 DEF Local
<1>10. \A q \in Thread : q # t => SameLocals(q)
  BY <1>1, <1>6 DEF SameLocals
<1>11. LocalInv'
  BY <1>3, <1>9, <1>10, LocalGrows DEF LocalInv
<1> QED
  BY <1>3, <1>5, <1>8, <1>11 DEF Inv

\* The CAS of Enqueue succeeds only behind the last node, and only when tail is
\* that node.
LEMMA LinkFacts ==
    ASSUME Inv, NEW p \in Producer, EnqLink(p)
    PROVE  /\ TailPos = Len(linked)
           /\ lTail[p] = linked[Len(linked)]
           /\ newNode[p] \in Node
           /\ \A i \in 1..Len(linked) : linked[i] # newNode[p]
<1>1. p \in Thread /\ pc[p] = "enqLink" /\ next[lTail[p]] = nil
  BY DEF EnqLink, Goto, Thread
<1>2. PICK i \in 1..TailPos : lTail[p] = linked[i]
  BY <1>1 DEF Inv, LocalInv, Local
<1>3. TailPos \in 1..Len(linked) /\ Len(linked) \in Nat
  BY Numbers DEF Inv, TailInv
<1>4. i \in 1..Len(linked)
  BY <1>3
<1>5. i = Len(linked)
  BY <1>1, <1>2, <1>4, Successor
<1>6. TailPos = Len(linked)
  BY <1>3, <1>5
<1>7. newNode[p] \in Node /\ \A k \in 1..Len(linked) : linked[k] # newNode[p]
  BY <1>1 DEF Inv, FreshInv
<1> QED
  BY <1>2, <1>5, <1>6, <1>7

LEMMA EnqLinkKeeps == ASSUME Inv, NEW p \in Producer, EnqLink(p) PROVE Inv'
<1> DEFINE L == Len(linked)
           n == newNode[p]
<1>0. p \in Thread /\ TypeOK /\ pc[p] = "enqLink"
  BY DEF Thread, Inv, EnqLink, Goto
<1>1. /\ pc' = [pc EXCEPT ![p] = "enqSwing"]
      /\ next' = [next EXCEPT ![lTail[p]] = n]
      /\ linked' = Append(linked, n)
      /\ UNCHANGED <<head, tail, count, newNode, lHead, lTail, lNext, taken>>
  BY DEF EnqLink, Goto
<1>2. /\ TailPos = L /\ lTail[p] = linked[L] /\ n \in Node
      /\ \A i \in 1..L : linked[i] # n
  BY LinkFacts
<1>3. /\ L \in Nat /\ L >= 1 /\ Len(taken) \in Nat /\ Len(taken) + 1 <= L
      /\ \A i \in 1..L : linked[i] \in Ptr
  BY Numbers DEF Inv, ListInv
<1>4. n \in Ptr /\ linked \in Seq(Ptr)
  BY <1>0, <1>2 DEF Ptr, TypeOK
<1>5. /\ linked' \in Seq(Ptr) /\ Len(linked') = L + 1
      /\ \A i \in 1..L : linked'[i] = linked[i]
      /\ linked'[L + 1] = n
  BY <1>1, <1>4
<1>6. TypeOK'
  <2>1. next' \in [Ptr -> Ptr \cup {nil}]
    BY <1>0, <1>1, <1>4 DEF TypeOK
  <2> QED
    BY <1>0, <1>1, <1>5, <2>1 DEF TypeOK, Labels
<1>7. \A i, j \in 1..(L + 1) : linked'[i] = linked'[j] => i = j
  <2> SUFFICES ASSUME NEW i \in 1..(L + 1), NEW j \in 1..(L + 1), linked'[i] = linked'[j]
               PROVE  i = j
    OBVIOUS
  <2>1. (i \in 1..L \/ i = L + 1) /\ (j \in 1..L \/ j = L + 1)
    BY <1>3
  <2>2. \A k, l \in 1..L : linked[k] = linked[l] => k = l
    BY DEF Inv, ListInv
  <2> QED
    BY <1>2, <1>5, <2>1, <2>2
<1>8. ListInv'
  <2>1. \A x \in Ptr : next'[x] = IF x = linked[L] THEN n ELSE next[x]
    BY <1>0, <1>1, <1>2, <1>3 DEF TypeOK
  <2>2. \A i \in 1..((L + 1) - 1) : next'[linked'[i]] = linked'[i + 1]
    <3> SUFFICES ASSUME NEW i \in 1..L PROVE next'[linked[i]] = linked'[i + 1]
      BY <1>3, <1>5
    <3>1. CASE i = L
      BY <1>3, <1>5, <2>1, <3>1
    <3>2. CASE i # L
      <4>1. i \in 1..(L - 1) /\ i + 1 \in 1..L /\ L \in 1..L
        BY <1>3, <3>2
      <4>2. linked[i] # linked[L] /\ next[linked[i]] = linked[i + 1]
        BY <3>2, <4>1 DEF Inv, ListInv
      <4> QED
        BY <1>3, <1>5, <2>1, <4>1, <4>2
    <3> QED
      BY <3>1, <3>2
  <2>3. next'[linked'[L + 1]] = nil
    <3>1. n # linked[L] /\ next[n] = nil
      BY <1>2, <1>3, <1>4 DEF Inv, ListInv
    <3> QED
      BY <1>4, <1>5, <2>1, <3>1
  <2>4. \A x \in Ptr : (\A i \in 1..(L + 1) : linked'[i] # x) => next'[x] = nil
    <3> SUFFICES ASSUME NEW x \in Ptr, \A i \in 1..(L + 1) : linked'[i] # x
                 PROVE  next'[x] = nil
      OBVIOUS
    <3>1. \A i \in 1..L : i \in 1..(L + 1)
      BY <1>3
    <3>2. \A i \in 1..L : linked[i] # x
      BY <1>5, <3>1
    <3>3. x # linked[L] /\ next[x] = nil
      BY <1>3, <3>2 DEF Inv, ListInv
    <3> QED
      BY <2>1, <3>3
  <2> QED
    BY <1>3, <1>5, <1>7, <2>2, <2>3, <2>4 DEF ListInv
<1>9. FreshInv'
  <2>1. \A q \in Producer : q \in Thread
    BY DEF Thread
  <2>2. n # nil
    BY <1>2, NodeAssumption
  <2>3. \A q \in Producer : q # p => pc'[q] = pc[q] /\ newNode[q] # n
    BY <1>0, <1>1, <2>1, <2>2 DEF Inv, FreshInv, TypeOK
  <2>4. pc'[p] = "enqSwing"
    BY <1>0, <1>1 DEF TypeOK
  <2>5. \A i \in 1..(L + 1) : i \in 1..L \/ i = L + 1
    BY <1>3
  <2>6. ASSUME NEW q \in Producer,
               pc'[q] \in {"enqTail", "enqNext", "enqLink", "enqHelp"}
        PROVE  newNode'[q] \in Node /\ \A i \in 1..Len(linked') : linked'[i] # newNode'[q]
    <3>1. q # p /\ pc[q] \in {"enqTail", "enqNext", "enqLink", "enqHelp"}
      BY <2>3, <2>4, <2>6
    <3>2. newNode[q] \in Node /\ \A i \in 1..L : linked[i] # newNode[q]
      BY <3>1 DEF Inv, FreshInv
    <3> QED
      BY <1>1, <1>5, <2>3, <2>5, <3>1, <3>2
  <2>7. \A q, r \in Producer : q # r /\ newNode'[q] # nil => newNode'[q] # newNode'[r]
    BY <1>1 DEF Inv, FreshInv
  <2> QED
    BY <2>6, <2>7 DEF FreshInv
<1>10. TailPos' = L
  <2>1. L \in 1..Len(linked') /\ linked'[L] = tail'
    BY <1>1, <1>2, <1>3, <1>5 DEF Inv, TailInv
  <2>2. (CHOOSE m \in 1..Len(linked') : linked'[m] = tail') = L
    BY <1>5, <1>7, <2>1, UniquePos
  <2> QED
    BY <2>2 DEF TailPos
<1>11. TailInv'
  <2>1. linked'[L] = tail'
    BY <1>1, <1>2, <1>3, <1>5 DEF Inv, TailInv
  <2> QED
    BY <1>1, <1>3, <1>5, <1>10, <2>1 DEF TailInv
<1>12. TakenInLinkOrder'
  <2>1. \A i \in 1..Len(taken) : i + 1 \in 1..L
    BY <1>3
  <2>2. \A i \in 1..Len(taken) : taken[i] = linked'[i + 1]
    BY <1>5, <2>1 DEF Inv, TakenInLinkOrder
  <2>3. Len(taken) + 1 \in 1..L
    BY <1>3
  <2>4. head = linked'[Len(taken) + 1]
    BY <1>5, <2>3 DEF Inv, TakenInLinkOrder
  <2> QED
    BY <1>1, <1>3, <1>5, <2>2, <2>4 DEF TakenInLinkOrder
<1>13. Grows
  BY <1>1, <1>2, <1>3, <1>5, <1>10 DEF Grows
<1>14. Local(p)'
  <2>1. pc'[p] = "enqSwing"
    BY <1>0, <1>1 DEF TypeOK
  <2>2. L \in 1..(Len(linked') - 1) /\ lTail'[p] = linked'[L] /\ newNode'[p] = linked'[L + 1]
    BY <1>1, <1>2, <1>3, <1>5
  <2> QED
    BY <2>1, <2>2 DEF Local
<1>15. \A t \in Thread : t # p => SameLocals(t)
  BY <1>0, <1>1 DEF SameLocals, TypeOK
<1>16. LocalInv'
  BY <1>13, <1>14, <1>15, LocalGrows DEF LocalInv
<1> QED
  BY <1>6, <1>8, <1>9, <1>11, <1>12, <1>16 DEF Inv

\* The CAS of Dequeue succeeds only with the successor of head.
LEMMA SwapFacts ==
    ASSUME Inv, NEW c \in Consumer, DeqSwap(c)
    PROVE  /\ Len(taken) + 2 <= TailPos
           /\ lNext[c] = linked[Len(taken) + 2]
<1>1. c \in Thread /\ pc[c] = "deqSwap" /\ head = lHead[c]
  BY DEF DeqSwap, Goto, Thread
<1>2. PICK i \in 1..(TailPos - 1) : lHead[c] = linked[i] /\ lNext[c] = linked[i + 1]
  BY <1>1 DEF Inv, LocalInv, Local
<1>3. /\ Len(linked) \in Nat /\ Len(taken) \in Nat /\ Len(taken) + 1 <= Len(linked)
      /\ TailPos \in 1..Len(linked) /\ head = linked[Len(taken) + 1]
      /\ \A k, l \in 1..Len(linked) : linked[k] = linked[l] => k = l
  BY Numbers DEF Inv, TailInv, TakenInLinkOrder, ListInv
<1>4. i \in 1..Len(linked) /\ Len(taken) + 1 \in 1..Len(linked)
  BY <1>3
<1>5. i = Len(taken) + 1
  BY <1>1, <1>2, <1>3, <1>4
<1>6. i + 1 = Len(taken) + 2
  BY <1>3, <1>5
<1> QED
  BY <1>2, <1>3, <1>6

LEMMA DeqSwapKeeps == ASSUME Inv, NEW c \in Consumer, DeqSwap(c) PROVE Inv'
<1> DEFINE T == Len(taken)
<1>0. c \in Thread /\ TypeOK /\ pc[c] = "deqSwap"
  BY DEF Thread, Inv, DeqSwap, Goto
<1>1. /\ pc' = [pc EXCEPT ![c] = "deqCount"]
      /\ head' = lNext[c] /\ taken' = Append(taken, lNext[c])
      /\ UNCHANGED <<next, tail, count, newNode, lHead, lTail, lNext, linked>>
  BY DEF DeqSwap, Goto
<1>2. T + 2 <= TailPos /\ lNext[c] = linked[T + 2]
  BY SwapFacts
<1>3. T \in Nat /\ Len(linked) \in Nat /\ TailPos \in 1..Len(linked)
  BY Numbers DEF Inv, TailInv
<1>4. T + 2 \in 1..Len(linked) /\ linked[T + 2] \in Ptr
  <2>1. T + 2 \in 1..Len(linked)
    BY <1>2, <1>3
  <2> QED
    BY <2>1, Numbers
<1>5. /\ taken' \in Seq(Ptr) /\ Len(taken') = T + 1
      /\ \A i \in 1..T : taken'[i] = taken[i]
      /\ taken'[T + 1] = linked[T + 2]
  BY <1>0, <1>1, <1>2, <1>4 DEF TypeOK
<1>6. TypeOK'
  BY <1>0, <1>1, <1>2, <1>4, <1>5 DEF TypeOK, Labels
<1>7. ListInv'
  BY <1>1 DEF Inv, ListInv
<1>8. FreshInv'
  BY <1>0, <1>1, FreshFrame DEF TypeOK
<1>9. TailPos' = TailPos
  BY <1>1 DEF TailPos
<1>10. TailInv'
  BY <1>1, <1>2, <1>3, <1>5, <1>9 DEF Inv, TailInv
<1>11. TakenInLinkOrder'
  <2>1. \A i \in 1..(T + 1) : i \in 1..T \/ i = T + 1
    BY <1>3
  <2>2. \A i \in 1..(T + 1) : taken'[i] = linked[i + 1]
    <3> SUFFICES ASSUME NEW i \in 1..(T + 1) PROVE taken'[i] = linked[i + 1]
      OBVIOUS
    <3>1. CASE i \in 1..T
      BY <1>5, <3>1 DEF Inv, TakenInLinkOrder
    <3>2. CASE i = T + 1
      <4>1. i + 1 = T + 2
        BY <1>3, <3>2
      <4> QED
        BY <1>5, <3>2, <4>1
    <3> QED
      BY <2>1, <3>1, <3>2
  <2>3. (T + 1) + 1 = T + 2
    BY <1>3
  <2>4. head' = linked[(T + 1) + 1]
    BY <1>1, <1>2, <2>3
  <2>5. T + 1 < Len(linked)
    BY <1>3, <1>4
  <2> QED
    BY <1>1, <1>5, <2>2, <2>4, <2>5 DEF TakenInLinkOrder
<1>12. Grows
  BY <1>1, <1>3, <1>5, <1>9 DEF Grows
<1>13. Local(c)' /\ \A t \in Thread : t # c => SameLocals(t)
  BY <1>0, <1>1 DEF Local, SameLocals, TypeOK
<1>14. LocalInv'
  BY <1>12, <1>13, LocalGrows DEF LocalInv
<1> QED
  BY <1>6, <1>7, <1>8, <1>10, <1>11, <1>14 DEF Inv

LEMMA InvInit == Init => Inv
<1> SUFFICES ASSUME Init PROVE Inv
  OBVIOUS
<1>1. linked = <<Dummy>> /\ taken = << >> /\ tail = Dummy /\ head = Dummy
  BY DEF Init
<1>2. Len(linked) = 1 /\ Len(taken) = 0 /\ linked[1] = Dummy
  BY <1>1
<1>3. TypeOK
  BY <1>1 DEF Init, TypeOK, Labels, Ptr
<1>4. ListInv
  BY <1>2 DEF Init, ListInv, Ptr
<1>5. FreshInv
  BY DEF Init, FreshInv, Thread
<1>6. TakenInLinkOrder
  BY <1>1, <1>2 DEF TakenInLinkOrder
<1>7. TailPos = 1
  BY <1>1, <1>2, UniquePos DEF TailPos
<1>8. TailInv
  BY <1>1, <1>2, <1>7 DEF TailInv
<1>9. LocalInv
  BY DEF Init, LocalInv, Local
<1> QED
  BY <1>3, <1>4, <1>5, <1>6, <1>8, <1>9 DEF Inv

LEMMA InvStep == Inv /\ [Next]_vars => Inv'
<1> SUFFICES ASSUME Inv, [Next]_vars PROVE Inv'
  OBVIOUS
<1>1. ASSUME UNCHANGED vars PROVE Inv'
  <2>1. TailPos' = TailPos
    BY <1>1 DEF vars, TailPos
  <2>2. TypeOK' /\ ListInv' /\ FreshInv' /\ TakenInLinkOrder'
    BY <1>1 DEF vars, Inv, TypeOK, ListInv, FreshInv, TakenInLinkOrder
  <2>3. TailInv' /\ Grows
    BY <1>1, <2>1, Numbers DEF vars, Inv, TailInv, Grows
  <2>4. LocalInv'
    BY <1>1, <2>3, LocalGrows DEF LocalInv, SameLocals, vars
  <2> QED
    BY <2>2, <2>3, <2>4 DEF Inv
<1>2. ASSUME NEW p \in Producer, Enqueue(p) \/ EnqueueStep(p) PROVE Inv'
  BY <1>2, EnqueueKeeps, EnqLoadTailKeeps, EnqLoadNextKeeps, EnqLinkKeeps, JumpKeeps,
     TailStepKeeps DEF EnqueueStep
<1>3. ASSUME NEW c \in Consumer, DequeueStep(c) PROVE Inv'
  BY <1>3, DeqLoadHeadKeeps, DeqLoadTailKeeps, DeqLoadNextKeeps, DeqSwapKeeps, JumpKeeps,
     TailStepKeeps DEF DequeueStep
<1> QED
  BY <1>1, <1>2, <1>3 DEF Next

LEMMA Invariance == Spec => []Inv
BY InvInit, InvStep, PTL DEF Spec

(***************************************************************************)
(* What follows                                                            *)
(***************************************************************************)

\* Every pointer is nil or a node, for any number of goroutines.
THEOREM TypeCorrect == Spec => []TypeOK
<1>1. Inv => TypeOK
  BY DEF Inv
<1> QED
  BY <1>1, Invariance, PTL

\* No task is lost, duplicated or overtaken by any interleaving of Enqueue and
\* Dequeue: the property TakenInLinkOrder of the run, for any number of
\* producers, consumers and tasks.
THEOREM NothingLost == Spec => []TakenInLinkOrder
<1>1. Inv => TakenInLinkOrder
  BY DEF Inv
<1> QED
  BY <1>1, Invariance, PTL

\* tail is the last node or the one before it and never behind head.
THEOREM TailFollows == Spec => []TailNearEnd
<1>1. Inv => TailNearEnd
  <2> SUFFICES ASSUME Inv PROVE TailNearEnd
    OBVIOUS
  <2>1. /\ TailPos \in (Len(taken) + 1)..Len(linked)
        /\ tail = linked[TailPos] /\ TailPos >= Len(linked) - 1
    BY Numbers DEF Inv, TailInv
  <2> QED
    BY <2>1 DEF TailNearEnd
<1> QED
  BY <1>1, Invariance, PTL

\* The pointer Dequeue dereferences without a check is never nil.
THEOREM NoNilDereference == Spec => []NextIsNotNil
<1>1. Inv => NextIsNotNil
  <2> SUFFICES ASSUME Inv, NEW c \in Consumer, pc[c] = "deqSwap" PROVE lNext[c] # nil
    BY DEF NextIsNotNil
  <2>1. PICK i \in 1..(TailPos - 1) : lNext[c] = linked[i + 1]
    BY DEF Inv, LocalInv, Local, Thread
  <2>2. TailPos \in 1..Len(linked) /\ Len(linked) \in Nat
    BY Numbers DEF Inv, TailInv
  <2>3. i + 1 \in 1..Len(linked)
    BY <2>2
  <2> QED
    BY <2>1, <2>3, Numbers, NodeAssumption DEF Ptr
<1> QED
  BY <1>1, Invariance, PTL

\* Dequeue returns nil only when the queue is empty at that moment, so the drain
\* loop of TaskManager.Tick leaves nothing behind.
THEOREM NilOnlyWhenEmpty == Spec => NilMeansEmpty
<1>1. Inv => (\A c \in Consumer : DeqEmpty(c) => Pending = << >>)
  <2> SUFFICES ASSUME Inv, NEW c \in Consumer, DeqEmpty(c) PROVE Pending = << >>
    OBVIOUS
  <2>1. c \in Thread /\ pc[c] = "deqNext" /\ lHead[c] = lTail[c] /\ next[lHead[c]] = nil
    BY DEF DeqEmpty, Goto, Thread
  <2>2. PICK i \in 1..(Len(taken) + 1) : lHead[c] = linked[i]
    BY <2>1 DEF Inv, LocalInv, Local
  <2>3. /\ Len(linked) \in Nat /\ Len(taken) \in Nat /\ Len(taken) + 1 <= Len(linked)
        /\ linked \in Seq(Ptr)
    BY Numbers DEF Inv, TypeOK
  <2>4. i \in 1..Len(linked)
    BY <2>3
  <2>5. i = Len(linked)
    BY <2>1, <2>2, <2>4, Successor
  <2>6. Len(taken) + 2 > Len(linked)
    BY <2>3, <2>5
  <2> QED
    BY <2>3, <2>6, SubSeqProperties DEF Pending
<1> QED
  BY <1>1, Invariance, PTL DEF NilMeansEmpty

(***************************************************************************)
(* The list implements the atomic queue                                    *)
(***************************************************************************)

\* what the abstract queue holds, element by element
PendingShape ==
    /\ Pending \in Seq(Ptr)
    /\ Len(Pending) = Len(linked) - Len(taken) - 1
    /\ \A i \in 1..(Len(linked) - Len(taken) - 1) : Pending[i] = linked[Len(taken) + 1 + i]

\* the abstract queue is the part of the list behind the dummy node
LEMMA PendingIs == Inv => PendingShape
<1> SUFFICES ASSUME Inv PROVE PendingShape
  OBVIOUS
<1> DEFINE m == Len(taken) + 2
           n == Len(linked)
<1>1. m \in Int /\ n \in Int /\ m - 1 <= n /\ m >= 2 /\ Len(taken) \in Nat
  BY Numbers
<1>2. \A i \in m..n : linked[i] \in Ptr
  BY <1>1, Numbers
<1> HIDE DEF m, n
<1>3. /\ SubSeq(linked, m, n) \in Seq(Ptr)
      /\ Len(SubSeq(linked, m, n)) = IF m <= n THEN n - m + 1 ELSE 0
      /\ \A i \in 1..(n - m + 1) : SubSeq(linked, m, n)[i] = linked[m + i - 1]
  BY <1>1, <1>2, SubSeqProperties
<1> USE DEF m, n
<1>4. \A i \in 1..(n - m + 1) : m + i - 1 = Len(taken) + 1 + i
  BY <1>1
<1>5. n - m + 1 = Len(linked) - Len(taken) - 1
  BY <1>1
<1>6. Len(SubSeq(linked, m, n)) = Len(linked) - Len(taken) - 1
  BY <1>1, <1>3
<1> QED
  BY <1>3, <1>4, <1>5, <1>6 DEF Pending, PendingShape

\* a successful link is the Put of the atomic queue
LEMMA LinkIsPut ==
    ASSUME Inv, Inv', NEW p \in Producer, EnqLink(p)
    PROVE  Fifo!Put(newNode[p]) /\ newNode[p] \in Node
<1> DEFINE n == newNode[p]
           k == Len(linked) - Len(taken) - 1
<1>1. linked' = Append(linked, n) /\ taken' = taken /\ n \in Node /\ n \in Ptr
  BY LinkFacts DEF EnqLink, Ptr
<1>2. linked \in Seq(Ptr) /\ Len(linked) \in Nat /\ Len(taken) \in Nat /\ k \in Nat
  BY Numbers DEF Inv, TypeOK
<1>3. /\ Len(linked') = Len(linked) + 1
      /\ \A i \in 1..Len(linked) : linked'[i] = linked[i]
      /\ linked'[Len(linked) + 1] = n
  BY <1>1, <1>2
<1>4. /\ Pending \in Seq(Ptr) /\ Len(Pending) = k
      /\ \A i \in 1..k : Pending[i] = linked[Len(taken) + 1 + i]
  BY PendingIs DEF PendingShape
<1>5. /\ Pending' \in Seq(Ptr) /\ Len(Pending') = Len(linked') - Len(taken') - 1
      /\ \A i \in 1..(Len(linked') - Len(taken') - 1) : Pending'[i] = linked'[Len(taken') + 1 + i]
  <2>1. PendingShape'
    BY PendingIs, PTL
  <2> QED
    BY <2>1 DEF PendingShape
<1>6. Len(linked') - Len(taken') - 1 = k + 1
  BY <1>1, <1>2, <1>3
<1>7. /\ Append(Pending, n) \in Seq(Ptr) /\ Len(Append(Pending, n)) = k + 1
      /\ \A i \in 1..k : Append(Pending, n)[i] = Pending[i]
      /\ Append(Pending, n)[k + 1] = n
  BY <1>1, <1>4
<1>8. \A i \in 1..(k + 1) : Pending'[i] = Append(Pending, n)[i]
  <2> SUFFICES ASSUME NEW i \in 1..(k + 1) PROVE Pending'[i] = Append(Pending, n)[i]
    OBVIOUS
  <2>1. Pending'[i] = linked'[Len(taken) + 1 + i]
    BY <1>1, <1>5, <1>6
  <2>2. CASE i \in 1..k
    <3>1. Len(taken) + 1 + i \in 1..Len(linked)
      BY <1>2, <2>2
    <3> QED
      BY <1>3, <1>4, <1>7, <2>1, <2>2, <3>1
  <2>3. CASE i = k + 1
    <3>1. Len(taken) + 1 + i = Len(linked) + 1
      BY <1>2, <2>3
    <3> QED
      BY <1>3, <1>7, <2>1, <2>3, <3>1
  <2>4. i \in 1..k \/ i = k + 1
    BY <1>2
  <2> QED
    BY <2>2, <2>3, <2>4
<1>9. Pending' = Append(Pending, n)
  BY <1>5, <1>6, <1>7, <1>8, SeqEqual
<1> QED
  BY <1>1, <1>9 DEF Fifo!Put

\* a successful swing of head is the Take of the atomic queue
LEMMA SwapIsTake ==
    ASSUME Inv, Inv', NEW c \in Consumer, DeqSwap(c)
    PROVE  Fifo!Take
<1> DEFINE T == Len(taken)
           k == Len(linked) - Len(taken) - 1
<1>1. linked' = linked /\ taken' = Append(taken, linked[T + 2]) /\ T + 2 <= TailPos
  BY SwapFacts DEF DeqSwap
<1>2. /\ Len(linked) \in Nat /\ T \in Nat /\ k \in Nat /\ k >= 1
      /\ taken \in Seq(Ptr) /\ T + 2 \in 1..Len(linked)
  BY <1>1, Numbers DEF Inv, TypeOK, TailInv
<1>3. linked[T + 2] \in Ptr
  BY <1>2, Numbers
<1>4. Len(taken') = T + 1
  BY <1>1, <1>2, <1>3
<1>5. /\ Pending \in Seq(Ptr) /\ Len(Pending) = k
      /\ \A i \in 1..k : Pending[i] = linked[T + 1 + i]
  BY PendingIs DEF PendingShape
<1>6. /\ Pending' \in Seq(Ptr) /\ Len(Pending') = Len(linked') - Len(taken') - 1
      /\ \A i \in 1..(Len(linked') - Len(taken') - 1) : Pending'[i] = linked'[Len(taken') + 1 + i]
  <2>1. PendingShape'
    BY PendingIs, PTL
  <2> QED
    BY <2>1 DEF PendingShape
<1>7. Len(linked') - Len(taken') - 1 = k - 1
  BY <1>1, <1>2, <1>4
<1>8. /\ Pending # << >> /\ Head(Pending) = Pending[1]
      /\ Tail(Pending) \in Seq(Ptr) /\ Len(Tail(Pending)) = k - 1
      /\ \A i \in 1..(k - 1) : Tail(Pending)[i] = Pending[i + 1]
  BY <1>2, <1>5
<1>9. Pending[1] = linked[T + 2]
  <2>1. 1 \in 1..k /\ T + 1 + 1 = T + 2
    BY <1>2
  <2> QED
    BY <1>5, <2>1
<1>10. \A i \in 1..(k - 1) : Pending'[i] = Tail(Pending)[i]
  <2> SUFFICES ASSUME NEW i \in 1..(k - 1) PROVE Pending'[i] = Tail(Pending)[i]
    OBVIOUS
  <2>1. i + 1 \in 1..k /\ (T + 1) + 1 + i = T + 1 + (i + 1)
    BY <1>2
  <2>2. Pending'[i] = linked[(T + 1) + 1 + i]
    BY <1>1, <1>4, <1>6, <1>7
  <2> QED
    BY <1>5, <1>8, <2>1, <2>2
<1>11. Pending' = Tail(Pending)
  BY <1>6, <1>7, <1>8, <1>10, SeqEqual
<1> QED
  BY <1>1, <1>8, <1>9, <1>11 DEF Fifo!Take

\* The linked list with its two CAS operations implements the atomic FIFO queue,
\* for any number of producers, consumers and tasks.
THEOREM Refinement == Spec => ImplementsFifo
<1>1. Init => Fifo!Init
  <2> SUFFICES ASSUME Init PROVE Fifo!Init
    OBVIOUS
  <2>1. linked = <<Dummy>> /\ taken = << >>
    BY DEF Init
  <2>2. Len(linked) = 1 /\ Len(taken) = 0
    BY <2>1
  <2>3. Pending = << >>
    BY <2>2, SubSeqEmpty DEF Pending
  <2> QED
    BY <2>1, <2>3 DEF Fifo!Init
<1>2. Inv /\ Inv' /\ [Next]_vars => [Fifo!Next]_(Fifo!vars)
  <2> SUFFICES ASSUME Inv, Inv', [Next]_vars PROVE [Fifo!Next]_(Fifo!vars)
    OBVIOUS
  <2>1. ASSUME linked' = linked, taken' = taken PROVE UNCHANGED Fifo!vars
    BY <2>1 DEF Fifo!vars, Pending
  <2>2. ASSUME NEW p \in Producer, Enqueue(p) \/ EnqueueStep(p)
        PROVE  [Fifo!Next]_(Fifo!vars)
    <3>1. CASE EnqLink(p)
      BY <3>1, LinkIsPut DEF Fifo!Next
    <3>2. CASE ~EnqLink(p)
      <4>1. linked' = linked /\ taken' = taken
        BY <2>2, <3>2 DEF EnqueueStep, Enqueue, EnqLoadTail, EnqLoadNext, EnqLinkFails,
               EnqHelp, EnqSwing, EnqCount
      <4> QED
        BY <2>1, <4>1
    <3> QED
      BY <3>1, <3>2
  <2>3. ASSUME NEW c \in Consumer, DequeueStep(c) PROVE [Fifo!Next]_(Fifo!vars)
    <3>1. CASE DeqSwap(c)
      BY <3>1, SwapIsTake DEF Fifo!Next
    <3>2. CASE ~DeqSwap(c)
      <4>1. linked' = linked /\ taken' = taken
        BY <2>3, <3>2 DEF DequeueStep, DeqLoadHead, DeqLoadTail, DeqLoadNext, DeqEmpty,
               DeqHelp, DeqSwapFails, DeqCount
      <4> QED
        BY <2>1, <4>1
    <3> QED
      BY <3>1, <3>2
  <2>4. CASE UNCHANGED vars
    BY <2>1, <2>4 DEF vars
  <2> QED
    BY <2>2, <2>3, <2>4 DEF Next
<1> QED
  BY <1>1, <1>2, Invariance, PTL DEF Spec, ImplementsFifo, Fifo!Spec

=============================================================================
