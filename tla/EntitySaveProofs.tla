-------------------------- MODULE EntitySaveProofs ---------------------------
(***************************************************************************)
(* Proofs about the persistence of entities, for any number of entities,   *)
(* any sizes and bounds, and any number of lost connections.               *)
(***************************************************************************)
EXTENDS EntitySave, SequenceTheorems, TLAPS

(***************************************************************************)
(* The inductive invariant                                                 *)
(***************************************************************************)

\* the elements of a list are numbered differently
Distinct(s) == \A i, j \in 1..Len(s) : s[i].n = s[j].n => i = j

\* the commands and answers under way
Msgs == Range(wire) \cup Range(answers)

\* the message belongs to a save whose callback is still registered
Awaited(m) == m.kind = "save" /\ m.uuid # NoCallback /\ cbMap[m.uuid] # nil

\* Elements are numbered in the order of their Add calls.
NumberInv ==
    /\ Distinct(saveList)
    /\ \A x \in Range(saveList) : x.n <= added

\* SaveListAgrees, in terms of elements.
MapInv ==
    /\ \A e \in Entity : entityInfo[e] # nil =>
          /\ \E x \in Range(saveList) : x.n = entityInfo[e] /\ x.id = e
          /\ \A x \in Range(saveList) : x.id = e => x.n <= entityInfo[e]
    /\ \A x \in Range(saveList) : ~overlapped[x.id] => entityInfo[x.id] = x.n

\* What the tick has still to send is still in the list.
BatchInv ==
    /\ Distinct(batch)
    /\ \A x \in Range(batch) : ~overlapped[x.id] => x \in Range(saveList)

\* A uuid is used once, so a message finds its own callback or none.
UuidInv ==
    /\ \A u \in Uuid : cbMap[u] # nil => u <= uuid
    /\ \A m \in Msgs : m.uuid <= uuid
    /\ \A m \in Msgs : (m.uuid # NoCallback /\ cbMap[m.uuid] # nil)
          => cbMap[m.uuid] = [kind |-> m.kind, id |-> m.id]

\* An entity is loaded once, and only while it is not there.
LoadInv ==
    /\ \A u \in Uuid : (cbMap[u] # nil /\ cbMap[u].kind = "load")
          => status[cbMap[u].id] = "none"
    /\ \A u, v \in Uuid :
          (cbMap[u] # nil /\ cbMap[u].kind = "load" /\ cbMap[v] = cbMap[u]) => u = v

\* A queued save whose answer is needed holds what the last Destroy wanted to save,
\* unless the entity was destroyed without a save or loaded since.  Nothing is
\* queued for an entity that is gone after a Destroy with a save.
QueuedInv ==
    \A x \in Range(saveList) : ~overlapped[x.id] =>
        /\ status[x.id] = "none" => destroyVer[x.id] = nil
        /\ x.resp => \/ destroyVer[x.id] = nil
                     \/ status[x.id] = "destroying" /\ destroyVer[x.id] = x.ver
        /\ x.resp /\ ~abandoned[x.id] => status[x.id] = "destroying"

\* So does a save that was sent and is awaited; it is the only one.
SentInv ==
    \A m \in Msgs : (Awaited(m) /\ ~overlapped[m.id]) =>
        /\ \/ destroyVer[m.id] = nil
           \/ status[m.id] = "destroying" /\ destroyVer[m.id] = m.ver
        /\ ~abandoned[m.id] => status[m.id] = "destroying"
        /\ \A x \in Range(saveList) : x.id # m.id
        /\ \A k \in Msgs : Awaited(k) /\ k.id = m.id => k.uuid = m.uuid

\* the saves of e were requested one after the other
InTurn(e) == ~overlapped[e] /\ ~crossed[e]

\* Then the database has no older save to run beside the queued or awaited one.
WireInv ==
    /\ \A x \in Range(saveList), k \in Range(wire) :
          InTurn(x.id) /\ k.kind = "save" => k.id # x.id
    /\ \A m \in Msgs, k \in Range(wire) :
          Awaited(m) /\ InTurn(m.id) /\ k.kind = "save" /\ k.id = m.id => k.ver = m.ver

\* What an awaited answer without error tells of is still in the database, and so is
\* what the last Destroy of an entity that is gone wanted to save.
StoredInv ==
    /\ \A a \in Range(answers) : Awaited(a) /\ ~a.err /\ InTurn(a.id) => db[a.id] = a.ver
    /\ \A e \in Entity : status[e] = "none" /\ destroyVer[e] # nil /\ InTurn(e) =>
          /\ db[e] = destroyVer[e]
          /\ \A k \in Range(wire) : k.kind = "save" /\ k.id = e => k.ver = destroyVer[e]

Inv ==
    /\ TypeOK /\ NumberInv /\ MapInv /\ BatchInv /\ UuidInv /\ LoadInv /\ QueuedInv
    /\ SentInv /\ WireInv /\ StoredInv

(***************************************************************************)
(* Lists and their elements                                                *)
(***************************************************************************)

LEMMA RangeIsElements ==
    ASSUME NEW S, NEW s \in Seq(S)
    PROVE  /\ Range(s) \subseteq S
           /\ \A x : x \in Range(s) <=> \E i \in 1..Len(s) : s[i] = x
BY DEF Range

LEMMA RangeEmpty == Range(<< >>) = {}
BY DEF Range

LEMMA RangeAppend ==
    ASSUME NEW S, NEW s \in Seq(S), NEW x \in S
    PROVE  Append(s, x) \in Seq(S) /\ Range(Append(s, x)) = Range(s) \cup {x}
<1> DEFINE t == Append(s, x)
<1>1. /\ t \in Seq(S) /\ Len(t) = Len(s) + 1 /\ Len(s) \in Nat
      /\ \A i \in 1..Len(s) : t[i] = s[i]
      /\ t[Len(s) + 1] = x
  OBVIOUS
<1> HIDE DEF t
<1>2. Range(t) = {t[i] : i \in 1..Len(t)} /\ Range(s) = {s[i] : i \in 1..Len(s)}
  BY <1>1 DEF Range
<1>3. \A i \in 1..Len(t) : i \in 1..Len(s) \/ i = Len(s) + 1
  BY <1>1
<1>4. \A i \in 1..Len(s) : i \in 1..Len(t)
  BY <1>1
<1>5. Len(s) + 1 \in 1..Len(t)
  BY <1>1
<1>6. Range(t) = Range(s) \cup {x}
  BY <1>1, <1>2, <1>3, <1>4, <1>5
<1> QED
  BY <1>1, <1>6 DEF t

LEMMA RangeHeadTail ==
    ASSUME NEW S, NEW s \in Seq(S), s # << >>
    PROVE  /\ Head(s) \in Range(s) /\ Tail(s) \in Seq(S)
           /\ Range(Tail(s)) \subseteq Range(s)
           /\ Distinct(s) => Distinct(Tail(s)) /\ \A x \in Range(Tail(s)) : x.n # Head(s).n
<1> DEFINE t == Tail(s)
<1>1. /\ Head(s) = s[1] /\ t \in Seq(S) /\ Len(t) = Len(s) - 1
      /\ Len(s) \in Nat \ {0}
      /\ \A i \in 1..Len(t) : t[i] = s[i + 1]
  BY EmptySeq, HeadTailProperties
<1> HIDE DEF t
<1>2. \A i \in 1..Len(t) : i + 1 \in 1..Len(s) /\ i + 1 # 1
  BY <1>1
<1>3. Range(t) = {t[i] : i \in 1..Len(t)} /\ Range(s) = {s[i] : i \in 1..Len(s)}
  <2>1. DOMAIN t = 1..Len(t) /\ DOMAIN s = 1..Len(s)
    BY <1>1, LenProperties
  <2> QED
    BY <2>1, Zenon DEF Range
<1>4. Head(s) \in Range(s) /\ Range(t) \subseteq Range(s)
  BY <1>1, <1>2, <1>3
<1>5. Distinct(s) => Distinct(t)
  <2> SUFFICES ASSUME Distinct(s), NEW i \in 1..Len(t), NEW j \in 1..Len(t), t[i].n = t[j].n
               PROVE  i = j
    BY DEF Distinct
  <2>1. s[i + 1].n = s[j + 1].n
    BY <1>1
  <2>2. i + 1 = j + 1
    BY <1>2, <2>1 DEF Distinct
  <2> QED
    BY <1>1, <2>2
<1>6. Distinct(s) => \A x \in Range(t) : x.n # Head(s).n
  <2> SUFFICES ASSUME Distinct(s), NEW x \in Range(t), x.n = Head(s).n
               PROVE  FALSE
    OBVIOUS
  <2>1. PICK i \in 1..Len(t) : x = t[i]
    BY <1>3
  <2>2. i + 1 \in 1..Len(s) /\ 1 \in 1..Len(s) /\ i + 1 # 1 /\ s[i + 1].n = s[1].n
    BY <1>1, <1>2, <2>1
  <2> QED
    BY <2>2 DEF Distinct
<1> QED
  BY <1>1, <1>4, <1>5, <1>6 DEF t

LEMMA RangeSubSeq ==
    ASSUME NEW S, NEW s \in Seq(S), NEW a \in Nat, NEW b \in 0..Len(s), a >= 1
    PROVE  /\ SubSeq(s, a, b) \in Seq(S) /\ Range(SubSeq(s, a, b)) \subseteq Range(s)
           /\ Distinct(s) => Distinct(SubSeq(s, a, b))
<1> DEFINE t == SubSeq(s, a, b)
<1>1. \A i \in a..b : s[i] \in S
  OBVIOUS
<1>2. /\ t \in Seq(S) /\ Len(t) = IF a <= b THEN b - a + 1 ELSE 0
      /\ \A i \in 1..Len(t) : t[i] = s[a + i - 1] /\ a + i - 1 \in 1..Len(s)
  BY <1>1, SubSeqProperties
<1> HIDE DEF t
<1>3. Range(t) \subseteq Range(s)
  BY <1>2, RangeIsElements
<1>4. Distinct(s) => Distinct(t)
  <2> SUFFICES ASSUME Distinct(s), NEW i \in 1..Len(t), NEW j \in 1..Len(t), t[i].n = t[j].n
               PROVE  i = j
    BY DEF Distinct
  <2>1. a + i - 1 = a + j - 1
    BY <1>2 DEF Distinct
  <2> QED
    BY <1>2, <2>1
<1> QED
  BY <1>2, <1>3, <1>4 DEF t

\* Without(s, i) as a function of positions
LEMMA WithoutProperties ==
    ASSUME NEW S, NEW s \in Seq(S), NEW i \in 1..Len(s)
    PROVE  /\ Without(s, i) \in Seq(S)
           /\ Len(Without(s, i)) = Len(s) - 1
           /\ \A k \in 1..(Len(s) - 1) : Without(s, i)[k] = IF k < i THEN s[k] ELSE s[k + 1]
<1> DEFINE a == SubSeq(s, 1, i - 1)
           b == SubSeq(s, i + 1, Len(s))
<1>1. /\ a \in Seq(S) /\ Len(a) = i - 1 /\ \A k \in 1..(i - 1) : a[k] = s[k]
  BY SubSeqProperties
<1>2. b \in Seq(S) /\ Len(b) = Len(s) - i /\ \A k \in 1..(Len(s) - i) : b[k] = s[i + k]
  BY SubSeqProperties
<1>3. Without(s, i) = a \o b
  BY DEF Without
<1> HIDE DEF a, b
<1>4. /\ a \o b \in Seq(S) /\ Len(a \o b) = Len(a) + Len(b)
      /\ \A k \in 1..(Len(a) + Len(b)) : (a \o b)[k] = IF k <= Len(a) THEN a[k] ELSE b[k - Len(a)]
  BY <1>1, <1>2, ConcatProperties
<1> QED
  BY <1>1, <1>2, <1>3, <1>4

LEMMA RangeWithout ==
    ASSUME NEW S, NEW s \in Seq(S), NEW i \in 1..Len(s)
    PROVE  /\ Without(s, i) \in Seq(S)
           /\ Range(Without(s, i)) \subseteq Range(s)
           /\ Distinct(s) => /\ Distinct(Without(s, i))
                             /\ Range(Without(s, i)) = {x \in Range(s) : x.n # s[i].n}
<1> DEFINE t == Without(s, i)
<1>1. /\ t \in Seq(S) /\ Len(t) = Len(s) - 1
      /\ \A k \in 1..Len(t) : t[k] = IF k < i THEN s[k] ELSE s[k + 1]
  BY WithoutProperties
<1> HIDE DEF t
<1>2. Range(t) \subseteq Range(s)
  BY <1>1, RangeIsElements
<1>3. Distinct(s) => Distinct(t)
  BY <1>1 DEF Distinct
<1>4. ASSUME Distinct(s), NEW x \in Range(t) PROVE x.n # s[i].n
  <2>1. PICK k \in 1..Len(t) : t[k] = x
    BY <1>1, RangeIsElements
  <2> QED
    BY <1>1, <1>4, <2>1 DEF Distinct
<1>5. ASSUME NEW x \in Range(s), x.n # s[i].n PROVE x \in Range(t)
  <2>1. PICK k \in 1..Len(s) : s[k] = x
    BY RangeIsElements
  <2>2. CASE k < i
    <3>1. k \in 1..Len(t) /\ t[k] = x
      BY <1>1, <2>1, <2>2
    <3> QED
      BY <1>1, <3>1, RangeIsElements
  <2>3. CASE k > i
    <3>1. k - 1 \in 1..Len(t) /\ t[k - 1] = x
      BY <1>1, <2>1, <2>3
    <3> QED
      BY <1>1, <3>1, RangeIsElements
  <2> QED
    BY <1>5, <2>1, <2>2, <2>3
<1> QED
  BY <1>1, <1>2, <1>3, <1>4, <1>5 DEF t

(***************************************************************************)
(* Types                                                                   *)
(***************************************************************************)

Command == [kind : {"save", "load"}, id : Entity, ver : 0..MaxVer, uuid : 0..MaxUuid]
Answer == [kind : {"save", "load"}, id : Entity, ver : 0..MaxVer, uuid : Uuid, err : BOOLEAN]

LEMMA AddType ==
    ASSUME TypeOK, NEW e \in Entity, NEW resp \in BOOLEAN, Add(e, resp)
    PROVE  /\ saveList' \in Seq(Element) /\ added' \in 0..MaxAdd
           /\ entityInfo' \in [Entity -> (1..MaxAdd) \cup {nil}]
<1>1. added + 1 \in 1..MaxAdd
  BY BoundAssumption DEF TypeOK, Add
<1>2. [n |-> added + 1, id |-> e, ver |-> ver[e], resp |-> resp] \in Element
  BY <1>1 DEF TypeOK, Element
<1> QED
  BY <1>1, <1>2, RangeAppend DEF TypeOK, Add

LEMMA RemoveType ==
    ASSUME TypeOK, NEW e \in Entity, Remove(e)
    PROVE  /\ saveList' \in Seq(Element) /\ added' \in 0..MaxAdd
           /\ entityInfo' \in [Entity -> (1..MaxAdd) \cup {nil}]
<1>1. CASE saveList' = saveList
  BY <1>1 DEF TypeOK, Remove
<1>2. CASE \E i \in DOMAIN saveList : saveList' = Without(saveList, i)
  <2>1. PICK i \in 1..Len(saveList) : saveList' = Without(saveList, i)
    BY <1>2 DEF TypeOK
  <2> QED
    BY <2>1, WithoutProperties DEF TypeOK, Remove
<1> QED
  BY <1>1, <1>2 DEF Remove

LEMMA SetCallbackType ==
    ASSUME TypeOK, NEW kind \in {"save", "load"}, NEW e \in Entity, SetCallback(kind, e)
    PROVE  /\ cbMap' \in [Uuid -> [kind : {"save", "load"}, id : Entity] \cup {nil}]
           /\ uuid' = uuid + 1 /\ uuid + 1 \in Uuid /\ uuid' \in 0..MaxUuid
BY BoundAssumption DEF TypeOK, SetCallback, Uuid

LEMMA TypeStep == TypeOK /\ [Next]_vars => TypeOK'
<1> SUFFICES ASSUME TypeOK, [Next]_vars PROVE TypeOK'
  OBVIOUS
<1>0. wire \in Seq(Command) /\ answers \in Seq(Answer)
  BY DEF TypeOK, Command, Answer
<1>1. ASSUME NEW e \in Entity, LoadEntity(e) PROVE TypeOK'
  <2>1. /\ cbMap' \in [Uuid -> [kind : {"save", "load"}, id : Entity] \cup {nil}]
        /\ uuid + 1 \in Uuid /\ uuid' \in 0..MaxUuid
    BY <1>1, SetCallbackType DEF LoadEntity
  <2>2. [kind |-> "load", id |-> e, ver |-> 0, uuid |-> uuid + 1] \in Command
    BY <2>1, BoundAssumption DEF Command, Uuid
  <2>3. wire' \in Seq(Command)
    BY <1>0, <1>1, <2>2, RangeAppend DEF LoadEntity, Send
  <2> QED
    BY <1>1, <2>1, <2>3 DEF LoadEntity, TypeOK, Command, entities, saves
<1>2. ASSUME NEW e \in Entity, Change(e) PROVE TypeOK'
  <2>1. ver[e] + 1 \in 0..MaxVer
    BY <1>2, BoundAssumption DEF Change, TypeOK
  <2>2. ver' \in [Entity -> 0..MaxVer]
    BY <1>2, <2>1 DEF Change, TypeOK
  <2> QED
    BY <1>2, <2>2 DEF Change, TypeOK, saves, callbacks, network
<1>3. ASSUME NEW e \in Entity, SaveToDB(e) PROVE TypeOK'
  <2>1. Open(e) \in BOOLEAN /\ OnWire(e) \in BOOLEAN
    BY DEF Open, OnWire
  <2>2. /\ overlapped' \in [Entity -> BOOLEAN] /\ crossed' \in [Entity -> BOOLEAN]
        /\ abandoned' \in [Entity -> BOOLEAN]
    BY <1>3, <2>1 DEF SaveToDB, Requested, TypeOK
  <2> QED
    BY <1>3, <2>2, AddType DEF SaveToDB, TypeOK, callbacks, network
<1>4. ASSUME NEW e \in Entity, Destroy(e) PROVE TypeOK'
  <2>1. Open(e) \in BOOLEAN /\ OnWire(e) \in BOOLEAN
    BY DEF Open, OnWire
  <2>2. /\ overlapped' \in [Entity -> BOOLEAN] /\ crossed' \in [Entity -> BOOLEAN]
        /\ abandoned' \in [Entity -> BOOLEAN]
    BY <1>4, <2>1 DEF Destroy, Requested, TypeOK
  <2>3. /\ status' \in [Entity -> {"none", "ready", "destroying"}]
        /\ destroyVer' \in [Entity -> (0..MaxVer) \cup {nil}]
    BY <1>4 DEF Destroy, TypeOK
  <2> QED
    BY <1>4, <2>2, <2>3, AddType DEF Destroy, TypeOK, callbacks, network
<1>5. ASSUME NEW e \in Entity, DestroyWithoutSave(e) PROVE TypeOK'
  <2>1. Open(e) \in BOOLEAN
    BY DEF Open
  <2>2. abandoned' \in [Entity -> BOOLEAN]
    BY <1>5, <2>1 DEF DestroyWithoutSave, TypeOK
  <2> QED
    BY <1>5, <2>2 DEF DestroyWithoutSave, TypeOK, saves, callbacks, network
<1>6. CASE TickSave
  <2>1. batch' \in Seq(Element)
    BY <1>6, BoundAssumption, RangeSubSeq DEF TickSave, Get, TypeOK
  <2> QED
    BY <1>6, <2>1 DEF TickSave, TypeOK, entities, saves, callbacks, network
<1>7. CASE SaveEntity
  <2>1. Head(batch) \in Element /\ Tail(batch) \in Seq(Element)
    BY <1>7, HeadTailProperties DEF SaveEntity, TypeOK
  <2>2. Head(batch).id \in Entity /\ Head(batch).ver \in 0..MaxVer /\ Head(batch).resp \in BOOLEAN
    BY <2>1 DEF Element
  <2>3. /\ saveList' \in Seq(Element) /\ added' \in 0..MaxAdd
        /\ entityInfo' \in [Entity -> (1..MaxAdd) \cup {nil}]
    BY <1>7, <2>2, RemoveType DEF SaveEntity, TypeOK, saves
  <2>4. /\ cbMap' \in [Uuid -> [kind : {"save", "load"}, id : Entity] \cup {nil}]
        /\ uuid' \in 0..MaxUuid
        /\ (IF Head(batch).resp THEN uuid + 1 ELSE NoCallback) \in 0..MaxUuid
    <3>1. CASE Head(batch).resp
      BY <1>7, <2>2, <3>1, SetCallbackType, BoundAssumption DEF SaveEntity, Uuid
    <3>2. CASE ~Head(batch).resp
      BY <1>7, <3>2, BoundAssumption DEF SaveEntity, TypeOK, callbacks, NoCallback
    <3> QED
      BY <3>1, <3>2
  <2>5. wire' \in Seq(Command)
    <3> DEFINE m == [kind |-> "save", id |-> Head(batch).id, ver |-> Head(batch).ver,
                     uuid |-> IF Head(batch).resp THEN uuid + 1 ELSE NoCallback]
    <3>1. m \in Command
      BY <2>2, <2>4 DEF Command
    <3>2. wire' = wire \/ wire' = Append(wire, m)
      BY <1>7 DEF SaveEntity, Send
    <3> HIDE DEF m
    <3> QED
      BY <1>0, <3>1, <3>2, RangeAppend
  <2>6. UNCHANGED <<entities, conn, answers, losses, db>> /\ batch' \in Seq(Element)
    BY <1>7, <2>1 DEF SaveEntity
  <2> QED
    BY <2>3, <2>4, <2>5, <2>6 DEF TypeOK, Command, entities
<1>8. CASE DBCommandResponse
  <2> DEFINE a == Head(answers)
  <2>1. a \in Answer /\ Tail(answers) \in Seq(Answer)
    BY <1>8, HeadTailProperties DEF DBCommandResponse, TypeOK, Answer
  <2>2. a.id \in Entity /\ a.ver \in 0..MaxVer
    BY <2>1 DEF Answer
  <2>3. answers' = Tail(answers) /\ UNCHANGED <<saves, batch, conn, wire, losses, db>>
    BY <1>8 DEF DBCommandResponse
  <2>4. /\ \/ UNCHANGED callbacks
           \/ Called(a.uuid)
        /\ \/ UNCHANGED entities
           \/ SavedOnDestroy(a.id)
           \/ CreateEntityFromData(a.id, a.ver)
    BY <1>8 DEF DBCommandResponse
  <2> HIDE DEF a
  <2>5. /\ cbMap' \in [Uuid -> [kind : {"save", "load"}, id : Entity] \cup {nil}]
        /\ uuid' \in 0..MaxUuid
    BY <2>4 DEF TypeOK, Called, callbacks
  <2>6. /\ status' \in [Entity -> {"none", "ready", "destroying"}]
        /\ ver' \in [Entity -> 0..MaxVer]
        /\ destroyVer' \in [Entity -> (0..MaxVer) \cup {nil}]
        /\ overlapped' \in [Entity -> BOOLEAN] /\ crossed' \in [Entity -> BOOLEAN]
        /\ abandoned' \in [Entity -> BOOLEAN]
    BY <2>2, <2>4 DEF TypeOK, SavedOnDestroy, CreateEntityFromData, entities
  <2> QED
    BY <2>1, <2>3, <2>5, <2>6 DEF TypeOK, Answer, saves
<1>9. ASSUME NEW u \in Uuid, OnTimeout(u) PROVE TypeOK'
  BY <1>9 DEF OnTimeout, Called, TypeOK, entities, saves, network
<1>10. CASE ConnectionLost
  <2>1. PICK k \in 0..Len(wire) : wire' = SubSeq(wire, k + 1, Len(wire))
    BY <1>10 DEF ConnectionLost
  <2>2. PICK k2 \in 0..Len(answers) : answers' = SubSeq(answers, 1, k2)
    BY <1>10 DEF ConnectionLost
  <2>3. wire' \in Seq(Command) /\ answers' \in Seq(Answer)
    <3>1. /\ Len(wire) \in 0..Len(wire) /\ k + 1 \in Nat /\ k + 1 >= 1
          /\ 1 \in Nat /\ 1 >= 1
      BY <1>0
    <3> QED
      BY <1>0, <2>1, <2>2, <3>1, RangeSubSeq
  <2>4. losses' \in 0..MaxLoss /\ conn' \in {"connected", "connecting", "disconnected"}
    <3>1. losses \in 0..MaxLoss /\ losses < MaxLoss /\ losses' = losses + 1 /\ MaxLoss \in Nat
      BY <1>10, BoundAssumption DEF ConnectionLost, TypeOK
    <3>2. conn' \in {"connected", "connecting", "disconnected"}
      BY <1>10 DEF ConnectionLost, TypeOK
    <3> QED
      BY <3>1, <3>2
  <2> QED
    BY <1>10, <2>3, <2>4
    DEF ConnectionLost, TypeOK, Command, Answer, entities, saves, callbacks
<1>11. CASE Connecting \/ Connected \/ ConnectFails
  BY <1>11 DEF Connecting, Connected, ConnectFails, TypeOK, entities, saves, callbacks
<1>12. ASSUME NEW i \in DOMAIN wire, DBSkip(i) PROVE TypeOK'
  <2>1. wire' \in Seq(Command)
    BY <1>0, <1>12, WithoutProperties DEF DBSkip
  <2> QED
    BY <1>12, <2>1 DEF DBSkip, TypeOK, Command, entities, saves, callbacks
<1>13. ASSUME NEW i \in DOMAIN wire, NEW err \in BOOLEAN, NEW again \in BOOLEAN,
              NEW late \in BOOLEAN, DBExecute(i, err, again, late)
       PROVE  TypeOK'
  <2> DEFINE m == wire[i]
             a == [kind |-> m.kind, id |-> m.id, uuid |-> m.uuid,
                   ver |-> IF m.kind = "load" THEN db[m.id] ELSE m.ver, err |-> err]
  <2>1. m \in Command /\ i \in 1..Len(wire)
    BY <1>0
  <2>2. wire' \in Seq(Command)
    BY <1>0, <1>13, <2>1, WithoutProperties DEF DBExecute
  <2>3. m.id \in Entity /\ m.ver \in 0..MaxVer /\ m.uuid \in 0..MaxUuid /\ m.kind \in {"save", "load"}
    BY <2>1 DEF Command
  <2>4. db' \in [Entity -> 0..MaxVer]
    <3>1. UNCHANGED db \/ db' = [db EXCEPT ![m.id] = m.ver]
      BY <1>13 DEF DBExecute
    <3> HIDE DEF m
    <3> QED
      BY <2>3, <3>1 DEF TypeOK
  <2>5. m.uuid # NoCallback => a \in Answer
    <3>1. db[m.id] \in 0..MaxVer
      BY <2>3 DEF TypeOK
    <3>2. m.uuid # NoCallback => m.uuid \in Uuid
      BY <2>3, BoundAssumption DEF NoCallback, Uuid
    <3> HIDE DEF m
    <3> QED
      BY <2>3, <3>1, <3>2 DEF Answer
  <2>6. answers' = answers \/ (m.uuid # NoCallback /\ answers' = Append(answers, a))
    BY <1>13 DEF DBExecute
  <2>7. UNCHANGED <<entities, saves, batch, callbacks, conn, losses>>
    BY <1>13 DEF DBExecute
  <2> HIDE DEF a
  <2>8. answers' \in Seq(Answer)
    BY <1>0, <2>5, <2>6, RangeAppend
  <2> QED
    BY <2>2, <2>4, <2>7, <2>8 DEF TypeOK, Command, Answer, entities, saves, callbacks
<1>14. CASE UNCHANGED vars
  BY <1>14 DEF vars, TypeOK
<1> QED
  BY <1>1, <1>2, <1>3, <1>4, <1>5, <1>6, <1>7, <1>8, <1>9, <1>10, <1>11, <1>12, <1>13, <1>14
  DEF Next, Tick, DBStep

(***************************************************************************)
(* What the type invariant says of elements and messages                   *)
(***************************************************************************)

LEMMA ElementType ==
    ASSUME TypeOK
    PROVE  /\ Range(saveList) \subseteq Element
           /\ Range(batch) \subseteq Element
           /\ \A x \in Range(saveList) \cup Range(batch) :
                 x.id \in Entity /\ x.n \in Nat /\ x.resp \in BOOLEAN
           /\ added \in Nat
           /\ nil \notin Nat
<1>1. Range(saveList) \subseteq Element /\ Range(batch) \subseteq Element
  BY RangeIsElements DEF TypeOK
<1> QED
  BY <1>1, BoundAssumption DEF TypeOK, Element

LEMMA MessageType ==
    ASSUME TypeOK
    PROVE  /\ wire \in Seq(Command) /\ answers \in Seq(Answer)
           /\ \A m \in Msgs : /\ m.kind \in {"save", "load"} /\ m.id \in Entity
                              /\ m.uuid \in Nat /\ (m.uuid # NoCallback => m.uuid \in Uuid)
           /\ \A a \in Range(answers) : a.uuid \in Uuid /\ a.uuid # NoCallback /\ a.err \in BOOLEAN
           /\ uuid \in Nat
<1>1. wire \in Seq(Command) /\ answers \in Seq(Answer)
  BY DEF TypeOK, Command, Answer
<1>2. Range(wire) \subseteq Command /\ Range(answers) \subseteq Answer
  BY <1>1, RangeIsElements
<1>3. \A m \in Range(wire) : /\ m.kind \in {"save", "load"} /\ m.id \in Entity
                             /\ m.uuid \in 0..MaxUuid
  BY <1>2 DEF Command
<1>4. \A m \in Range(answers) : /\ m.kind \in {"save", "load"} /\ m.id \in Entity
                                /\ m.uuid \in Uuid /\ m.err \in BOOLEAN
  BY <1>2 DEF Answer
<1>5. \A u \in Uuid : u \in 0..MaxUuid /\ u # 0
  BY BoundAssumption DEF Uuid
<1>6. \A u \in 0..MaxUuid : u \in Nat /\ (u # 0 => u \in Uuid)
  BY BoundAssumption DEF Uuid
<1>7. uuid \in Nat
  BY BoundAssumption DEF TypeOK
<1> QED
  BY <1>1, <1>3, <1>4, <1>5, <1>6, <1>7 DEF Msgs, NoCallback

\* A save is open while an element of the list or a callback is there for it.
LEMMA OpenIs ==
    ASSUME TypeOK, NEW e \in Entity
    PROVE  /\ Open(e) \in BOOLEAN
           /\ \A x \in Range(saveList) : x.id = e => Open(e)
           /\ \A u \in Uuid : cbMap[u] = [kind |-> "save", id |-> e] => Open(e)
<1>1. Open(e) \in BOOLEAN /\ \A u \in Uuid : cbMap[u] = [kind |-> "save", id |-> e] => Open(e)
  BY DEF Open
<1>2. ASSUME NEW x \in Range(saveList), x.id = e PROVE Open(e)
  <2>1. PICK i \in 1..Len(saveList) : saveList[i] = x
    BY RangeIsElements DEF TypeOK
  <2>2. i \in DOMAIN saveList /\ saveList[i].id = e
    BY <1>2, <2>1 DEF TypeOK
  <2> QED
    BY <2>2 DEF Open
<1> QED
  BY <1>1, <1>2

\* A save is on the wire while a command of the list of commands is one.
LEMMA OnWireIs ==
    ASSUME TypeOK, NEW e \in Entity
    PROVE  /\ OnWire(e) \in BOOLEAN
           /\ \A k \in Range(wire) : k.kind = "save" /\ k.id = e => OnWire(e)
<1>1. OnWire(e) \in BOOLEAN
  BY DEF OnWire
<1>2. ASSUME NEW k \in Range(wire), k.kind = "save", k.id = e PROVE OnWire(e)
  <2>1. wire \in Seq(Command)
    BY DEF TypeOK, Command
  <2>2. PICK i \in 1..Len(wire) : wire[i] = k
    BY <2>1, RangeIsElements
  <2>3. i \in DOMAIN wire /\ wire[i].kind = "save" /\ wire[i].id = e
    BY <1>2, <2>1, <2>2
  <2> QED
    BY <2>3 DEF OnWire
<1> QED
  BY <1>1, <1>2

\* Steps that put no save on the wire and make no message awaited.
LEMMA WireFrame ==
    ASSUME Inv, overlapped' = overlapped, crossed' = crossed,
           Range(saveList') \subseteq Range(saveList),
           \A k \in Range(wire') : k.kind = "save" => k \in Range(wire),
           \A m \in Msgs' : Awaited(m)' => \E k \in Msgs : Awaited(k) /\ k.id = m.id /\ k.ver = m.ver
    PROVE  WireInv'
<1>1. \A x \in Range(saveList'), k \in Range(wire') : InTurn(x.id)' /\ k.kind = "save" => k.id # x.id
  BY DEF Inv, WireInv, InTurn
<1>2. ASSUME NEW m \in Msgs', NEW k \in Range(wire'), Awaited(m)', InTurn(m.id)', k.kind = "save",
             k.id = m.id
      PROVE  k.ver = m.ver
  <2>1. PICK l \in Msgs : Awaited(l) /\ l.id = m.id /\ l.ver = m.ver
    BY <1>2
  <2>2. InTurn(l.id) /\ k \in Range(wire)
    BY <1>2, <2>1 DEF InTurn
  <2> QED
    BY <1>2, <2>1, <2>2 DEF Inv, WireInv
<1> QED
  BY <1>1, <1>2 DEF WireInv

\* Such steps, if they change neither entities nor the database.
LEMMA StoredFrame ==
    ASSUME Inv, UNCHANGED <<status, destroyVer, overlapped, crossed, db>>,
           Range(answers') \subseteq Range(answers),
           \A k \in Range(wire') : k.kind = "save" => k \in Range(wire),
           \A m \in Range(answers) : Awaited(m)' => Awaited(m)
    PROVE  StoredInv'
BY DEF Inv, StoredInv, InTurn

LEMMA DistinctElements ==
    ASSUME NEW S, NEW s \in Seq(S), Distinct(s)
    PROVE  \A x, y \in Range(s) : x.n = y.n => x = y
BY RangeIsElements DEF Distinct

LEMMA DistinctAppend ==
    ASSUME NEW S, NEW s \in Seq(S), NEW x \in S, Distinct(s), \A y \in Range(s) : y.n # x.n
    PROVE  Distinct(Append(s, x))
<1> DEFINE t == Append(s, x)
<1>1. /\ t \in Seq(S) /\ Len(t) = Len(s) + 1 /\ Len(s) \in Nat
      /\ \A i \in 1..Len(s) : t[i] = s[i]
      /\ t[Len(s) + 1] = x
  OBVIOUS
<1> HIDE DEF t
<1>2. \A i \in 1..Len(s) : s[i] \in Range(s)
  BY RangeIsElements
<1> SUFFICES ASSUME NEW i \in 1..Len(t), NEW j \in 1..Len(t), t[i].n = t[j].n PROVE i = j
  BY DEF Distinct, t
<1>3. CASE i \in 1..Len(s) /\ j \in 1..Len(s)
  BY <1>1, <1>3 DEF Distinct
<1>4. CASE i \in 1..Len(s) /\ j = Len(s) + 1
  BY <1>1, <1>2, <1>4
<1>5. CASE j \in 1..Len(s) /\ i = Len(s) + 1
  BY <1>1, <1>2, <1>5
<1>6. (i \in 1..Len(s) \/ i = Len(s) + 1) /\ (j \in 1..Len(s) \/ j = Len(s) + 1)
  BY <1>1
<1> QED
  BY <1>3, <1>4, <1>5, <1>6

(***************************************************************************)
(* Steps of the entities                                                   *)
(***************************************************************************)

\* the invariant without types
Rest ==
    /\ NumberInv /\ MapInv /\ BatchInv /\ UuidInv /\ LoadInv /\ QueuedInv /\ SentInv
    /\ WireInv /\ StoredInv

\* SaveToDB and Destroy: if ~overlapped holds afterwards there was no other save.
LEMMA AddStep ==
    ASSUME Inv, NEW e \in Entity, NEW resp \in BOOLEAN, Logic, status[e] # "none", Add(e, resp),
           Requested(e), UNCHANGED <<batch, callbacks, network, db>>,
           \/ resp = FALSE /\ UNCHANGED <<status, destroyVer>>
           \/ /\ resp = TRUE
              /\ status' = [status EXCEPT ![e] = "destroying"]
              /\ destroyVer' = [destroyVer EXCEPT ![e] = ver[e]]
    PROVE  Rest'
<1> DEFINE x == [n |-> added + 1, id |-> e, ver |-> ver[e], resp |-> resp]
<1>1. TypeOK
  BY DEF Inv
<1>2. /\ x \in Element /\ x.n = added + 1 /\ x.id = e /\ x.ver = ver[e] /\ x.resp = resp
  BY <1>1, BoundAssumption DEF TypeOK, Element, Add
<1>3. saveList' = Append(saveList, x)
  BY DEF Add
<1> HIDE DEF x
<1>4. saveList \in Seq(Element) /\ Range(saveList') = Range(saveList) \cup {x}
  BY <1>1, <1>2, <1>3, RangeAppend DEF TypeOK
<1>5. /\ \A y \in Range(saveList) : y.id \in Entity /\ y.n \in Nat
      /\ added \in Nat /\ nil \notin Nat
  BY <1>1, ElementType
<1>6. /\ entityInfo' = [entityInfo EXCEPT ![e] = added + 1] /\ added' = added + 1
      /\ entityInfo \in [Entity -> (1..MaxAdd) \cup {nil}]
  BY <1>1 DEF Add, TypeOK
<1>7. /\ batch = << >> /\ batch' = << >>
      /\ cbMap' = cbMap /\ uuid' = uuid /\ Msgs' = Msgs /\ answers' = answers
      /\ wire' = wire /\ db' = db /\ abandoned' = abandoned
  BY DEF Logic, callbacks, network, Msgs, Requested
<1>8. /\ \A f \in Entity : f # e => /\ overlapped'[f] = overlapped[f] /\ status'[f] = status[f]
                                    /\ destroyVer'[f] = destroyVer[f] /\ crossed'[f] = crossed[f]
      /\ Open(e) => overlapped'[e]
      /\ OnWire(e) => crossed'[e]
      /\ ~overlapped'[e] => ~overlapped[e]
      /\ ~crossed'[e] => ~crossed[e]
      /\ status'[e] # "none"
      /\ resp => status'[e] = "destroying" /\ destroyVer'[e] = ver[e]
  BY <1>1, OpenIs, OnWireIs DEF TypeOK, Requested
<1>9. NumberInv'
  <2>1. \A y \in Range(saveList) : y.n # x.n
    BY <1>2, <1>5 DEF Inv, NumberInv
  <2>2. Distinct(saveList')
    BY <1>2, <1>3, <1>4, <2>1, DistinctAppend DEF Inv, NumberInv
  <2> QED
    BY <1>2, <1>4, <1>5, <1>6, <2>2 DEF Inv, NumberInv
<1>10. MapInv'
  <2>1. ASSUME NEW f \in Entity, entityInfo'[f] # nil
        PROVE  /\ \E y \in Range(saveList') : y.n = entityInfo'[f] /\ y.id = f
               /\ \A y \in Range(saveList') : y.id = f => y.n <= entityInfo'[f]
    <3>1. CASE f = e
      BY <1>2, <1>4, <1>5, <1>6, <3>1 DEF Inv, NumberInv
    <3>2. CASE f # e
      BY <1>2, <1>4, <1>6, <2>1, <3>2 DEF Inv, MapInv
    <3> QED
      BY <3>1, <3>2
  <2>2. ASSUME NEW y \in Range(saveList'), ~overlapped'[y.id] PROVE entityInfo'[y.id] = y.n
    <3>1. CASE y = x
      BY <1>2, <1>6, <3>1
    <3>2. CASE y \in Range(saveList) /\ y.id = e
      BY <1>1, <1>8, <2>2, <3>2, OpenIs
    <3>3. CASE y \in Range(saveList) /\ y.id # e
      BY <1>5, <1>6, <1>8, <2>2, <3>3 DEF Inv, MapInv
    <3> QED
      BY <1>4, <3>1, <3>2, <3>3
  <2> QED
    BY <2>1, <2>2 DEF MapInv
<1>11. BatchInv'
  <2>1. Distinct(<< >>)
    BY DEF Distinct
  <2> QED
    BY <1>7, <2>1, RangeEmpty DEF BatchInv
<1>12. UuidInv'
  BY <1>7 DEF Inv, UuidInv, NoCallback
<1>13. LoadInv'
  <2>1. ASSUME NEW u \in Uuid, cbMap[u] # nil, cbMap[u].kind = "load"
        PROVE  status'[cbMap[u].id] = "none"
    <3>1. cbMap[u].id \in Entity /\ status[cbMap[u].id] = "none"
      BY <1>1, <2>1 DEF Inv, LoadInv, TypeOK
    <3> QED
      BY <1>8, <3>1
  <2> QED
    BY <1>7, <2>1 DEF Inv, LoadInv
<1>14. QueuedInv'
  <2> SUFFICES ASSUME NEW y \in Range(saveList'), ~overlapped'[y.id]
               PROVE  /\ status'[y.id] = "none" => destroyVer'[y.id] = nil
                      /\ y.resp => \/ destroyVer'[y.id] = nil
                                   \/ status'[y.id] = "destroying" /\ destroyVer'[y.id] = y.ver
                      /\ y.resp /\ ~abandoned'[y.id] => status'[y.id] = "destroying"
    BY DEF QueuedInv
  <2>1. CASE y = x
    BY <1>2, <1>8, <2>1
  <2>2. CASE y \in Range(saveList) /\ y.id = e
    BY <1>1, <1>8, <2>2, OpenIs
  <2>3. CASE y \in Range(saveList) /\ y.id # e
    BY <1>5, <1>7, <1>8, <2>2, <2>3 DEF Inv, QueuedInv
  <2> QED
    BY <1>4, <2>1, <2>2, <2>3
<1>15. SentInv'
  <2>1. \A m \in Msgs : Awaited(m)' <=> Awaited(m)
    BY <1>7 DEF Awaited
  <2>2. ASSUME NEW m \in Msgs, Awaited(m), m.id = e PROVE overlapped'[e]
    <3>1. m.kind = "save" /\ m.uuid # NoCallback /\ cbMap[m.uuid] # nil
      BY <2>2 DEF Awaited
    <3>2. m.uuid \in Uuid
      BY <1>1, <3>1, MessageType
    <3>3. cbMap[m.uuid] = [kind |-> m.kind, id |-> m.id]
      BY <3>1 DEF Inv, UuidInv
    <3> QED
      BY <1>1, <1>8, <2>2, <3>1, <3>2, <3>3, OpenIs
  <2>3. \A m \in Msgs : m.id \in Entity
    BY <1>1, MessageType
  <2> SUFFICES ASSUME NEW m \in Msgs, Awaited(m), ~overlapped'[m.id]
               PROVE  /\ \/ destroyVer'[m.id] = nil
                         \/ status'[m.id] = "destroying" /\ destroyVer'[m.id] = m.ver
                      /\ ~abandoned'[m.id] => status'[m.id] = "destroying"
                      /\ \A y \in Range(saveList') : y.id # m.id
                      /\ \A k \in Msgs : Awaited(k) /\ k.id = m.id => k.uuid = m.uuid
    BY <1>7, <2>1 DEF SentInv
  <2>4. m.id # e
    BY <2>2
  <2> QED
    BY <1>2, <1>4, <1>7, <1>8, <2>3, <2>4 DEF Inv, SentInv
<1>16. \A f \in Entity : InTurn(f)' => InTurn(f) /\ (f = e => ~OnWire(e))
  BY <1>8 DEF InTurn
<1>17. \A m \in Msgs : m.id \in Entity /\ (Awaited(m)' <=> Awaited(m))
  BY <1>1, <1>7, MessageType DEF Awaited
<1>18. WireInv'
  <2>1. ASSUME NEW y \in Range(saveList'), NEW k \in Range(wire), InTurn(y.id)', k.kind = "save"
        PROVE  k.id # y.id
    <3>1. CASE y = x
      BY <1>1, <1>2, <1>16, <2>1, <3>1, OnWireIs
    <3>2. CASE y \in Range(saveList)
      BY <1>5, <1>16, <2>1, <3>2 DEF Inv, WireInv
    <3> QED
      BY <1>4, <3>1, <3>2
  <2>2. \A m \in Msgs, k \in Range(wire) :
            Awaited(m)' /\ InTurn(m.id)' /\ k.kind = "save" /\ k.id = m.id => k.ver = m.ver
    BY <1>16, <1>17 DEF Inv, WireInv
  <2> QED
    BY <1>7, <2>1, <2>2 DEF WireInv
<1>19. StoredInv'
  <2>1. \A a \in Range(answers) : a \in Msgs
    BY DEF Msgs
  <2>2. \A a \in Range(answers) : Awaited(a)' /\ ~a.err /\ InTurn(a.id)' => db[a.id] = a.ver
    BY <1>16, <1>17, <2>1 DEF Inv, StoredInv
  <2>3. \A f \in Entity : status'[f] = "none" /\ destroyVer'[f] # nil /\ InTurn(f)' =>
            /\ status[f] = "none" /\ destroyVer[f] # nil /\ InTurn(f)
            /\ destroyVer'[f] = destroyVer[f]
    BY <1>8, <1>16
  <2> QED
    BY <1>7, <2>2, <2>3 DEF Inv, StoredInv
<1> QED
  BY <1>9, <1>10, <1>11, <1>12, <1>13, <1>14, <1>15, <1>18, <1>19 DEF Rest

\* An awaited save has its callback.
LEMMA AwaitedCallback ==
    ASSUME Inv, NEW m \in Msgs, Awaited(m)
    PROVE  m.uuid \in Uuid /\ cbMap[m.uuid] = [kind |-> "save", id |-> m.id]
<1>1. m.kind = "save" /\ m.uuid # NoCallback /\ cbMap[m.uuid] # nil
  BY DEF Awaited
<1>2. m.uuid \in Uuid
  BY <1>1, MessageType DEF Inv
<1> QED
  BY <1>1, <1>2 DEF Inv, UuidInv

LEMMA DestroyWithoutSaveStep ==
    ASSUME Inv, NEW e \in Entity, DestroyWithoutSave(e)
    PROVE  Rest'
<1>1. TypeOK
  BY DEF Inv
<1>2. /\ saveList' = saveList /\ entityInfo' = entityInfo /\ added' = added /\ batch' = batch
      /\ cbMap' = cbMap /\ uuid' = uuid /\ Msgs' = Msgs /\ answers' = answers /\ wire' = wire
      /\ db' = db /\ overlapped' = overlapped /\ crossed' = crossed
  BY DEF DestroyWithoutSave, saves, callbacks, network, Msgs
<1>3. /\ \A f \in Entity : f # e => /\ abandoned'[f] = abandoned[f] /\ status'[f] = status[f]
                                    /\ destroyVer'[f] = destroyVer[f]
      /\ Open(e) => abandoned'[e]
      /\ status'[e] = "none" /\ destroyVer'[e] = nil
  BY <1>1, OpenIs DEF TypeOK, DestroyWithoutSave
<1>4. \A x \in Range(saveList) \cup Range(batch) : x.id \in Entity
  BY <1>1, ElementType
<1>5. \A m \in Msgs : m.id \in Entity /\ (Awaited(m)' <=> Awaited(m))
  BY <1>1, <1>2, MessageType DEF Awaited
<1>6. NumberInv' /\ MapInv' /\ BatchInv'
  BY <1>2 DEF Inv, NumberInv, MapInv, BatchInv
<1>7. UuidInv'
  BY <1>2 DEF Inv, UuidInv, NoCallback
<1>8. LoadInv'
  <2>1. \A f \in Entity : status[f] = "none" => status'[f] = "none"
    BY <1>3
  <2>2. \A u \in Uuid : cbMap[u] # nil => cbMap[u].id \in Entity
    BY <1>1 DEF TypeOK
  <2> QED
    BY <1>2, <2>1, <2>2 DEF Inv, LoadInv
<1>9. QueuedInv'
  <2>1. \A x \in Range(saveList) : x.id = e => abandoned'[e]
    BY <1>1, <1>3, OpenIs
  <2> QED
    BY <1>2, <1>3, <1>4, <2>1 DEF Inv, QueuedInv
<1>10. SentInv'
  <2>1. \A m \in Msgs : Awaited(m) /\ m.id = e => abandoned'[e]
    BY <1>1, <1>3, OpenIs, AwaitedCallback
  <2> QED
    BY <1>2, <1>3, <1>5, <2>1 DEF Inv, SentInv
<1>11. WireInv'
  BY <1>2, <1>5, WireFrame
<1>12. StoredInv'
  <2>1. \A f \in Entity : destroyVer'[f] # nil =>
            destroyVer'[f] = destroyVer[f] /\ status'[f] = status[f]
    BY <1>3
  <2>2. \A a \in Range(answers) : Awaited(a)' => Awaited(a)
    BY <1>5 DEF Msgs
  <2> QED
    BY <1>2, <2>1, <2>2 DEF Inv, StoredInv, InTurn
<1> QED
  BY <1>6, <1>7, <1>8, <1>9, <1>10, <1>11, <1>12 DEF Rest

\* what LoadEntity and SaveEntity do to the callbacks
LEMMA FreshCallback ==
    ASSUME Inv, NEW kind \in {"save", "load"}, NEW e \in Entity, SetCallback(kind, e)
    PROVE  /\ uuid' = uuid + 1 /\ uuid' \in Uuid /\ uuid \in Nat
           /\ cbMap'[uuid'] = [kind |-> kind, id |-> e]
           /\ \A u \in Uuid : u # uuid' => cbMap'[u] = cbMap[u]
           /\ \A m \in Msgs : m.uuid # uuid' /\ m.uuid <= uuid'
           /\ \A m \in Msgs : m.uuid # NoCallback => cbMap'[m.uuid] = cbMap[m.uuid]
           /\ \A u \in Uuid : cbMap'[u] # nil => u <= uuid'
<1>1. TypeOK
  BY DEF Inv
<1>2. uuid' = uuid + 1 /\ uuid' \in Uuid /\ uuid \in Nat
  BY <1>1, SetCallbackType, MessageType
<1>3. /\ cbMap'[uuid'] = [kind |-> kind, id |-> e]
      /\ \A u \in Uuid : u # uuid' => cbMap'[u] = cbMap[u]
  BY <1>1, <1>2 DEF SetCallback, TypeOK
<1>4. \A m \in Msgs : m.uuid # uuid' /\ m.uuid <= uuid'
  BY <1>1, <1>2, MessageType DEF Inv, UuidInv
<1>5. \A m \in Msgs : m.uuid # NoCallback => cbMap'[m.uuid] = cbMap[m.uuid]
  BY <1>1, <1>3, <1>4, MessageType
<1>6. \A u \in Uuid : cbMap'[u] # nil => u <= uuid'
  <2>1. \A u \in Uuid : u \in Nat
    BY DEF Uuid
  <2> QED
    BY <1>2, <1>3, <2>1 DEF Inv, UuidInv
<1> QED
  BY <1>2, <1>3, <1>4, <1>5, <1>6

LEMMA LoadEntityStep ==
    ASSUME Inv, NEW e \in Entity, LoadEntity(e)
    PROVE  Rest'
<1> DEFINE m == [kind |-> "load", id |-> e, ver |-> 0, uuid |-> uuid + 1]
<1>1. TypeOK
  BY DEF Inv
<1>2. /\ saveList' = saveList /\ entityInfo' = entityInfo /\ added' = added /\ batch' = batch
      /\ status' = status /\ destroyVer' = destroyVer /\ overlapped' = overlapped
      /\ crossed' = crossed /\ abandoned' = abandoned /\ answers' = answers /\ db' = db
  BY DEF LoadEntity, saves, entities
<1>3. /\ uuid' = uuid + 1 /\ uuid' \in Uuid /\ uuid \in Nat
      /\ cbMap'[uuid'] = [kind |-> "load", id |-> e]
      /\ \A u \in Uuid : u # uuid' => cbMap'[u] = cbMap[u]
      /\ \A k \in Msgs : k.uuid # uuid' /\ k.uuid <= uuid'
      /\ \A k \in Msgs : k.uuid # NoCallback => cbMap'[k.uuid] = cbMap[k.uuid]
      /\ \A u \in Uuid : cbMap'[u] # nil => u <= uuid'
  BY FreshCallback DEF LoadEntity
<1>4. m \in Command /\ m.kind = "load" /\ m.id = e /\ m.uuid = uuid'
  BY <1>3, BoundAssumption DEF Command, Uuid
<1>5. Msgs' \subseteq Msgs \cup {m} /\ Range(wire') \subseteq Range(wire) \cup {m}
  <2>1. wire' = wire \/ wire' = Append(wire, m)
    BY DEF LoadEntity, Send
  <2> HIDE DEF m
  <2>2. Range(wire') \subseteq Range(wire) \cup {m}
    BY <1>1, <1>4, <2>1, RangeAppend, MessageType
  <2> QED
    BY <1>2, <2>2 DEF Msgs
<1> HIDE DEF m
<1>6. NumberInv' /\ MapInv' /\ BatchInv' /\ QueuedInv'
  BY <1>2 DEF Inv, NumberInv, MapInv, BatchInv, QueuedInv
<1>7. UuidInv'
  <2>1. \A k \in Msgs' : k.uuid <= uuid'
    BY <1>3, <1>4, <1>5
  <2>2. \A k \in Msgs' : (k.uuid # NoCallback /\ cbMap'[k.uuid] # nil)
            => cbMap'[k.uuid] = [kind |-> k.kind, id |-> k.id]
    BY <1>3, <1>4, <1>5 DEF Inv, UuidInv
  <2> QED
    BY <1>3, <2>1, <2>2 DEF UuidInv, NoCallback
<1>8. LoadInv'
  <2>1. /\ status[e] = "none"
        /\ \A u \in Uuid : cbMap[u] # [kind |-> "load", id |-> e]
    BY DEF LoadEntity
  <2>2. \A u \in Uuid : (cbMap'[u] # nil /\ cbMap'[u].kind = "load") => status'[cbMap'[u].id] = "none"
    <3>1. ASSUME NEW u \in Uuid, u # uuid', cbMap'[u] # nil, cbMap'[u].kind = "load"
          PROVE  status'[cbMap'[u].id] = "none"
      BY <1>2, <1>3, <3>1 DEF Inv, LoadInv
    <3>2. status'[cbMap'[uuid'].id] = "none"
      BY <1>2, <1>3, <2>1
    <3> QED
      BY <3>1, <3>2
  <2>3. ASSUME NEW u \in Uuid, NEW v \in Uuid, cbMap'[u] # nil, cbMap'[u].kind = "load",
               cbMap'[v] = cbMap'[u]
        PROVE  u = v
    BY <1>3, <2>1, <2>3 DEF Inv, LoadInv
  <2> QED
    BY <2>2, <2>3 DEF LoadInv
<1>9. \A k \in Msgs' : Awaited(k)' => k \in Msgs /\ Awaited(k)
  BY <1>3, <1>4, <1>5 DEF Awaited, NoCallback
<1>10. SentInv'
  BY <1>2, <1>9 DEF Inv, SentInv
<1>11. \A k \in Range(wire') : k.kind = "save" => k \in Range(wire)
  BY <1>4, <1>5
<1>12. \A k \in Range(answers) : Awaited(k)' => Awaited(k)
  BY <1>2, <1>9 DEF Msgs
<1>13. WireInv' /\ StoredInv'
  BY <1>2, <1>9, <1>11, <1>12, WireFrame, StoredFrame
<1> QED
  BY <1>6, <1>7, <1>8, <1>10, <1>13 DEF Rest

LEMMA TickSaveStep ==
    ASSUME Inv, TickSave
    PROVE  Rest'
<1>1. /\ saveList' = saveList /\ entityInfo' = entityInfo /\ added' = added
      /\ status' = status /\ destroyVer' = destroyVer /\ overlapped' = overlapped
      /\ cbMap' = cbMap /\ uuid' = uuid /\ Msgs' = Msgs /\ answers' = answers
      /\ crossed' = crossed /\ abandoned' = abandoned /\ wire' = wire /\ db' = db
  BY DEF TickSave, saves, entities, callbacks, network, Msgs
<1>2. Distinct(batch') /\ Range(batch') \subseteq Range(saveList)
  <2>1. saveList \in Seq(Element) /\ Distinct(saveList)
    BY DEF Inv, TypeOK, NumberInv
  <2>2. PICK k \in 0..Len(saveList) : batch' = SubSeq(saveList, 1, k)
    BY <2>1, BoundAssumption DEF TickSave, Get
  <2>3. 1 \in Nat /\ 1 >= 1
    OBVIOUS
  <2> QED
    BY <2>1, <2>2, <2>3, RangeSubSeq
<1>3. BatchInv'
  BY <1>1, <1>2 DEF BatchInv
<1>4. NumberInv' /\ MapInv' /\ LoadInv' /\ QueuedInv'
  BY <1>1 DEF Inv, NumberInv, MapInv, LoadInv, QueuedInv
<1>5. UuidInv' /\ SentInv'
  BY <1>1 DEF Inv, UuidInv, SentInv, Awaited, NoCallback
<1>6. \A k \in Msgs : Awaited(k)' => Awaited(k)
  BY <1>1 DEF Awaited
<1>7. \A k \in Range(answers) : Awaited(k)' => Awaited(k)
  BY <1>6 DEF Msgs
<1>8. WireInv' /\ StoredInv'
  BY <1>1, <1>6, <1>7, WireFrame, StoredFrame
<1> QED
  BY <1>3, <1>4, <1>5, <1>8 DEF Rest

(***************************************************************************)
(* Sending a save                                                          *)
(***************************************************************************)

\* Remove takes the element out to which the entity is mapped, and only that one.
LEMMA RemoveElements ==
    ASSUME Inv, NEW e \in Entity, Remove(e)
    PROVE  /\ Distinct(saveList')
           /\ Range(saveList') = {x \in Range(saveList) : x.n # entityInfo[e]}
<1>1. saveList \in Seq(Element) /\ Distinct(saveList)
  BY DEF Inv, TypeOK, NumberInv
<1>2. CASE \E i \in DOMAIN saveList :
              saveList[i].n = entityInfo[e] /\ saveList' = Without(saveList, i)
  <2>1. PICK i \in 1..Len(saveList) :
            saveList[i].n = entityInfo[e] /\ saveList' = Without(saveList, i)
    BY <1>1, <1>2
  <2> QED
    BY <1>1, <2>1, RangeWithout
<1>3. CASE (\A i \in DOMAIN saveList : saveList[i].n # entityInfo[e]) /\ saveList' = saveList
  <2>1. \A i \in 1..Len(saveList) : saveList[i].n # entityInfo[e]
    BY <1>1, <1>3
  <2>2. \A x \in Range(saveList) : x.n # entityInfo[e]
    BY <1>1, <2>1, RangeIsElements
  <2> QED
    BY <1>1, <1>3, <2>2
<1> QED
  BY <1>2, <1>3 DEF Remove

LEMMA SaveEntityStep ==
    ASSUME Inv, SaveEntity
    PROVE  Rest'
<1> DEFINE info == Head(batch)
           e == info.id
           m == [kind |-> "save", id |-> e, ver |-> info.ver,
                 uuid |-> IF info.resp THEN uuid + 1 ELSE NoCallback]
<1>1. TypeOK
  BY DEF Inv
<1>2. /\ batch # << >> /\ batch' = Tail(batch) /\ batch \in Seq(Element)
      /\ UNCHANGED <<entities, conn, answers, losses, db>>
  BY <1>1 DEF SaveEntity, TypeOK
<1>3. /\ info \in Range(batch) /\ Range(batch') \subseteq Range(batch) /\ Distinct(batch')
      /\ \A x \in Range(batch') : x.n # info.n
  BY <1>2, RangeHeadTail DEF Inv, BatchInv
<1>4. info \in Element /\ e \in Entity /\ info.resp \in BOOLEAN
  BY <1>1, <1>3, ElementType
<1>5. /\ status' = status /\ destroyVer' = destroyVer /\ overlapped' = overlapped
      /\ crossed' = crossed /\ abandoned' = abandoned /\ answers' = answers /\ db' = db
  BY <1>2 DEF entities
\* the callback
<1>6. /\ uuid \in Nat /\ uuid' \in Nat /\ uuid <= uuid'
      /\ \A u \in Uuid : cbMap'[u] = cbMap[u] \/ (u = uuid' /\ cbMap'[u] = [kind |-> "save", id |-> e])
      /\ \A k \in Msgs : k.uuid # NoCallback => cbMap'[k.uuid] = cbMap[k.uuid]
      /\ \A k \in Msgs : k.uuid <= uuid'
      /\ \A u \in Uuid : cbMap'[u] # nil => u <= uuid'
      /\ m.uuid <= uuid' /\ m.uuid \in 0..MaxUuid
      /\ m.uuid # NoCallback => info.resp /\ cbMap'[m.uuid] = [kind |-> "save", id |-> e]
  <2>1. CASE info.resp
    <3>1. SetCallback("save", e)
      BY <1>1, <2>1 DEF SaveEntity
    <3>2. /\ uuid' = uuid + 1 /\ uuid' \in Uuid /\ uuid \in Nat
          /\ cbMap'[uuid'] = [kind |-> "save", id |-> e]
          /\ \A u \in Uuid : u # uuid' => cbMap'[u] = cbMap[u]
          /\ \A k \in Msgs : k.uuid # uuid' /\ k.uuid <= uuid'
          /\ \A k \in Msgs : k.uuid # NoCallback => cbMap'[k.uuid] = cbMap[k.uuid]
          /\ \A u \in Uuid : cbMap'[u] # nil => u <= uuid'
      BY <1>4, <3>1, FreshCallback
    <3>3. m.uuid = uuid'
      BY <2>1, <3>2
    <3>4. uuid' \in 0..MaxUuid
      BY <3>2, BoundAssumption DEF Uuid
    <3> HIDE DEF m, e, info
    <3> QED
      BY <2>1, <3>2, <3>3, <3>4
  <2>2. CASE ~info.resp
    <3>1. cbMap' = cbMap /\ uuid' = uuid
      BY <2>2 DEF SaveEntity, callbacks
    <3>2. uuid \in Nat /\ \A k \in Msgs : k.uuid \in Nat
      BY <1>1, MessageType
    <3>3. m.uuid = 0 /\ 0 \in 0..MaxUuid
      BY <2>2, BoundAssumption DEF NoCallback
    <3> HIDE DEF m, e, info
    <3> QED
      BY <3>1, <3>2, <3>3 DEF Inv, UuidInv, NoCallback
  <2> QED
    BY <1>4, <2>1, <2>2
<1>7. m \in Command /\ m.kind = "save" /\ m.id = e /\ m.ver = info.ver
  <2>1. info.ver \in 0..MaxVer
    BY <1>4 DEF Element
  <2> QED
    BY <1>4, <1>6, <2>1 DEF Command
<1>8. \/ conn = "disconnected" /\ wire' = wire /\ UNCHANGED saves
      \/ wire' = Append(wire, m) /\ Remove(e)
  BY DEF SaveEntity, Send
<1> HIDE DEF m, e, info
<1>9. \/ Msgs' = Msgs /\ Range(wire') = Range(wire) /\ UNCHANGED saves
      \/ Msgs' = Msgs \cup {m} /\ Range(wire') = Range(wire) \cup {m} /\ Remove(e)
  <2>1. wire \in Seq(Command)
    BY <1>1, MessageType
  <2>2. wire' = Append(wire, m) => Range(wire') = Range(wire) \cup {m}
    BY <1>7, <2>1, RangeAppend
  <2> QED
    BY <1>5, <1>8, <2>2 DEF Msgs
<1>10. Msgs' \subseteq Msgs \cup {m}
  BY <1>9
\* the list
<1>11. /\ Distinct(saveList') /\ added' = added
       /\ Range(saveList') \subseteq Range(saveList)
  BY <1>4, <1>9, RemoveElements DEF saves, Inv, NumberInv, Remove
<1>12. NumberInv'
  BY <1>11 DEF Inv, NumberInv
<1>13. \A x, y \in Range(saveList) : x.n = y.n => x = y
  BY DistinctElements DEF Inv, NumberInv, TypeOK
<1>14. \A x \in Range(saveList) \cup Range(batch) : x.id \in Entity /\ x.n \in Nat
  BY <1>1, ElementType
<1>15. ASSUME Remove(e), NEW x \in Range(saveList), x.id # e PROVE x \in Range(saveList')
  <2>1. x.n # entityInfo[e]
    BY <1>1, <1>4, <1>13, <1>14, <1>15, ElementType DEF Inv, MapInv
  <2> QED
    BY <1>4, <1>15, <2>1, RemoveElements
<1>16. MapInv'
  <2>1. CASE UNCHANGED saves
    BY <1>5, <2>1 DEF Inv, MapInv, saves
  <2>2. CASE Remove(e)
    <3>1. entityInfo' = [entityInfo EXCEPT ![e] = nil] /\ entityInfo \in [Entity -> (1..MaxAdd) \cup {nil}]
      BY <1>1, <2>2 DEF Remove, TypeOK
    <3>2. \A f \in Entity : entityInfo'[f] # nil => f # e /\ entityInfo'[f] = entityInfo[f]
      BY <1>4, <3>1
    <3>3. \A f \in Entity : entityInfo'[f] # nil =>
             /\ \E x \in Range(saveList') : x.n = entityInfo'[f] /\ x.id = f
             /\ \A x \in Range(saveList') : x.id = f => x.n <= entityInfo'[f]
      BY <1>11, <1>15, <2>2, <3>2 DEF Inv, MapInv
    <3>4. ASSUME NEW x \in Range(saveList'), ~overlapped'[x.id] PROVE entityInfo'[x.id] = x.n
      <4>1. x \in Range(saveList) /\ x.n # entityInfo[e] /\ x.id \in Entity
        BY <1>4, <1>14, <2>2, RemoveElements
      <4>2. entityInfo[x.id] = x.n
        BY <1>5, <3>4, <4>1 DEF Inv, MapInv
      <4> QED
        BY <3>1, <4>1, <4>2
    <3> QED
      BY <3>3, <3>4 DEF MapInv
  <2> QED
    BY <1>9, <2>1, <2>2
\* a save that is not overlapped is in the list until it is sent
<1>17. ~overlapped[e] =>
          /\ info \in Range(saveList) /\ info.n = entityInfo[e]
          /\ status[e] = "none" => destroyVer[e] = nil
          /\ info.resp => \/ destroyVer[e] = nil
                          \/ status[e] = "destroying" /\ destroyVer[e] = info.ver
          /\ info.resp /\ ~abandoned[e] => status[e] = "destroying"
  BY <1>3 DEF Inv, BatchInv, MapInv, QueuedInv, e
<1>18. BatchInv'
  <2> SUFFICES ASSUME NEW x \in Range(batch'), ~overlapped'[x.id] PROVE x \in Range(saveList')
    BY <1>3 DEF BatchInv
  <2>1. x \in Range(saveList) /\ x.n # info.n
    BY <1>3, <1>5 DEF Inv, BatchInv
  <2>2. CASE x.id = e
    <3>1. ~overlapped[e] /\ x.n = entityInfo[e] /\ info.n = entityInfo[e]
      BY <1>5, <1>17, <2>1, <2>2 DEF Inv, MapInv
    <3> QED
      BY <2>1, <3>1
  <2>3. CASE x.id # e
    BY <1>9, <1>15, <2>1, <2>3 DEF saves
  <2> QED
    BY <2>2, <2>3
<1>19. UuidInv'
  <2>1. \A k \in Msgs' : k.uuid <= uuid'
    BY <1>6, <1>10
  <2>2. \A k \in Msgs' : (k.uuid # NoCallback /\ cbMap'[k.uuid] # nil)
            => cbMap'[k.uuid] = [kind |-> k.kind, id |-> k.id]
    BY <1>6, <1>7, <1>10 DEF Inv, UuidInv
  <2> QED
    BY <1>6, <2>1, <2>2 DEF UuidInv, NoCallback
<1>20. LoadInv'
  <2>1. \A u \in Uuid : cbMap'[u] # nil /\ cbMap'[u].kind = "load" => cbMap'[u] = cbMap[u]
    BY <1>6
  <2>2. \A u, v \in Uuid : cbMap'[u] # nil /\ cbMap'[u].kind = "load" /\ cbMap'[v] = cbMap'[u]
            => cbMap[v] = cbMap[u]
    BY <2>1
  <2> QED
    BY <1>5, <2>1, <2>2 DEF Inv, LoadInv
<1>21. QueuedInv'
  BY <1>5, <1>11 DEF Inv, QueuedInv
<1>22. \A k \in Msgs : Awaited(k)' <=> Awaited(k)
  BY <1>6 DEF Awaited, NoCallback
<1>23. \A k \in Msgs : Awaited(k) /\ ~overlapped[k.id] => k.id # e
  BY <1>17 DEF Inv, SentInv, e
<1>24. ASSUME Remove(e), NEW x \in Range(saveList'), ~overlapped[x.id] PROVE x.id # e
  <2>1. x \in Range(saveList) /\ x.n # entityInfo[e]
    BY <1>4, <1>24, RemoveElements
  <2> QED
    BY <1>24, <2>1 DEF Inv, MapInv
<1>25. SentInv'
  <2>1. ASSUME NEW k \in Msgs, Awaited(k), ~overlapped[k.id]
        PROVE  /\ \/ destroyVer'[k.id] = nil
                  \/ status'[k.id] = "destroying" /\ destroyVer'[k.id] = k.ver
               /\ ~abandoned'[k.id] => status'[k.id] = "destroying"
               /\ \A x \in Range(saveList') : x.id # k.id
               /\ \A l \in Msgs' : Awaited(l)' /\ l.id = k.id => l.uuid = k.uuid
    BY <1>5, <1>7, <1>10, <1>11, <1>22, <1>23, <2>1 DEF Inv, SentInv
  <2>2. ASSUME NEW k \in Msgs', k = m, Awaited(k)', ~overlapped[k.id], k \notin Msgs
        PROVE  /\ \/ destroyVer'[k.id] = nil
                  \/ status'[k.id] = "destroying" /\ destroyVer'[k.id] = k.ver
               /\ ~abandoned'[k.id] => status'[k.id] = "destroying"
               /\ \A x \in Range(saveList') : x.id # k.id
               /\ \A l \in Msgs' : Awaited(l)' /\ l.id = k.id => l.uuid = k.uuid
    <3>1. Remove(e) /\ k.id = e
      BY <1>7, <1>9, <2>2
    <3>2. info.resp
      BY <1>6, <2>2 DEF Awaited, NoCallback
    <3>3. \A x \in Range(saveList') : x.id # k.id
      BY <1>24, <2>2, <3>1
    <3>4. \A l \in Msgs' : Awaited(l)' /\ l.id = k.id => l.uuid = k.uuid
      BY <1>10, <1>22, <1>23, <2>2, <3>1
    <3> QED
      BY <1>5, <1>7, <1>17, <2>2, <3>1, <3>2, <3>3, <3>4
  <2> QED
    BY <1>5, <1>10, <1>22, <2>1, <2>2 DEF SentInv
<1>26. WireInv'
  <2>1. CASE Range(wire') = Range(wire) /\ Msgs' = Msgs
    BY <1>5, <1>11, <1>22, <2>1, WireFrame
  <2>2. CASE Range(wire') = Range(wire) \cup {m} /\ Remove(e)
    <3>1. \A f : InTurn(f)' <=> InTurn(f)
      BY <1>5 DEF InTurn
    <3>2. ASSUME NEW x \in Range(saveList'), NEW k \in Range(wire'), InTurn(x.id), k.kind = "save"
          PROVE  k.id # x.id
      <4>1. x.id # e /\ x \in Range(saveList)
        BY <1>11, <1>24, <2>2, <3>2 DEF InTurn
      <4> QED
        BY <1>7, <2>2, <3>2, <4>1 DEF Inv, WireInv
    <3>3. ASSUME NEW l \in Msgs', NEW k \in Range(wire'), Awaited(l)', InTurn(l.id), k.kind = "save",
                 k.id = l.id
          PROVE  k.ver = l.ver
      <4>1. CASE l \in Msgs /\ k \in Range(wire)
        BY <1>22, <3>3, <4>1 DEF Inv, WireInv
      <4>2. CASE l \in Msgs /\ k = m
        BY <1>7, <1>22, <1>23, <3>3, <4>2 DEF InTurn
      <4>3. CASE l = m /\ k \in Range(wire)
        <5>1. InTurn(e) /\ k.id = e
          BY <1>7, <3>3, <4>3
        <5>2. info \in Range(saveList) /\ info.id = e
          BY <1>17, <5>1 DEF InTurn, e
        <5> QED
          BY <3>3, <4>3, <5>1, <5>2 DEF Inv, WireInv
      <4> QED
        BY <1>10, <2>2, <4>1, <4>2, <4>3
    <3> QED
      BY <3>1, <3>2, <3>3 DEF WireInv
  <2> QED
    BY <1>9, <2>1, <2>2
<1>27. StoredInv'
  <2>1. \A a \in Range(answers) : Awaited(a)' => Awaited(a)
    BY <1>22 DEF Msgs
  <2>2. ASSUME NEW f \in Entity, status[f] = "none", destroyVer[f] # nil, InTurn(f),
               NEW k \in Range(wire'), k.kind = "save", k.id = f
        PROVE  k \in Range(wire)
    BY <1>7, <1>9, <1>17, <2>2 DEF InTurn
  <2> QED
    BY <1>5, <2>1, <2>2 DEF Inv, StoredInv, InTurn
<1> QED
  BY <1>12, <1>16, <1>18, <1>19, <1>20, <1>21, <1>25, <1>26, <1>27 DEF Rest

(***************************************************************************)
(* Answers, timeouts and the connection                                    *)
(***************************************************************************)

\* Steps that leave the list, the callbacks and the entities alone and add no
\* message that was not there, but for the answer of a command.
LEMMA MessageFrame ==
    ASSUME Inv, UNCHANGED <<saves, batch, callbacks, status, destroyVer>>,
           UNCHANGED <<overlapped, crossed, abandoned>>,
           Range(wire') \subseteq Range(wire),
           \A m \in Msgs' : \E k \in Msgs : /\ k.kind = m.kind /\ k.id = m.id /\ k.uuid = m.uuid
                                            /\ m.kind = "save" => k.ver = m.ver
    PROVE  /\ NumberInv' /\ MapInv' /\ BatchInv' /\ UuidInv' /\ LoadInv' /\ QueuedInv' /\ SentInv'
           /\ WireInv'
<1>1. /\ saveList' = saveList /\ entityInfo' = entityInfo /\ added' = added /\ batch' = batch
      /\ status' = status /\ destroyVer' = destroyVer /\ overlapped' = overlapped
      /\ abandoned' = abandoned /\ cbMap' = cbMap /\ uuid' = uuid
  BY DEF saves, callbacks
<1>2. NumberInv' /\ MapInv' /\ BatchInv' /\ LoadInv' /\ QueuedInv'
  BY <1>1 DEF Inv, NumberInv, MapInv, BatchInv, LoadInv, QueuedInv
<1>3. UuidInv'
  BY <1>1 DEF Inv, UuidInv, NoCallback
<1>4. \A m \in Msgs' : Awaited(m)' => \E k \in Msgs :
          Awaited(k) /\ k.id = m.id /\ k.uuid = m.uuid /\ k.ver = m.ver
  BY <1>1 DEF Awaited, NoCallback
<1>5. SentInv'
  <2> SUFFICES ASSUME NEW m \in Msgs', Awaited(m)', ~overlapped[m.id]
               PROVE  /\ \/ destroyVer[m.id] = nil
                         \/ status[m.id] = "destroying" /\ destroyVer[m.id] = m.ver
                      /\ ~abandoned[m.id] => status[m.id] = "destroying"
                      /\ \A x \in Range(saveList) : x.id # m.id
                      /\ \A l \in Msgs' : Awaited(l)' /\ l.id = m.id => l.uuid = m.uuid
    BY <1>1 DEF SentInv
  <2>1. PICK k \in Msgs : Awaited(k) /\ k.id = m.id /\ k.uuid = m.uuid /\ k.ver = m.ver
    BY <1>4
  <2> QED
    BY <1>4, <2>1 DEF Inv, SentInv
<1>6. WireInv'
  BY <1>1, <1>4, WireFrame
<1> QED
  BY <1>2, <1>3, <1>5, <1>6

\* Steps that remove a callback and leave the list alone.
LEMMA CalledFrame ==
    ASSUME Inv, NEW u \in Uuid, Called(u), UNCHANGED <<saves, batch, overlapped>>, Msgs' \subseteq Msgs
    PROVE  /\ NumberInv' /\ MapInv' /\ BatchInv' /\ UuidInv'
           /\ \A v \in Uuid : cbMap'[v] # nil => v # u /\ cbMap'[v] = cbMap[v]
           /\ \A m \in Msgs' : Awaited(m)' => Awaited(m) /\ m.uuid # u
<1>1. /\ saveList' = saveList /\ entityInfo' = entityInfo /\ added' = added /\ batch' = batch
      /\ overlapped' = overlapped /\ uuid' = uuid /\ cbMap' = [cbMap EXCEPT ![u] = nil]
      /\ TypeOK
  BY DEF saves, Called, Inv
<1>2. NumberInv' /\ MapInv' /\ BatchInv'
  BY <1>1 DEF Inv, NumberInv, MapInv, BatchInv
<1>3. \A v \in Uuid : cbMap'[v] # nil => v # u /\ cbMap'[v] = cbMap[v]
  BY <1>1 DEF TypeOK
<1>4. \A m \in Msgs : m.uuid # NoCallback => m.uuid \in Uuid
  BY <1>1, MessageType
<1>5. UuidInv'
  BY <1>1, <1>3, <1>4 DEF Inv, UuidInv, NoCallback
<1>6. \A m \in Msgs' : Awaited(m)' => Awaited(m) /\ m.uuid # u
  BY <1>3, <1>4 DEF Awaited, NoCallback
<1> QED
  BY <1>2, <1>3, <1>5, <1>6

\* A callback that is called without effect on entities: a timeout, an error.
LEMMA CalledStep ==
    ASSUME Inv, NEW u \in Uuid, Called(u), UNCHANGED <<entities, saves, batch, db>>,
           Msgs' \subseteq Msgs, Range(answers') \subseteq Range(answers),
           Range(wire') \subseteq Range(wire)
    PROVE  Rest'
<1>1. /\ saveList' = saveList /\ status' = status /\ destroyVer' = destroyVer
      /\ overlapped' = overlapped /\ crossed' = crossed /\ abandoned' = abandoned /\ db' = db
  BY DEF saves, entities
<1>2. /\ NumberInv' /\ MapInv' /\ BatchInv' /\ UuidInv'
      /\ \A v \in Uuid : cbMap'[v] # nil => v # u /\ cbMap'[v] = cbMap[v]
      /\ \A m \in Msgs' : Awaited(m)' => Awaited(m) /\ m.uuid # u
  BY <1>1, CalledFrame
<1>3. LoadInv'
  BY <1>1, <1>2 DEF Inv, LoadInv
<1>4. QueuedInv'
  BY <1>1 DEF Inv, QueuedInv
<1>5. SentInv'
  BY <1>1, <1>2 DEF Inv, SentInv
<1>6. WireInv'
  BY <1>1, <1>2, WireFrame
<1>7. StoredInv'
  <2>1. \A m \in Range(answers') : Awaited(m)' => Awaited(m)
    BY <1>2 DEF Msgs
  <2> QED
    BY <1>1, <2>1 DEF Inv, StoredInv, InTurn
<1> QED
  BY <1>2, <1>3, <1>4, <1>5, <1>6, <1>7 DEF Rest

LEMMA ResponseStep ==
    ASSUME Inv, DBCommandResponse
    PROVE  /\ Rest'
           /\ \A f \in Entity :
                 status'[f] = "none" /\ status[f] # "none" /\ ~overlapped[f] /\ ~abandoned[f]
                     => status[f] = "destroying"
<1> DEFINE a == Head(answers)
           e == a.id
<1>1. TypeOK
  BY DEF Inv
<1>2. /\ answers # << >> /\ answers' = Tail(answers) /\ wire' = wire /\ answers \in Seq(Answer)
      /\ UNCHANGED <<saves, batch, conn, wire, losses, db>>
  BY <1>1, MessageType DEF DBCommandResponse
<1>3. a \in Range(answers) /\ Range(answers') \subseteq Range(answers)
  BY <1>2, RangeHeadTail
<1>4. a \in Msgs /\ Msgs' \subseteq Msgs
  BY <1>2, <1>3 DEF Msgs
<1>5. a.uuid \in Uuid /\ a.uuid # NoCallback /\ e \in Entity /\ a.err \in BOOLEAN /\ a.kind \in {"save", "load"}
  BY <1>1, <1>3, <1>4, MessageType
<1>6. \/ cbMap[a.uuid] = nil /\ UNCHANGED <<entities, callbacks>>
      \/ /\ cbMap[a.uuid] # nil /\ Called(a.uuid)
         /\ \/ a.err /\ UNCHANGED entities
            \/ ~a.err /\ a.kind = "save" /\ SavedOnDestroy(e)
            \/ ~a.err /\ a.kind = "load" /\ CreateEntityFromData(e, a.ver)
  BY DEF DBCommandResponse
<1> HIDE DEF a
<1>7. CASE UNCHANGED <<entities, callbacks>>
  <2>1. /\ status' = status /\ destroyVer' = destroyVer /\ overlapped' = overlapped
        /\ crossed' = crossed /\ abandoned' = abandoned /\ db' = db
    BY <1>2, <1>7 DEF entities
  <2>2. /\ NumberInv' /\ MapInv' /\ BatchInv' /\ UuidInv' /\ LoadInv' /\ QueuedInv' /\ SentInv'
        /\ WireInv'
    BY <1>2, <1>4, <1>7, <2>1, MessageFrame
  <2>3. StoredInv'
    <3>1. \A m \in Range(answers) : Awaited(m)' => Awaited(m)
      BY <1>7 DEF Awaited, callbacks
    <3> QED
      BY <1>2, <1>3, <2>1, <3>1, StoredFrame
  <2> QED
    BY <2>1, <2>2, <2>3 DEF Rest
<1>8. CASE Called(a.uuid) /\ UNCHANGED entities
  BY <1>2, <1>3, <1>4, <1>5, <1>8, CalledStep DEF entities
<1>9. ASSUME cbMap[a.uuid] # nil, Called(a.uuid), UNCHANGED <<overlapped, crossed, abandoned>>
      PROVE  /\ saveList' = saveList /\ overlapped' = overlapped /\ crossed' = crossed
             /\ abandoned' = abandoned /\ db' = db
             /\ NumberInv' /\ MapInv' /\ BatchInv' /\ UuidInv' /\ WireInv'
             /\ \A v \in Uuid : cbMap'[v] # nil => v # a.uuid /\ cbMap'[v] = cbMap[v]
             /\ \A m \in Msgs' : Awaited(m)' => Awaited(m) /\ m.uuid # a.uuid
             /\ cbMap[a.uuid] = [kind |-> a.kind, id |-> e]
  <2>1. /\ saveList' = saveList /\ overlapped' = overlapped /\ crossed' = crossed
        /\ abandoned' = abandoned /\ db' = db
    BY <1>2, <1>9 DEF saves
  <2>2. /\ NumberInv' /\ MapInv' /\ BatchInv' /\ UuidInv'
        /\ \A v \in Uuid : cbMap'[v] # nil => v # a.uuid /\ cbMap'[v] = cbMap[v]
        /\ \A m \in Msgs' : Awaited(m)' => Awaited(m) /\ m.uuid # a.uuid
    BY <1>2, <1>4, <1>5, <1>9, <2>1, CalledFrame
  <2>3. cbMap[a.uuid] = [kind |-> a.kind, id |-> e]
    BY <1>4, <1>5, <1>9 DEF Inv, UuidInv
  <2>4. WireInv'
    BY <1>2, <1>4, <2>1, <2>2, WireFrame
  <2> QED
    BY <2>1, <2>2, <2>3, <2>4
<1>10. \A m \in Msgs' : m \in Msgs /\ m.id \in Entity
  BY <1>1, <1>4, MessageType
<1>11. \A x \in Range(saveList) : x.id \in Entity
  BY <1>1, ElementType
<1>12. \A u \in Uuid : cbMap[u] # nil => /\ cbMap[u].id \in Entity
                                         /\ cbMap[u] = [kind |-> cbMap[u].kind, id |-> cbMap[u].id]
  BY <1>1 DEF TypeOK
<1>13. CASE /\ cbMap[a.uuid] # nil /\ Called(a.uuid)
            /\ ~a.err /\ a.kind = "save" /\ SavedOnDestroy(e)
  <2>1. /\ destroyVer' = destroyVer /\ UNCHANGED <<overlapped, crossed, abandoned>>
        /\ status' = [status EXCEPT ![e] = "none"] /\ status \in [Entity -> {"none", "ready", "destroying"}]
    BY <1>1, <1>13 DEF SavedOnDestroy, TypeOK
  <2>2. Awaited(a)
    BY <1>5, <1>13 DEF Awaited
  <2>3. ~overlapped[e] => /\ \/ destroyVer[e] = nil
                             \/ status[e] = "destroying" /\ destroyVer[e] = a.ver
                          /\ ~abandoned[e] => status[e] = "destroying"
                          /\ \A x \in Range(saveList) : x.id # e
                          /\ \A k \in Msgs : Awaited(k) /\ k.id = e => k.uuid = a.uuid
    BY <1>4, <2>2 DEF Inv, SentInv
  <2>4. LoadInv'
    BY <1>5, <1>9, <1>12, <1>13, <2>1 DEF Inv, LoadInv
  <2>5. QueuedInv'
    BY <1>5, <1>9, <1>11, <1>13, <2>1, <2>3 DEF Inv, QueuedInv
  <2>6. SentInv'
    <3>1. \A m \in Msgs' : Awaited(m)' /\ ~overlapped[m.id] => m.id # e
      BY <1>9, <1>10, <1>13, <2>1, <2>3
    <3> QED
      BY <1>5, <1>9, <1>10, <1>13, <2>1, <3>1 DEF Inv, SentInv
  <2>7. StoredInv'
    <3>1. \A b \in Range(answers') : Awaited(b)' => b \in Range(answers) /\ Awaited(b)
      BY <1>3, <1>9, <1>13, <2>1 DEF Msgs
    <3>2. ASSUME destroyVer[e] # nil, InTurn(e)
          PROVE  /\ db[e] = destroyVer[e]
                 /\ \A k \in Range(wire) : k.kind = "save" /\ k.id = e => k.ver = destroyVer[e]
      <4>1. destroyVer[e] = a.ver
        BY <2>3, <3>2 DEF InTurn
      <4>2. db[e] = a.ver
        BY <1>3, <1>13, <2>2, <3>2 DEF Inv, StoredInv
      <4>3. \A k \in Range(wire) : k.kind = "save" /\ k.id = e => k.ver = a.ver
        BY <1>4, <2>2, <3>2 DEF Inv, WireInv
      <4> QED
        BY <4>1, <4>2, <4>3
    <3>3. \A f \in Entity : status'[f] = "none" => f = e \/ status[f] = "none"
      BY <1>5, <2>1
    <3> QED
      BY <1>2, <1>9, <1>13, <2>1, <3>1, <3>2, <3>3 DEF Inv, StoredInv, InTurn
  <2>8. \A f \in Entity :
            status'[f] = "none" /\ status[f] # "none" /\ ~overlapped[f] /\ ~abandoned[f]
                => status[f] = "destroying"
    BY <1>5, <2>1, <2>3
  <2> QED
    BY <1>9, <1>13, <2>1, <2>4, <2>5, <2>6, <2>7, <2>8 DEF Rest
<1>14. CASE /\ cbMap[a.uuid] # nil /\ Called(a.uuid)
            /\ ~a.err /\ a.kind = "load" /\ CreateEntityFromData(e, a.ver)
  <2>1. /\ UNCHANGED <<overlapped, crossed, abandoned>>
        /\ status' = [status EXCEPT ![e] = "ready"] /\ status \in [Entity -> {"none", "ready", "destroying"}]
        /\ destroyVer' = [destroyVer EXCEPT ![e] = nil]
        /\ destroyVer \in [Entity -> (0..MaxVer) \cup {nil}]
    BY <1>1, <1>14 DEF CreateEntityFromData, TypeOK
  <2>2. cbMap[a.uuid] = [kind |-> "load", id |-> e]
    BY <1>9, <1>14, <2>1
  <2>3. status[e] = "none"
    BY <1>5, <1>14, <2>2 DEF Inv, LoadInv
  <2>4. LoadInv'
    <3>1. \A v \in Uuid : cbMap'[v] # nil /\ cbMap'[v].kind = "load" => cbMap'[v].id # e
      BY <1>5, <1>9, <1>12, <1>14, <2>1, <2>2 DEF Inv, LoadInv
    <3> QED
      BY <1>9, <1>12, <1>14, <2>1, <3>1 DEF Inv, LoadInv
  <2>5. QueuedInv'
    BY <1>5, <1>9, <1>11, <1>14, <2>1, <2>3 DEF Inv, QueuedInv
  <2>6. SentInv'
    <3> SUFFICES ASSUME NEW m \in Msgs', Awaited(m)', ~overlapped[m.id]
                 PROVE  /\ \/ destroyVer'[m.id] = nil
                           \/ status'[m.id] = "destroying" /\ destroyVer'[m.id] = m.ver
                        /\ ~abandoned[m.id] => status'[m.id] = "destroying"
                        /\ \A x \in Range(saveList) : x.id # m.id
                        /\ \A k \in Msgs' : Awaited(k)' /\ k.id = m.id => k.uuid = m.uuid
      BY <1>9, <1>14, <2>1 DEF SentInv
    <3>1. m \in Msgs /\ Awaited(m) /\ m.id \in Entity
      BY <1>9, <1>10, <1>14, <2>1
    <3>2. /\ \/ destroyVer[m.id] = nil
             \/ status[m.id] = "destroying" /\ destroyVer[m.id] = m.ver
          /\ ~abandoned[m.id] => status[m.id] = "destroying"
          /\ \A x \in Range(saveList) : x.id # m.id
      BY <3>1 DEF Inv, SentInv
    <3>3. \A k \in Msgs' : Awaited(k)' /\ k.id = m.id => k.uuid = m.uuid
      BY <1>9, <1>10, <1>14, <2>1, <3>1 DEF Inv, SentInv
    <3>4. CASE m.id = e
      BY <1>5, <2>1, <2>3, <3>2, <3>3, <3>4
    <3>5. CASE m.id # e
      BY <2>1, <3>1, <3>2, <3>3, <3>5
    <3> QED
      BY <3>4, <3>5
  <2>7. StoredInv'
    <3>1. \A b \in Range(answers') : Awaited(b)' => b \in Range(answers) /\ Awaited(b)
      BY <1>3, <1>9, <1>14, <2>1 DEF Msgs
    <3>2. \A f \in Entity : status'[f] = "none" => f # e /\ status[f] = "none"
      BY <1>5, <2>1
    <3>3. \A f \in Entity : f # e => destroyVer'[f] = destroyVer[f]
      BY <1>5, <2>1
    <3> QED
      BY <1>2, <1>9, <1>14, <2>1, <3>1, <3>2, <3>3 DEF Inv, StoredInv, InTurn
  <2>8. \A f \in Entity : status'[f] = "none" => status[f] = "none"
    BY <1>5, <2>1
  <2> QED
    BY <1>9, <1>14, <2>1, <2>4, <2>5, <2>6, <2>7, <2>8 DEF Rest
<1>15. CASE /\ cbMap[a.uuid] # nil /\ Called(a.uuid) /\ a.err /\ UNCHANGED entities
  <2>1. status' = status
    BY <1>15 DEF entities
  <2> QED
    BY <1>8, <1>15, <2>1
<1> QED
  BY <1>6, <1>7, <1>13, <1>14, <1>15 DEF entities

\* Lost messages, and commands that are skipped.
LEMMA LossStep ==
    ASSUME Inv, UNCHANGED <<entities, saves, batch, callbacks, db>>,
           Range(wire') \subseteq Range(wire), Range(answers') \subseteq Range(answers)
    PROVE  Rest'
<1>1. /\ status' = status /\ destroyVer' = destroyVer /\ overlapped' = overlapped
      /\ crossed' = crossed /\ abandoned' = abandoned
  BY DEF entities
<1>2. Msgs' \subseteq Msgs
  BY DEF Msgs
<1>3. /\ NumberInv' /\ MapInv' /\ BatchInv' /\ UuidInv' /\ LoadInv' /\ QueuedInv' /\ SentInv'
      /\ WireInv'
  BY <1>1, <1>2, MessageFrame
<1>4. \A m \in Range(answers) : Awaited(m)' => Awaited(m)
  BY DEF Awaited, callbacks
<1>5. StoredInv'
  BY <1>1, <1>4, StoredFrame
<1> QED
  BY <1>3, <1>5 DEF Rest

LEMMA DBExecuteStep ==
    ASSUME Inv, NEW i \in DOMAIN wire, NEW err \in BOOLEAN, NEW again \in BOOLEAN,
           NEW late \in BOOLEAN, DBExecute(i, err, again, late)
    PROVE  Rest'
<1> DEFINE m == wire[i]
           a == [kind |-> m.kind, id |-> m.id, uuid |-> m.uuid,
                 ver |-> IF m.kind = "load" THEN db[m.id] ELSE m.ver, err |-> err]
<1>1. TypeOK
  BY DEF Inv
<1>2. wire \in Seq(Command) /\ answers \in Seq(Answer) /\ i \in 1..Len(wire)
  BY <1>1, MessageType
<1>3. /\ \/ wire' = wire \/ wire' = Without(wire, i)
      /\ answers' = answers \/ (m.uuid # NoCallback /\ answers' = Append(answers, a))
      /\ \/ UNCHANGED db /\ (m.kind = "load" \/ err)
         \/ m.kind = "save" /\ db' = [db EXCEPT ![m.id] = m.ver]
      /\ UNCHANGED <<entities, saves, batch, callbacks, conn, losses>>
  BY DEF DBExecute
<1>4. m \in Range(wire) /\ m \in Msgs /\ m \in Command
  BY <1>2, RangeIsElements DEF Msgs
<1>5. m.id \in Entity /\ m.uuid \in 0..MaxUuid /\ m.kind \in {"save", "load"} /\ m.ver \in 0..MaxVer
  BY <1>4 DEF Command
<1>6. m.uuid # NoCallback => a \in Answer
  <2>1. m.uuid # NoCallback => m.uuid \in Uuid
    BY <1>5, BoundAssumption DEF Uuid, NoCallback
  <2>2. db[m.id] \in 0..MaxVer
    BY <1>1, <1>5 DEF TypeOK
  <2> HIDE DEF m
  <2> QED
    BY <1>5, <2>1, <2>2 DEF Answer
<1>7. /\ a.kind = m.kind /\ a.id = m.id /\ a.uuid = m.uuid /\ a.err = err
      /\ m.kind = "save" => a.ver = m.ver
  OBVIOUS
<1> HIDE DEF m, a
<1>8. Range(wire') \subseteq Range(wire)
  BY <1>2, <1>3, RangeWithout
<1>9. answers' = answers \/ Range(answers') = Range(answers) \cup {a}
  BY <1>2, <1>3, <1>6, RangeAppend
<1>10. \A k \in Msgs' : k \in Msgs \/ k = a
  BY <1>8, <1>9 DEF Msgs
<1>11. /\ status' = status /\ destroyVer' = destroyVer /\ overlapped' = overlapped
       /\ crossed' = crossed /\ abandoned' = abandoned /\ cbMap' = cbMap
  BY <1>3 DEF entities, callbacks
<1>12. \A k \in Msgs' : \E l \in Msgs : /\ l.kind = k.kind /\ l.id = k.id /\ l.uuid = k.uuid
                                        /\ k.kind = "save" => l.ver = k.ver
  BY <1>4, <1>7, <1>10
<1>13. /\ NumberInv' /\ MapInv' /\ BatchInv' /\ UuidInv' /\ LoadInv' /\ QueuedInv' /\ SentInv'
       /\ WireInv'
  BY <1>3, <1>8, <1>11, <1>12, MessageFrame
<1>14. /\ \A f \in Entity : db'[f] = db[f] \/ (m.kind = "save" /\ f = m.id /\ db'[f] = m.ver)
       /\ m.kind = "save" /\ ~err => db'[m.id] = m.ver
  BY <1>1, <1>3, <1>5 DEF TypeOK
<1>15. StoredInv'
  <2>1. \A b \in Range(answers) : b \in Msgs /\ b.id \in Entity
    BY <1>1, MessageType DEF Msgs
  <2>2. ASSUME NEW b \in Range(answers'), Awaited(b)', ~b.err, InTurn(b.id)'
        PROVE  db'[b.id] = b.ver
    <3>1. CASE b = a
      BY <1>7, <1>14, <2>2, <3>1 DEF Awaited
    <3>2. CASE b \in Range(answers)
      <4>1. Awaited(b) /\ InTurn(b.id)
        BY <1>11, <2>2 DEF Awaited, InTurn
      <4>2. db[b.id] = b.ver
        BY <2>2, <3>2, <4>1 DEF Inv, StoredInv
      <4>3. m.kind = "save" /\ m.id = b.id => m.ver = b.ver
        BY <1>4, <2>1, <3>2, <4>1 DEF Inv, WireInv
      <4> QED
        BY <1>14, <2>1, <3>2, <4>2, <4>3
    <3> QED
      BY <1>9, <2>2, <3>1, <3>2
  <2>3. ASSUME NEW f \in Entity, status'[f] = "none", destroyVer'[f] # nil, InTurn(f)'
        PROVE  /\ db'[f] = destroyVer'[f]
               /\ \A k \in Range(wire') : k.kind = "save" /\ k.id = f => k.ver = destroyVer'[f]
    <3>1. /\ db[f] = destroyVer[f]
          /\ \A k \in Range(wire) : k.kind = "save" /\ k.id = f => k.ver = destroyVer[f]
      BY <1>11, <2>3 DEF Inv, StoredInv, InTurn
    <3> QED
      BY <1>4, <1>8, <1>11, <1>14, <3>1
  <2> QED
    BY <2>2, <2>3 DEF StoredInv
<1> QED
  BY <1>13, <1>15 DEF Rest

LEMMA InvInit == Init => Inv
<1> SUFFICES ASSUME Init PROVE Inv
  OBVIOUS
<1>1. TypeOK
  <2>1. 0 \in 0..MaxVer /\ 0 \in 0..MaxAdd /\ 0 \in 0..MaxUuid /\ 0 \in 0..MaxLoss
    BY BoundAssumption
  <2>2. \A S : << >> \in Seq(S)
    OBVIOUS
  <2> QED
    BY <2>1, <2>2 DEF Init, TypeOK
<1>2. /\ Range(saveList) = {} /\ Range(batch) = {} /\ Msgs = {} /\ Range(answers) = {}
      /\ Range(wire) = {}
  BY RangeEmpty DEF Init, Msgs
<1>3. Distinct(saveList) /\ Distinct(batch)
  BY DEF Init, Distinct
<1>4. NumberInv /\ BatchInv /\ QueuedInv /\ SentInv /\ WireInv
  BY <1>2, <1>3 DEF NumberInv, BatchInv, QueuedInv, SentInv, WireInv
<1>5. MapInv /\ UuidInv /\ LoadInv /\ StoredInv
  BY <1>2 DEF Init, MapInv, UuidInv, LoadInv, StoredInv
<1> QED
  BY <1>1, <1>4, <1>5 DEF Inv

LEMMA InvStep == Inv /\ [Next]_vars => Inv'
<1> SUFFICES ASSUME Inv, [Next]_vars PROVE Inv'
  OBVIOUS
<1>0. /\ TypeOK' /\ TypeOK
      /\ saveList \in Seq(Element) /\ wire \in Seq(Command) /\ answers \in Seq(Answer)
  BY TypeStep, MessageType DEF Inv, TypeOK
<1> SUFFICES Rest'
  BY <1>0 DEF Inv, Rest
<1>1. ASSUME NEW e \in Entity, LoadEntity(e) PROVE Rest'
  BY <1>1, LoadEntityStep
<1>2. ASSUME NEW e \in Entity, Change(e) PROVE Rest'
  <2>1. /\ UNCHANGED <<saves, batch, callbacks, status, destroyVer>>
        /\ UNCHANGED <<overlapped, crossed, abandoned>>
        /\ Msgs' = Msgs /\ answers' = answers /\ wire' = wire /\ db' = db
    BY <1>2 DEF Change, network, Msgs
  <2>2. /\ NumberInv' /\ MapInv' /\ BatchInv' /\ UuidInv' /\ LoadInv' /\ QueuedInv' /\ SentInv'
        /\ WireInv'
    BY <2>1, MessageFrame
  <2>3. \A m \in Range(answers) : Awaited(m)' => Awaited(m)
    BY <2>1 DEF Awaited, callbacks
  <2>4. StoredInv'
    BY <2>1, <2>3, StoredFrame
  <2> QED
    BY <2>2, <2>4 DEF Rest
<1>3. ASSUME NEW e \in Entity, SaveToDB(e) PROVE Rest'
  BY <1>3, AddStep DEF SaveToDB
<1>4. ASSUME NEW e \in Entity, Destroy(e) PROVE Rest'
  BY <1>4, AddStep DEF Destroy
<1>5. ASSUME NEW e \in Entity, DestroyWithoutSave(e) PROVE Rest'
  BY <1>5, DestroyWithoutSaveStep
<1>6. CASE TickSave
  BY <1>6, TickSaveStep
<1>7. CASE SaveEntity
  BY <1>7, SaveEntityStep
<1>8. CASE DBCommandResponse
  BY <1>8, ResponseStep
<1>9. ASSUME NEW u \in Uuid, OnTimeout(u) PROVE Rest'
  <2>1. /\ Msgs' \subseteq Msgs /\ Range(answers') \subseteq Range(answers)
        /\ Range(wire') \subseteq Range(wire)
    BY <1>9 DEF OnTimeout, network, Msgs
  <2> QED
    BY <1>9, <2>1, CalledStep DEF OnTimeout
<1>10. CASE ConnectionLost
  <2>1. PICK k \in 0..Len(wire) : wire' = SubSeq(wire, k + 1, Len(wire))
    BY <1>10 DEF ConnectionLost
  <2>2. PICK j \in 0..Len(answers) : answers' = SubSeq(answers, 1, j)
    BY <1>10 DEF ConnectionLost
  <2>3. /\ Len(wire) \in 0..Len(wire) /\ k + 1 \in Nat /\ k + 1 >= 1
        /\ 1 \in Nat /\ 1 >= 1
    BY <1>0
  <2>4. Range(wire') \subseteq Range(wire) /\ Range(answers') \subseteq Range(answers)
    BY <1>0, <2>1, <2>2, <2>3, RangeSubSeq
  <2> QED
    BY <1>10, <2>4, LossStep DEF ConnectionLost
<1>11. CASE Connecting \/ Connected \/ ConnectFails
  <2>1. /\ UNCHANGED <<entities, saves, batch, callbacks, db>>
        /\ wire' = wire /\ answers' = answers
    BY <1>11 DEF Connecting, Connected, ConnectFails
  <2> QED
    BY <2>1, LossStep
<1>12. ASSUME NEW i \in DOMAIN wire, DBSkip(i) PROVE Rest'
  <2>1. Range(wire') \subseteq Range(wire) /\ answers' = answers
    BY <1>0, <1>12, RangeWithout DEF DBSkip
  <2> QED
    BY <1>12, <2>1, LossStep DEF DBSkip
<1>13. ASSUME NEW i \in DOMAIN wire, NEW err \in BOOLEAN, NEW again \in BOOLEAN,
              NEW late \in BOOLEAN, DBExecute(i, err, again, late)
       PROVE  Rest'
  BY <1>13, DBExecuteStep
<1>14. CASE UNCHANGED vars
  <2>1. /\ UNCHANGED <<entities, saves, batch, callbacks, db>>
        /\ wire' = wire /\ answers' = answers
    BY <1>14 DEF vars, entities, saves, callbacks
  <2> QED
    BY <2>1, LossStep
<1> QED
  BY <1>1, <1>2, <1>3, <1>4, <1>5, <1>6, <1>7, <1>8, <1>9, <1>10, <1>11, <1>12, <1>13, <1>14
  DEF Next, Tick, DBStep

(***************************************************************************)
(* The theorems                                                            *)
(***************************************************************************)

LEMMA Invariance == Spec => []Inv
<1> QED
  BY InvInit, InvStep, PTL DEF Spec

\* The save list, the map, the callbacks and the messages keep their types,
\* whatever the entities, the connection and the dbmanager do.
THEOREM TypeCorrect == Spec => []TypeOK
<1>1. Inv => TypeOK
  BY DEF Inv
<1> QED
  BY <1>1, Invariance, PTL

\* Remove of the save manager takes out the newest save of its own entity, and
\* no element is left behind in the list unless saves of one entity overlapped.
THEOREM ListAgrees == Spec => []SaveListAgrees
<1>1. Inv => SaveListAgrees
  <2> SUFFICES ASSUME Inv PROVE SaveListAgrees
    OBVIOUS
  <2>1. saveList \in Seq(Element) /\ DOMAIN saveList = 1..Len(saveList)
    BY DEF Inv, TypeOK
  <2>2. /\ \A x : x \in Range(saveList) <=> \E i \in DOMAIN saveList : saveList[i] = x
        /\ \A i \in DOMAIN saveList : saveList[i] \in Range(saveList)
    BY <2>1, RangeIsElements
  <2>3. \A e \in Entity : entityInfo[e] # nil =>
          /\ \E i \in DOMAIN saveList : saveList[i].n = entityInfo[e] /\ saveList[i].id = e
          /\ \A i \in DOMAIN saveList : saveList[i].id = e => saveList[i].n <= entityInfo[e]
    BY <2>2 DEF Inv, MapInv
  <2>4. \A i \in DOMAIN saveList :
          ~overlapped[saveList[i].id] => entityInfo[saveList[i].id] = saveList[i].n
    BY <2>2 DEF Inv, MapInv
  <2> QED
    BY <2>3, <2>4 DEF SaveListAgrees
<1> QED
  BY <1>1, Invariance, PTL

\* While an entity that was destroyed with a save is gone, the database holds what
\* it was to save, through lost connections, errors, timeouts and commands that are
\* run twice, if no save of the entity was requested before the database had run
\* the one before it and its answer had come or been given up.
THEOREM DestroyIsDurable == Spec => []DestroyedIsSaved
<1>1. Inv => DestroyedIsSaved
  BY DEF Inv, StoredInv, DestroyedIsSaved, InTurn
<1> QED
  BY <1>1, Invariance, PTL

\* The answer to a save ends an entity that is not being destroyed only after saves
\* of it overlapped or it was destroyed without a save while one was open: no late,
\* repeated or lost answer, timeout or reload does it alone.
THEOREM LateFinalNeedsCause == Spec => LateFinalHasCause
<1>1. Inv /\ [Next]_vars =>
        [\A e \in Entity :
          (/\ DBCommandResponse /\ status'[e] = "none" /\ status[e] # "none"
           /\ ~overlapped[e] /\ ~abandoned[e])
              => status[e] = "destroying"]_vars
  BY ResponseStep
<1> QED
  BY <1>1, Invariance, PTL DEF Spec, LateFinalHasCause
=============================================================================
