-------------------------- MODULE GateSessionProofs --------------------------
(***************************************************************************)
(* Proofs about a gate and a game, for any number of clients, entities,    *)
(* logins and connections.                                                 *)
(***************************************************************************)
EXTENDS GateSession, SequenceTheorems, FiniteSetTheorems, TLAPS

(***************************************************************************)
(* The inductive invariant                                                 *)
(***************************************************************************)

GateTask == [type : {"add", "remove", "login"}, id : Nat]
GameMsg == [type : {"hello", "login", "close", "end"}, id : Nat]
GateMsg == [type : {"bind", "unbind", "kick"}, id : Nat, entity : Entity]

\* a client is in one add task at most
AddedOnce(s) == \A i, j \in 1..Len(s) : (s[i].type = "add" /\ s[j] = s[i]) => i = j

\* The gate's own state.  A task names a client that has come; the one that adds
\* a client is there once and has not run; a client that closed without an id
\* has closed early.
GateInv ==
    /\ opened \in 0..MaxClient /\ tried \in 0..MaxLogin
    /\ sock \in [Client -> {"none", "open", "closed"}]
    /\ gateTasks \in Seq(GateTask)
    /\ clientMap \subseteq added /\ added \subseteq 1..opened /\ closing \subseteq added
    /\ \A t \in Range(gateTasks) : t.id <= opened /\ (t.type # "remove" => t.id # 0)
    /\ \A t \in Range(gateTasks) : t.type = "add" => t.id \notin added
    /\ AddedOnce(gateTasks)
    /\ \A c \in Client : sock[c] # "none" => c <= opened
    /\ \A c \in Client : (sock[c] = "closed" /\ c \notin added) => c \in early
    /\ \A c \in clientMap : sock[c] = "closed" =>
          c \in early \/ [type |-> "remove", id |-> c] \in Range(gateTasks)

\* Connections.  Nothing is bound before the first one.
LinkInv ==
    /\ link \in {0, links} /\ links \in 0..MaxLink
    /\ clientToGame \in [Client -> Entity \cup {none}]
    /\ links = 0 => clientToGame = [c \in Client |-> none]

\* Messages are on connections that were made, of clients that have come.
ToGameInv ==
    /\ toGame \in [Link -> Seq(GameMsg)]
    /\ \A k \in Link : \A m \in Range(toGame[k]) :
          m.id <= opened /\ (m.type = "login" => m.id # 0) /\ k <= links

ToGateInv ==
    /\ toGate \in [Link -> Seq(GateMsg)]
    /\ \A k \in Link : k > links => toGate[k] = << >>

\* The game's own state.
GameInv ==
    /\ gateMap \in gateConnMap \cup {0} /\ gateConnMap \subseteq named /\ named \subseteq 1..links
    /\ connMap \subseteq Client \X Entity /\ client \in [Entity -> 0..opened]
    /\ logins \subseteq Client \X Entity /\ crashed \in BOOLEAN
    /\ \A p \in logins : p[1] <= opened

\* the message changes the binding of the client
About(m, c) == m.id = c /\ m.type \in {"bind", "unbind"}

Mute(q, c) == \A i \in 1..Len(q) : ~About(q[i], c)

\* The entity the gate will have for client c when it has read the messages q
\* has this client: the one of the last message about the client, or the one it
\* has now, g, if there is no such message.  The clients of entities are cl.
Agrees(c, q, g, cl) ==
    /\ \A i \in 1..Len(q) :
          (q[i].type = "bind" /\ q[i].id = c /\ \A j \in 1..Len(q) : j > i => ~About(q[j], c))
             => cl[q[i].entity] = c
    /\ (Mute(q, c) /\ g # none) => cl[g] = c

\* The first connection, as long as it lasts: no end of it is under way, a gate
\* that has said hello is known, and what the gate believes or will believe of
\* an entity is so.
FirstInv ==
    (links = 1 /\ link = 1) =>
        /\ \A m \in Range(toGame[1]) : m.type # "end"
        /\ 1 \in named => gateMap = 1
        /\ ~crashed
        /\ \A c \in Client : Agrees(c, toGate[1], clientToGame[c], client)

Inv == GateInv /\ LinkInv /\ ToGameInv /\ ToGateInv /\ GameInv /\ FirstInv

\* What a broken connection has left: messages like the others, and nothing
\* before the first one.
LeftInv ==
    /\ unsent \in Seq(GameMsg) /\ unread \in Seq(GateMsg)
    /\ \A m \in Range(unsent) : m.id <= opened /\ (m.type = "login" => m.id # 0)
    /\ links = 0 => unsent = << >> /\ unread = << >>
    /\ handlerAction \in {"none", "connected"}

(***************************************************************************)
(* Queues and their elements                                               *)
(***************************************************************************)

LEMMA RangeIsElements ==
    ASSUME NEW S, NEW s \in Seq(S)
    PROVE  /\ Range(s) \subseteq S
           /\ \A x : x \in Range(s) <=> \E i \in 1..Len(s) : s[i] = x
BY DEF Range

LEMMA RangeEmpty == Range(<< >>) = {}
BY DEF Range

LEMMA RangeAppend ==
    ASSUME NEW S, NEW s \in Seq(S), NEW x \in S
    PROVE  /\ Append(s, x) \in Seq(S) /\ Range(Append(s, x)) = Range(s) \cup {x}
           /\ (AddedOnce(s) /\ (x.type # "add" \/ x \notin Range(s))) => AddedOnce(Append(s, x))
<1> DEFINE t == Append(s, x)
<1>1. /\ t \in Seq(S) /\ Len(t) = Len(s) + 1 /\ Len(s) \in Nat
      /\ \A i \in 1..Len(s) : t[i] = s[i] /\ i \in 1..Len(t)
      /\ t[Len(s) + 1] = x /\ Len(s) + 1 \in 1..Len(t)
  OBVIOUS
<1> HIDE DEF t
<1>2. \A i \in 1..Len(t) : i \in 1..Len(s) \/ i = Len(s) + 1
  BY <1>1
<1>3. Range(t) = Range(s) \cup {x}
  BY <1>1, <1>2, RangeIsElements
<1>4. ASSUME AddedOnce(s), x.type # "add" \/ x \notin Range(s) PROVE AddedOnce(t)
  <2> SUFFICES ASSUME NEW i \in 1..Len(t), NEW j \in 1..Len(t), t[i].type = "add", t[j] = t[i]
               PROVE  i = j
    BY DEF AddedOnce
  <2>1. \A k \in 1..Len(s) : s[k] \in Range(s)
    BY RangeIsElements
  <2> QED
    BY <1>1, <1>2, <1>4, <2>1 DEF AddedOnce
<1> QED
  BY <1>1, <1>3, <1>4 DEF t

LEMMA RangeTail ==
    ASSUME NEW S, NEW s \in Seq(S), s # << >>
    PROVE  /\ Head(s) \in S /\ Head(s) \in Range(s) /\ Tail(s) \in Seq(S)
           /\ Range(Tail(s)) \subseteq Range(s)
           /\ \A x \in Range(s) : x # Head(s) => x \in Range(Tail(s))
           /\ AddedOnce(s) => /\ AddedOnce(Tail(s))
                              /\ Head(s).type = "add" => Head(s) \notin Range(Tail(s))
<1> DEFINE t == Tail(s)
           h == Head(s)
<1>1. /\ h = s[1] /\ h \in S /\ t \in Seq(S) /\ Len(t) = Len(s) - 1
      /\ Len(s) \in Nat \ {0}
      /\ \A i \in 1..Len(t) : t[i] = s[i + 1]
  BY EmptySeq, HeadTailProperties
<1> HIDE DEF t, h
<1>2. \A i \in 1..Len(t) : i + 1 \in 1..Len(s) /\ i + 1 # 1
  BY <1>1
<1>3. \A i \in 1..Len(s) : i # 1 => i - 1 \in 1..Len(t) /\ t[i - 1] = s[i]
  BY <1>1
<1>4. 1 \in 1..Len(s)
  BY <1>1
<1>5. h \in Range(s) /\ Range(t) \subseteq Range(s)
  BY <1>1, <1>2, <1>4, RangeIsElements
<1>6. \A x \in Range(s) : x # h => x \in Range(t)
  BY <1>1, <1>3, RangeIsElements
<1>7. AddedOnce(s) => AddedOnce(t)
  <2> SUFFICES ASSUME AddedOnce(s), NEW i \in 1..Len(t), NEW j \in 1..Len(t), t[i].type = "add", t[j] = t[i]
               PROVE  i = j
    BY DEF AddedOnce
  <2>1. i + 1 = j + 1
    BY <1>1, <1>2 DEF AddedOnce
  <2> QED
    BY <1>1, <2>1
<1>8. ASSUME AddedOnce(s), h.type = "add", h \in Range(t) PROVE FALSE
  <2>1. PICK i \in 1..Len(t) : t[i] = h
    BY <1>1, <1>8, RangeIsElements
  <2>2. s[i + 1] = s[1] /\ s[1].type = "add"
    BY <1>1, <1>8, <2>1
  <2> QED
    BY <1>2, <1>4, <1>8, <2>2 DEF AddedOnce
<1> QED
  BY <1>1, <1>5, <1>6, <1>7, <1>8 DEF t, h

LEMMA RangeConcat ==
    ASSUME NEW S, NEW s \in Seq(S), NEW u \in Seq(S)
    PROVE  s \o u \in Seq(S) /\ Range(s \o u) = Range(s) \cup Range(u)
<1> DEFINE t == s \o u
<1>1. /\ t \in Seq(S) /\ Len(t) = Len(s) + Len(u) /\ Len(s) \in Nat /\ Len(u) \in Nat
      /\ \A i \in 1..Len(t) : t[i] = IF i <= Len(s) THEN s[i] ELSE u[i - Len(s)]
  BY ConcatProperties
<1> HIDE DEF t
<1>2. \A i \in 1..Len(s) : i \in 1..Len(t) /\ t[i] = s[i]
  BY <1>1
<1>3. \A i \in 1..Len(u) : Len(s) + i \in 1..Len(t) /\ t[Len(s) + i] = u[i]
  BY <1>1
<1>4. \A i \in 1..Len(t) : (i \in 1..Len(s) /\ t[i] = s[i]) \/ (i - Len(s) \in 1..Len(u) /\ t[i] = u[i - Len(s)])
  BY <1>1
<1>5. Range(t) = Range(s) \cup Range(u)
  <2>1. Range(s) \subseteq Range(t)
    BY <1>1, <1>2, RangeIsElements
  <2>2. Range(u) \subseteq Range(t)
    BY <1>1, <1>3, RangeIsElements
  <2>3. Range(t) \subseteq Range(s) \cup Range(u)
    BY <1>1, <1>4, RangeIsElements
  <2> QED
    BY <2>1, <2>2, <2>3
<1> QED
  BY <1>1, <1>5 DEF t

(***************************************************************************)
(* The gate                                                                *)
(***************************************************************************)

\* Handlers that leave the gate's own state alone keep its invariant.
LEMMA GateSame ==
    ASSUME GateInv, UNCHANGED gateVars
    PROVE  GateInv'
BY DEF GateInv, gateVars, AddedOnce

LEMMA GateOpen ==
    ASSUME GateInv, OnOpened
    PROVE  GateInv'
<1> DEFINE t == [type |-> "add", id |-> opened + 1]
<1>0. opened \in Nat /\ opened' = opened + 1 /\ opened' \in 1..MaxClient /\ opened' \in Client
  BY GateAssumption DEF GateInv, OnOpened, Client
<1>1. t \in GateTask /\ t.type = "add" /\ t.id = opened + 1 /\ gateTasks' = Append(gateTasks, t)
  BY <1>0 DEF OnOpened, GateTask
<1> HIDE DEF t
<1>2. t \notin Range(gateTasks)
  BY <1>0, <1>1 DEF GateInv
<1>3. /\ gateTasks' \in Seq(GateTask) /\ Range(gateTasks') = Range(gateTasks) \cup {t}
      /\ AddedOnce(gateTasks')
  BY <1>1, <1>2, RangeAppend DEF GateInv
<1>4. \A u \in Range(gateTasks) : u \in GateTask
  BY RangeIsElements DEF GateInv
<1>5. \A u \in Range(gateTasks') : /\ u.id <= opened' /\ (u.type # "remove" => u.id # 0)
                                   /\ u.type = "add" => u.id \notin added'
  BY <1>0, <1>1, <1>3, <1>4 DEF GateInv, OnOpened, GateTask
<1>6. sock' = [sock EXCEPT ![opened'] = "open"] /\ added' = added /\ early' = early /\ clientMap' = clientMap
      /\ closing' = closing /\ tried' = tried
  BY DEF OnOpened
<1>7. opened' \notin added
  BY <1>0 DEF GateInv
<1>8. sock' \in [Client -> {"none", "open", "closed"}] /\ \A c \in Client : sock'[c] = "closed" => sock[c] = "closed"
  BY <1>0, <1>6 DEF GateInv
<1>9. clientMap \subseteq Client
  BY GateAssumption DEF GateInv, Client
<1>10. added \subseteq 1..opened'
  BY <1>0 DEF GateInv
<1>11. \A c \in Client : sock'[c] # "none" => c <= opened'
  BY <1>0, <1>6, GateAssumption DEF GateInv, Client
<1> QED
  BY <1>0, <1>3, <1>5, <1>6, <1>8, <1>9, <1>10, <1>11 DEF GateInv

LEMMA GateClosed ==
    ASSUME GateInv, NEW c \in Client, OnClosed(c)
    PROVE  GateInv'
<1> DEFINE t == [type |-> "remove", id |-> IF c \in added THEN c ELSE 0]
<1>0. opened \in Nat /\ c \in Nat /\ (c \in added => c <= opened)
  BY GateAssumption DEF GateInv, Client
<1>1. t \in GateTask /\ t.type = "remove" /\ t.id <= opened /\ gateTasks' = Append(gateTasks, t)
  BY <1>0 DEF OnClosed, GateTask
<1>2. c \in added => t = [type |-> "remove", id |-> c]
  OBVIOUS
<1> HIDE DEF t
<1>3. /\ gateTasks' \in Seq(GateTask) /\ Range(gateTasks') = Range(gateTasks) \cup {t}
      /\ AddedOnce(gateTasks')
  BY <1>1, RangeAppend DEF GateInv
<1>4. /\ sock' = [sock EXCEPT ![c] = "closed"] /\ added' = added /\ clientMap' = clientMap
      /\ closing' = closing /\ tried' = tried /\ opened' = opened
      /\ early' = IF c \in added THEN early ELSE early \cup {c}
  BY DEF OnClosed
<1>5. clientMap \subseteq Client
  BY GateAssumption DEF GateInv, Client
<1>6. \A d \in clientMap : sock'[d] = "closed" =>
         d \in early' \/ [type |-> "remove", id |-> d] \in Range(gateTasks')
  BY <1>2, <1>3, <1>4, <1>5 DEF GateInv
<1>7. \A d \in Client : (sock'[d] = "closed" /\ d \notin added') => d \in early'
  BY <1>4 DEF GateInv
<1>8. sock' \in [Client -> {"none", "open", "closed"}]
  BY <1>4 DEF GateInv
<1>9. \A u \in Range(gateTasks') : /\ u.id <= opened' /\ (u.type # "remove" => u.id # 0)
                                   /\ u.type = "add" => u.id \notin added'
  BY <1>1, <1>3, <1>4 DEF GateInv
<1>10. \A d \in Client : sock'[d] # "none" => d <= opened'
  BY <1>4 DEF GateInv, OnClosed
<1> QED
  BY <1>3, <1>4, <1>6, <1>7, <1>8, <1>9, <1>10 DEF GateInv

LEMMA GateReact ==
    ASSUME GateInv, NEW c \in Client, React(c)
    PROVE  GateInv'
<1> DEFINE t == [type |-> "login", id |-> c]
<1>0. c <= opened
  BY DEF GateInv, React
<1>1. t \in GateTask /\ t.type = "login" /\ t.id <= opened /\ t.id # 0 /\ gateTasks' = Append(gateTasks, t)
  BY <1>0 DEF React, GateTask, Client
<1> HIDE DEF t
<1>2. /\ gateTasks' \in Seq(GateTask) /\ Range(gateTasks') = Range(gateTasks) \cup {t}
      /\ AddedOnce(gateTasks')
  BY <1>1, RangeAppend DEF GateInv
<1>3. tried' \in 0..MaxLogin
  BY GateAssumption DEF GateInv, React
<1> QED
  BY <1>1, <1>2, <1>3 DEF GateInv, React

\* What is left of the tasks when the first has been handled.
LEMMA GateTaskDone ==
    ASSUME GateInv, NEW type, TaskIs(type)
    PROVE  LET h == Head(gateTasks)
           IN  /\ gateTasks' \in Seq(GateTask) /\ Range(gateTasks') \subseteq Range(gateTasks)
               /\ \A u \in Range(gateTasks) : u # h => u \in Range(gateTasks')
               /\ AddedOnce(gateTasks')
               /\ h \in GateTask /\ h \in Range(gateTasks) /\ h.type = type
               /\ type = "add" => h \notin Range(gateTasks')
BY RangeTail DEF GateInv, TaskIs

LEMMA GateAdd ==
    ASSUME GateInv, AddConn
    PROVE  GateInv'
<1> DEFINE h == Head(gateTasks)
           c == h.id
<1>1. /\ gateTasks' \in Seq(GateTask) /\ Range(gateTasks') \subseteq Range(gateTasks)
      /\ \A u \in Range(gateTasks) : u # h => u \in Range(gateTasks')
      /\ AddedOnce(gateTasks') /\ h \in GateTask /\ h \in Range(gateTasks) /\ h.type = "add"
      /\ h \notin Range(gateTasks')
  BY GateTaskDone DEF AddConn
<1>2. /\ added' = added \cup {c} /\ clientMap' = clientMap \cup {c} /\ closing' = closing
      /\ opened' = opened /\ tried' = tried /\ sock' = sock /\ early' = early
  BY DEF AddConn
<1>3. c \in 1..opened /\ c \notin added /\ c \in Client
  BY <1>1, GateAssumption DEF GateInv, GateTask, Client
<1>4. h = [type |-> "add", id |-> c]
  BY <1>1 DEF GateTask
<1>5. \A u \in Range(gateTasks') : u.type = "add" => u.id # c
  <2> SUFFICES ASSUME NEW u \in Range(gateTasks'), u.type = "add", u.id = c PROVE FALSE
    OBVIOUS
  <2>1. u \in GateTask
    BY <1>1, RangeIsElements
  <2>2. u = [type |-> "add", id |-> c]
    BY <2>1 DEF GateTask
  <2> QED
    BY <1>1, <1>4, <2>2
<1>6. \A d : [type |-> "remove", id |-> d] # h
  BY <1>4
<1> HIDE DEF h, c
<1>7. \A d \in clientMap' : sock'[d] = "closed" =>
         d \in early' \/ [type |-> "remove", id |-> d] \in Range(gateTasks')
  <2> SUFFICES ASSUME NEW d \in clientMap', sock[d] = "closed", d \notin early
               PROVE  [type |-> "remove", id |-> d] \in Range(gateTasks')
    BY <1>2
  <2>1. d # c
    BY <1>3 DEF GateInv
  <2>2. [type |-> "remove", id |-> d] \in Range(gateTasks)
    BY <1>2, <2>1 DEF GateInv
  <2> QED
    BY <1>1, <1>6, <2>2
<1> QED
  BY <1>1, <1>2, <1>3, <1>5, <1>7 DEF GateInv

LEMMA GateRemove ==
    ASSUME GateInv, RemoveConn
    PROVE  GateInv'
<1> DEFINE h == Head(gateTasks)
           c == h.id
<1>1. /\ gateTasks' \in Seq(GateTask) /\ Range(gateTasks') \subseteq Range(gateTasks)
      /\ \A u \in Range(gateTasks) : u # h => u \in Range(gateTasks')
      /\ AddedOnce(gateTasks') /\ h \in GateTask
  BY GateTaskDone DEF RemoveConn
<1>2. /\ added' = added /\ clientMap' = clientMap \ {c} /\ closing' = closing
      /\ opened' = opened /\ tried' = tried /\ sock' = sock /\ early' = early
  BY DEF RemoveConn
<1>3. \A d : d # c => [type |-> "remove", id |-> d] # h
  OBVIOUS
<1> HIDE DEF h, c
<1>4. \A d \in clientMap' : sock'[d] = "closed" =>
         d \in early' \/ [type |-> "remove", id |-> d] \in Range(gateTasks')
  BY <1>1, <1>2, <1>3 DEF GateInv
<1> QED
  BY <1>1, <1>2, <1>4 DEF GateInv

LEMMA GateLogin ==
    ASSUME GateInv, ClientSendToGame
    PROVE  GateInv'
<1> DEFINE h == Head(gateTasks)
<1>1. /\ gateTasks' \in Seq(GateTask) /\ Range(gateTasks') \subseteq Range(gateTasks)
      /\ \A u \in Range(gateTasks) : u # h => u \in Range(gateTasks')
      /\ AddedOnce(gateTasks') /\ h.type = "login"
  BY GateTaskDone DEF ClientSendToGame
<1>2. \A d : [type |-> "remove", id |-> d] # h
  BY <1>1
<1> HIDE DEF h
<1> QED
  BY <1>1, <1>2 DEF GateInv, ClientSendToGame

LEMMA GateKick ==
    ASSUME GateInv, CloseClient
    PROVE  GateInv'
BY DEF GateInv, CloseClient, AddedOnce

(***************************************************************************)
(* The messages to the game                                                *)
(***************************************************************************)

LEMMA LinkIsLink ==
    ASSUME LinkInv
    PROVE  /\ links \in Nat /\ link \in Nat /\ link <= links
           /\ link # 0 => link \in Link
           /\ \A k \in Link : k \in Nat /\ k # 0
BY GateAssumption DEF LinkInv, Link

LEMMA ToGameSame ==
    ASSUME ToGameInv, LinkInv, opened \in Nat, opened' \in Nat, opened' >= opened, links' \in Nat, links' >= links,
           UNCHANGED toGame
    PROVE  ToGameInv'
<1>1. \A k \in Link : \A m \in Range(toGame[k]) : m \in GameMsg
  BY RangeIsElements DEF ToGameInv
<1> QED
  BY <1>1, LinkIsLink DEF ToGameInv, GameMsg

LEMMA ToGameSend ==
    ASSUME ToGameInv, LinkInv, UNCHANGED <<opened, links>>,
           NEW msgs \in Seq(GameMsg), SendToGame(msgs),
           \A m \in Range(msgs) : m.id <= opened /\ (m.type = "login" => m.id # 0)
    PROVE  ToGameInv' /\ \A k \in Link : Range(toGame'[k]) \subseteq Range(toGame[k]) \cup Range(msgs)
<1>1. CASE link = 0
  BY <1>1 DEF SendToGame, ToGameInv
<1>2. CASE link # 0
  <2> DEFINE q == toGame[link] \o msgs
  <2>1. link \in Link /\ link <= links
    BY <1>2, LinkIsLink
  <2>2. q \in Seq(GameMsg) /\ Range(q) = Range(toGame[link]) \cup Range(msgs)
    BY <2>1, RangeConcat DEF ToGameInv
  <2>3. toGame' = [toGame EXCEPT ![link] = q]
    BY <1>2 DEF SendToGame
  <2> HIDE DEF q
  <2>4. toGame'[link] = q /\ \A k \in Link : k # link => toGame'[k] = toGame[k]
    BY <2>1, <2>3 DEF ToGameInv
  <2>5. toGame' \in [Link -> Seq(GameMsg)]
    BY <2>2, <2>3 DEF ToGameInv
  <2> QED
    BY <2>1, <2>2, <2>4, <2>5 DEF ToGameInv
<1> QED
  BY <1>1, <1>2

\* A message the game has read was one of those on its way.
LEMMA ToGameRead ==
    ASSUME ToGameInv, NEW k \in Link, NEW type, GateMessage(k, type), UNCHANGED <<opened, links>>
    PROVE  /\ ToGameInv' /\ Head(toGame[k]) \in GameMsg /\ Head(toGame[k]) \in Range(toGame[k])
           /\ Head(toGame[k]).type = type
           /\ \A l \in Link : Range(toGame'[l]) \subseteq Range(toGame[l])
<1> DEFINE q == Tail(toGame[k])
<1>1. /\ q \in Seq(GameMsg) /\ Range(q) \subseteq Range(toGame[k])
      /\ Head(toGame[k]) \in GameMsg /\ Head(toGame[k]) \in Range(toGame[k])
  BY RangeTail DEF ToGameInv, GateMessage
<1>2. toGame' = [toGame EXCEPT ![k] = q]
  BY DEF GateMessage
<1> HIDE DEF q
<1>3. toGame'[k] = q /\ \A l \in Link : l # k => toGame'[l] = toGame[l]
  BY <1>2 DEF ToGameInv
<1>4. \A l \in Link : Range(toGame'[l]) \subseteq Range(toGame[l])
  BY <1>1, <1>3
<1>5. toGame' \in [Link -> Seq(GameMsg)]
  BY <1>1, <1>2 DEF ToGameInv
<1>6. ToGameInv'
  BY <1>4, <1>5 DEF ToGameInv
<1> QED
  BY <1>1, <1>4, <1>6 DEF GateMessage

LEMMA ToGameBreak ==
    ASSUME ToGameInv, LinkInv, opened \in Nat, Break
    PROVE  ToGameInv'
<1> DEFINE s == toGame[link]
           end == [type |-> "end", id |-> 0]
<1>1. link \in Link /\ link <= links /\ s \in Seq(GameMsg)
  BY LinkIsLink DEF Break, ToGameInv
<1>2. end \in GameMsg /\ end.id <= opened /\ end.type # "login"
  BY DEF GameMsg
<1>3. PICK n \in 0..Len(s) : toGame' = [toGame EXCEPT ![link] = Append(SubSeq(s, 1, n), end)]
  BY DEF Break
<1> HIDE DEF s, end
<1> DEFINE u == SubSeq(s, 1, n)
<1>4. u \in Seq(GameMsg) /\ Len(u) = n /\ \A i \in 1..n : u[i] = s[i] /\ i \in 1..Len(s)
  BY <1>1, SubSeqProperties
<1> HIDE DEF u
<1>5. Range(u) \subseteq Range(s)
  BY <1>1, <1>4, RangeIsElements
<1> DEFINE q == Append(u, end)
<1>6. q \in Seq(GameMsg) /\ Range(q) = Range(u) \cup {end}
  BY <1>2, <1>4, RangeAppend
<1>7. toGame' = [toGame EXCEPT ![link] = q]
  BY <1>3 DEF u
<1> HIDE DEF q
<1>8. toGame'[link] = q /\ \A k \in Link : k # link => toGame'[k] = toGame[k]
  BY <1>1, <1>7 DEF ToGameInv
<1>9. \A m \in Range(q) : m = end \/ m \in Range(toGame[link])
  BY <1>5, <1>6 DEF s
<1>10. toGame' \in [Link -> Seq(GameMsg)]
  BY <1>6, <1>7 DEF ToGameInv
<1> QED
  BY <1>1, <1>2, <1>8, <1>9, <1>10 DEF ToGameInv, Break, gateVars

(***************************************************************************)
(* The messages to the gate                                                *)
(***************************************************************************)

LEMMA ToGateSend ==
    ASSUME ToGateInv, LinkInv, UNCHANGED links, NEW msgs \in Seq(GateMsg), SendToGate(msgs)
    PROVE  ToGateInv'
<1>1. CASE gateMap # 0 /\ gateMap = link
  <2> DEFINE q == toGate[link] \o msgs
  <2>1. link \in Link /\ link <= links
    BY <1>1, LinkIsLink
  <2>2. q \in Seq(GateMsg)
    BY <2>1, RangeConcat DEF ToGateInv
  <2>3. toGate' = [toGate EXCEPT ![link] = q]
    BY <1>1 DEF SendToGate
  <2> HIDE DEF q
  <2> QED
    BY <2>1, <2>2, <2>3, LinkIsLink DEF ToGateInv
<1>2. CASE ~(gateMap # 0 /\ gateMap = link)
  BY <1>2 DEF SendToGate, ToGateInv
<1> QED
  BY <1>1, <1>2

LEMMA ToGateRead ==
    ASSUME ToGateInv, LinkInv, UNCHANGED links, NEW type, GameMessage(type)
    PROVE  /\ ToGateInv' /\ link \in Link /\ Head(toGate[link]) \in GateMsg
           /\ Head(toGate[link]).type = type
           /\ toGate[link] # << >> /\ toGate'[link] = Tail(toGate[link])
<1> DEFINE q == Tail(toGate[link])
<1>1. link \in Link /\ link <= links
  BY LinkIsLink DEF GameMessage
<1>2. q \in Seq(GateMsg) /\ Head(toGate[link]) \in GateMsg
  BY <1>1, RangeTail DEF ToGateInv, GameMessage
<1>3. toGate' = [toGate EXCEPT ![link] = q]
  BY DEF GameMessage
<1> HIDE DEF q
<1>4. ToGateInv'
  BY <1>1, <1>2, <1>3, LinkIsLink DEF ToGateInv
<1>5. toGate'[link] = q
  BY <1>1, <1>3 DEF ToGateInv
<1> QED
  BY <1>1, <1>2, <1>4, <1>5 DEF GameMessage, q

\* What is said of the clients of entities that lose them.
LEMMA LeaveAllSays ==
    ASSUME client \in [Entity -> Nat], NEW S \in SUBSET Entity, NEW order \in Orders(S)
    PROVE  /\ LeaveAll(order) \in Seq(GateMsg)
           /\ \A i \in 1..Len(LeaveAll(order)) : LeaveAll(order)[i].type # "bind"
           /\ \A e \in S : \E i \in 1..Len(LeaveAll(order)) : LeaveAll(order)[i] = UnbindMsg(e)
<1> DEFINE n == Cardinality(S)
           m == LeaveAll(order)
<1>1. n \in Nat
  BY GateAssumption, FS_Subset, FS_CardinalityType
<1>2. order \in [1..n -> S] /\ S \subseteq Range(order)
  BY DEF Orders
<1>3. order \in Seq(S) /\ Len(order) = n
  BY <1>1, <1>2
<1> HIDE DEF n
<1>4. \A e \in Entity : UnbindMsg(e) \in GateMsg /\ KickMsg(e) \in GateMsg
                        /\ UnbindMsg(e).type = "unbind" /\ KickMsg(e).type = "kick"
  BY DEF UnbindMsg, KickMsg, GateMsg
<1>5. m = [i \in 1..(2 * n) |-> LeaveClient(order[(i + 1) \div 2])[2 - (i % 2)]]
  BY <1>3 DEF LeaveAll
<1> HIDE DEF m
<1>6. \A i \in 1..(2 * n) : (i + 1) \div 2 \in 1..n /\ 2 - (i % 2) \in {1, 2}
  BY <1>1
<1>7. \A i \in 1..(2 * n) : \E e \in S : m[i] \in {UnbindMsg(e), KickMsg(e)}
  <2> TAKE i \in 1..(2 * n)
  <2>1. PICK k \in 1..n : k = (i + 1) \div 2
    BY <1>6
  <2>2. order[k] \in S
    BY <1>2, <2>1
  <2>3. m[i] = LeaveClient(order[k])[2 - (i % 2)]
    BY <1>5, <2>1
  <2>4. LeaveClient(order[k])[1] = UnbindMsg(order[k]) /\ LeaveClient(order[k])[2] = KickMsg(order[k])
    BY DEF LeaveClient
  <2> QED
    BY <1>6, <2>2, <2>3, <2>4
<1>8. \A i \in 1..(2 * n) : m[i] \in GateMsg /\ m[i].type # "bind"
  BY <1>4, <1>7
<1>9. m \in [1..(2 * n) -> GateMsg]
  BY <1>5, <1>8
<1>10. m \in Seq(GateMsg) /\ Len(m) = 2 * n
  BY <1>1, <1>9
<1>11. ASSUME NEW e \in S PROVE \E i \in 1..(2 * n) : m[i] = UnbindMsg(e)
  <2>1. PICK k \in 1..n : order[k] = e
    BY <1>2 DEF Range
  <2>2. 2 * k - 1 \in 1..(2 * n) /\ ((2 * k - 1) + 1) \div 2 = k /\ 2 - ((2 * k - 1) % 2) = 1
    BY <1>1
  <2>3. m[2 * k - 1] = LeaveClient(order[k])[1]
    BY <1>5, <2>2
  <2> QED
    BY <2>1, <2>2, <2>3 DEF LeaveClient
<1> QED
  BY <1>8, <1>10, <1>11 DEF m

(***************************************************************************)
(* What the gate will believe                                              *)
(***************************************************************************)

\* Messages are sent, and entities change clients from cl to cl2: the last new
\* message about the client is right, or there is none and it keeps its entities.
LEMMA AgreesSend ==
    ASSUME NEW c, NEW q \in Seq(GateMsg), NEW msgs \in Seq(GateMsg), NEW g \in Entity \cup {none},
           NEW cl, NEW cl2, Agrees(c, q, g, cl),
           \A i \in 1..Len(msgs) :
              (msgs[i].type = "bind" /\ msgs[i].id = c /\ \A j \in 1..Len(msgs) : j > i => ~About(msgs[j], c))
                 => cl2[msgs[i].entity] = c,
           Mute(msgs, c) => \A e \in Entity : cl[e] = c => cl2[e] = c
    PROVE  Agrees(c, q \o msgs, g, cl2)
<1> DEFINE t == q \o msgs
           n == Len(q)
<1>1. /\ n \in Nat /\ Len(msgs) \in Nat /\ Len(t) = n + Len(msgs)
      /\ \A i \in 1..Len(t) : t[i] = IF i <= n THEN q[i] ELSE msgs[i - n]
  BY ConcatProperties
<1> HIDE DEF t, n
<1>2. \A i \in 1..n : i \in 1..Len(t) /\ t[i] = q[i] /\ i <= n
  BY <1>1
<1>3. \A i \in 1..Len(msgs) : n + i \in 1..Len(t) /\ t[n + i] = msgs[i] /\ n + i > n
  BY <1>1
<1>4. \A i \in 1..Len(t) : i \in 1..n \/ (i - n \in 1..Len(msgs) /\ i = n + (i - n))
  BY <1>1
<1>5. ASSUME NEW i \in 1..Len(t), t[i].type = "bind", t[i].id = c,
             \A j \in 1..Len(t) : j > i => ~About(t[j], c)
      PROVE  cl2[t[i].entity] = c
  <2>1. CASE i \in 1..n
    <3>1. \A j \in 1..n : j > i => ~About(q[j], c)
      BY <1>2, <1>5
    <3>2. cl[q[i].entity] = c
      BY <1>2, <1>5, <2>1, <3>1 DEF Agrees, n
    <3>3. Mute(msgs, c)
      <4> SUFFICES ASSUME NEW j \in 1..Len(msgs) PROVE ~About(msgs[j], c)
        BY DEF Mute
      <4>1. n + j > i
        BY <1>1, <2>1
      <4> QED
        BY <1>3, <1>5, <4>1
    <3>4. q[i] \in GateMsg
      BY <2>1 DEF n
    <3> QED
      BY <1>2, <2>1, <3>2, <3>3, <3>4 DEF GateMsg
  <2>2. CASE i - n \in 1..Len(msgs)
    <3> DEFINE k == i - n
    <3>1. k \in 1..Len(msgs) /\ i = n + k
      BY <1>1, <2>2
    <3> HIDE DEF k
    <3>2. \A j \in 1..Len(msgs) : j > k => n + j > i
      BY <1>1, <3>1
    <3>3. \A j \in 1..Len(msgs) : j > k => ~About(msgs[j], c)
      BY <1>3, <1>5, <3>2
    <3>4. msgs[k].type = "bind" /\ msgs[k].id = c /\ t[i] = msgs[k]
      BY <1>3, <1>5, <3>1
    <3> QED
      BY <3>1, <3>3, <3>4
  <2> QED
    BY <1>4, <2>1, <2>2
<1>6. ASSUME Mute(t, c), g # none PROVE cl2[g] = c
  <2>1. Mute(q, c)
    BY <1>2, <1>6 DEF Mute, n
  <2>2. Mute(msgs, c)
    BY <1>3, <1>6 DEF Mute
  <2>3. cl[g] = c
    BY <1>6, <2>1 DEF Agrees
  <2> QED
    BY <1>6, <2>2, <2>3
<1> QED
  BY <1>5, <1>6 DEF Agrees, t

\* Nothing is sent, and the client keeps its entities.
LEMMA AgreesKept ==
    ASSUME NEW c, NEW q \in Seq(GateMsg), NEW g \in Entity \cup {none}, NEW cl, NEW cl2,
           Agrees(c, q, g, cl), \A e \in Entity : cl[e] = c => cl2[e] = c
    PROVE  Agrees(c, q, g, cl2)
<1>0. \A i \in 1..Len(q) : q[i] \in GateMsg
  OBVIOUS
<1>1. \A i \in 1..Len(q) : q[i].entity \in Entity
  BY <1>0 DEF GateMsg
<1> QED
  BY <1>1 DEF Agrees

\* The gate reads a message.
LEMMA AgreesRead ==
    ASSUME NEW c, NEW q \in Seq(GateMsg), q # << >>, NEW g, NEW g2, NEW cl, Agrees(c, q, g, cl),
           About(Head(q), c) => g2 = IF Head(q).type = "bind" THEN Head(q).entity ELSE none,
           ~About(Head(q), c) => g2 = g
    PROVE  Agrees(c, Tail(q), g2, cl)
<1> DEFINE t == Tail(q)
           h == Head(q)
<1>1. /\ h = q[1] /\ t \in Seq(GateMsg) /\ Len(t) = Len(q) - 1 /\ Len(q) \in Nat \ {0}
      /\ \A i \in 1..Len(t) : t[i] = q[i + 1]
  BY EmptySeq, HeadTailProperties
<1> HIDE DEF t, h
<1>2. \A i \in 1..Len(t) : i + 1 \in 1..Len(q)
  BY <1>1
<1>3. \A i \in 1..Len(q) : i = 1 \/ (i - 1 \in 1..Len(t) /\ q[i] = t[i - 1])
  BY <1>1
<1>4. ASSUME NEW i \in 1..Len(t), t[i].type = "bind", t[i].id = c,
             \A j \in 1..Len(t) : j > i => ~About(t[j], c)
      PROVE  cl[t[i].entity] = c
  <2>1. \A j \in 1..Len(q) : j > i + 1 => j # 1 /\ j - 1 > i
    BY <1>1
  <2>2. \A j \in 1..Len(q) : j > i + 1 => ~About(q[j], c)
    BY <1>3, <1>4, <2>1
  <2>3. q[i + 1] = t[i] /\ i + 1 \in 1..Len(q)
    BY <1>1, <1>2
  <2>4. cl[q[i + 1].entity] = c
    BY <1>4, <2>2, <2>3 DEF Agrees
  <2> QED
    BY <2>3, <2>4
<1>5. ASSUME Mute(t, c), g2 # none PROVE cl[g2] = c
  <2>1. \A j \in 1..Len(q) : j # 1 => ~About(q[j], c)
    BY <1>3, <1>5 DEF Mute
  <2>2. CASE About(h, c)
    <3>1. q[1].type = "bind" /\ q[1].id = c /\ g2 = q[1].entity
      BY <1>1, <1>5, <2>2 DEF About, h
    <3>2. 1 \in 1..Len(q) /\ \A j \in 1..Len(q) : j > 1 => j # 1
      BY <1>1
    <3> QED
      BY <2>1, <3>1, <3>2 DEF Agrees
  <2>3. CASE ~About(h, c)
    <3>1. Mute(q, c)
      BY <1>1, <2>1, <2>3 DEF Mute
    <3> QED
      BY <1>5, <2>3, <3>1 DEF Agrees, h
  <2> QED
    BY <2>2, <2>3
<1> QED
  BY <1>4, <1>5 DEF Agrees, t

(***************************************************************************)
(* Steps                                                                   *)
(***************************************************************************)

LEMMA InitInv == Init => Inv
<1> SUFFICES ASSUME Init PROVE Inv
  OBVIOUS
<1>1. GateInv
  BY GateAssumption, RangeEmpty DEF Init, GateInv, AddedOnce
<1>2. LinkInv
  BY GateAssumption DEF Init, LinkInv
<1>3. ToGameInv /\ ToGateInv
  BY RangeEmpty DEF Init, ToGameInv, ToGateInv
<1>4. GameInv
  <2>1. 0 \in 0..0
    OBVIOUS
  <2>2. client \in [Entity -> 0..opened]
    BY <2>1 DEF Init
  <2> QED
    BY <2>2 DEF Init, GameInv
<1>5. FirstInv
  BY DEF Init, FirstInv
<1> QED
  BY <1>1, <1>2, <1>3, <1>4, <1>5 DEF Inv

LEMMA Opened ==
    ASSUME GateInv
    PROVE  opened \in Nat /\ 1..opened \subseteq Client
BY GateAssumption DEF GateInv, Client

\* Steps that leave the first connection and what is believed over it alone.
LEMMA FirstSame ==
    ASSUME FirstInv, UNCHANGED <<link, links, clientToGame, toGate, gateMap, named, crashed, client>>,
           links = 1 => \A m \in Range(toGame'[1]) : m.type = "end" => m \in Range(toGame[1])
    PROVE  FirstInv'
BY DEF FirstInv

\* Steps of the gate that leave the rest alone, or add to the messages to the
\* game.
LEMMA GateOnly ==
    ASSUME Inv, GateInv', UNCHANGED <<clientToGame, link, links, toGate, gameVars>>,
           ToGameInv', opened' >= opened,
           links = 1 => \A m \in Range(toGame'[1]) : m.type = "end" => m \in Range(toGame[1])
    PROVE  Inv'
<1>1. LinkInv' /\ ToGateInv'
  BY DEF Inv, LinkInv, ToGateInv
<1>2. opened \in Nat /\ opened' \in Nat
  BY GateAssumption DEF Inv, GateInv
<1>3. \A n \in 0..opened : n \in 0..opened'
  BY <1>2
<1>4. client' \in [Entity -> 0..opened']
  BY <1>3 DEF Inv, GameInv, gameVars
<1>5. \A p \in logins : p[1] <= opened'
  <2> TAKE p \in logins
  <2>1. p[1] \in Nat /\ p[1] <= opened
    BY DEF Inv, GameInv, Client
  <2> QED
    BY <1>2, <2>1
<1>6. GameInv'
  BY <1>4, <1>5 DEF Inv, GameInv, gameVars
<1>7. FirstInv'
  BY FirstSame DEF Inv, gameVars
<1> QED
  BY <1>1, <1>6, <1>7 DEF Inv

LEMMA OpenedStep ==
    ASSUME Inv, OnOpened
    PROVE  Inv'
<1>1. GateInv'
  BY GateOpen DEF Inv
<1>2. opened \in Nat /\ opened' = opened + 1
  BY Opened DEF Inv, OnOpened
<1>3. ToGameInv'
  BY <1>2, ToGameSame, LinkIsLink DEF Inv, OnOpened, linkVars
<1> QED
  BY <1>1, <1>2, <1>3, GateOnly DEF OnOpened, linkVars

LEMMA SocketStep ==
    ASSUME Inv, NEW c \in Client, OnClosed(c) \/ React(c)
    PROVE  Inv'
<1>1. GateInv'
  BY GateClosed, GateReact DEF Inv
<1>2. /\ opened' = opened /\ opened \in Nat /\ toGame' = toGame
      /\ UNCHANGED <<clientToGame, link, links, toGate, gameVars>>
  BY Opened DEF Inv, OnClosed, React, linkVars
<1>3. ToGameInv'
  BY <1>2 DEF Inv, ToGameInv
<1> QED
  BY <1>1, <1>2, <1>3, GateOnly

LEMMA AddConnStep ==
    ASSUME Inv, AddConn
    PROVE  Inv'
<1>1. GateInv'
  BY GateAdd DEF Inv
<1>2. /\ opened' = opened /\ opened \in Nat /\ toGame' = toGame
      /\ UNCHANGED <<clientToGame, link, links, toGate, gameVars>>
  BY Opened DEF Inv, AddConn, linkVars
<1>3. ToGameInv'
  BY <1>2 DEF Inv, ToGameInv
<1> QED
  BY <1>1, <1>2, <1>3, GateOnly

\* RemoveConn, ClientSendToGame and SayHello send at most one message.
LEMMA OneMessage ==
    ASSUME NEW m \in GameMsg, NEW P \in BOOLEAN
    PROVE  LET msgs == IF P THEN <<m>> ELSE << >>
           IN  msgs \in Seq(GameMsg) /\ \A x \in Range(msgs) : P /\ x = m
BY DEF Range

LEMMA RemoveConnStep ==
    ASSUME Inv, RemoveConn
    PROVE  Inv'
<1> DEFINE c == Head(gateTasks).id
           m == [type |-> "close", id |-> c]
           P == c # 0 /\ clientToGame[c] # none
           msgs == IF P THEN <<m>> ELSE << >>
<1>1. GateInv'
  BY GateRemove DEF Inv
<1>2. c \in Nat /\ c <= opened
  BY GateTaskDone DEF Inv, RemoveConn, GateTask, GateInv
<1>3. m \in GameMsg /\ m.id <= opened /\ m.type # "login" /\ m.type # "end"
  BY <1>2 DEF GameMsg
<1>4. SendToGame(msgs)
  BY DEF RemoveConn
<1>5. /\ opened' = opened /\ opened \in Nat
      /\ UNCHANGED <<clientToGame, link, links, toGate, gameVars>>
  BY Opened DEF Inv, RemoveConn, linkVars
<1> HIDE DEF c, m, P
<1>6. msgs \in Seq(GameMsg) /\ \A x \in Range(msgs) : x = m
  BY <1>3, OneMessage DEF P
<1> HIDE DEF msgs
<1>7. ToGameInv' /\ \A k \in Link : Range(toGame'[k]) \subseteq Range(toGame[k]) \cup Range(msgs)
  BY <1>3, <1>4, <1>5, <1>6, ToGameSend DEF Inv
<1>8. links = 1 => 1 \in Link
  BY GateAssumption DEF Inv, LinkInv, Link
<1>9. links = 1 => \A x \in Range(toGame'[1]) : x.type = "end" => x \in Range(toGame[1])
  BY <1>3, <1>6, <1>7, <1>8
<1> QED
  BY <1>1, <1>5, <1>7, <1>9, GateOnly

LEMMA LoginStep ==
    ASSUME Inv, ClientSendToGame
    PROVE  Inv'
<1> DEFINE c == Head(gateTasks).id
           m == [type |-> "login", id |-> c]
           P == c \in clientMap
           msgs == IF P THEN <<m>> ELSE << >>
<1>1. GateInv'
  BY GateLogin DEF Inv
<1>2. c \in Nat /\ c <= opened /\ c # 0
  BY GateTaskDone DEF Inv, ClientSendToGame, GateTask, GateInv
<1>3. m \in GameMsg /\ m.id <= opened /\ m.id # 0 /\ m.type # "end"
  BY <1>2 DEF GameMsg
<1>4. SendToGame(msgs)
  BY DEF ClientSendToGame
<1>5. /\ opened' = opened /\ opened \in Nat
      /\ UNCHANGED <<clientToGame, link, links, toGate, gameVars>>
  BY Opened DEF Inv, ClientSendToGame, linkVars
<1> HIDE DEF c, m, P
<1>6. msgs \in Seq(GameMsg) /\ \A x \in Range(msgs) : x = m
  BY <1>3, OneMessage DEF P
<1> HIDE DEF msgs
<1>7. ToGameInv' /\ \A k \in Link : Range(toGame'[k]) \subseteq Range(toGame[k]) \cup Range(msgs)
  BY <1>3, <1>4, <1>5, <1>6, ToGameSend DEF Inv
<1>8. links = 1 => 1 \in Link
  BY GateAssumption DEF Inv, LinkInv, Link
<1>9. links = 1 => \A x \in Range(toGame'[1]) : x.type = "end" => x \in Range(toGame[1])
  BY <1>3, <1>6, <1>7, <1>8
<1> QED
  BY <1>1, <1>5, <1>7, <1>9, GateOnly

LEMMA HelloStep ==
    ASSUME Inv, SayHello
    PROVE  Inv'
<1> DEFINE m == [type |-> "hello", id |-> 0]
           msgs == <<m>>
<1>1. GateInv'
  BY GateSame DEF Inv, SayHello
<1>2. opened \in Nat
  BY Opened DEF Inv
<1>3. m \in GameMsg /\ m.id <= opened /\ m.type # "login" /\ m.type # "end"
  BY <1>2 DEF GameMsg
<1>4. SendToGame(msgs)
  BY DEF SayHello
<1>5. opened' = opened /\ UNCHANGED <<clientToGame, link, links, toGate, gameVars>>
  BY DEF SayHello, linkVars, gateVars
<1> HIDE DEF m
<1>6. msgs \in Seq(GameMsg) /\ \A x \in Range(msgs) : x = m
  BY <1>3 DEF Range
<1> HIDE DEF msgs
<1>7. ToGameInv' /\ \A k \in Link : Range(toGame'[k]) \subseteq Range(toGame[k]) \cup Range(msgs)
  BY <1>3, <1>4, <1>5, <1>6, ToGameSend DEF Inv
<1>8. links = 1 => 1 \in Link
  BY GateAssumption DEF Inv, LinkInv, Link
<1>9. links = 1 => \A x \in Range(toGame'[1]) : x.type = "end" => x \in Range(toGame[1])
  BY <1>3, <1>6, <1>7, <1>8
<1> QED
  BY <1>1, <1>2, <1>5, <1>7, <1>9, GateOnly

LEMMA GameSame ==
    ASSUME GameInv, UNCHANGED <<gameVars, opened>>, links \in Nat, links' \in Nat, links' >= links
    PROVE  GameInv'
<1>1. \A n \in 1..links : n \in 1..links'
  OBVIOUS
<1> QED
  BY <1>1 DEF GameInv, gameVars

LEMMA BelievedEntity ==
    ASSUME Inv, links = 1
    PROVE  /\ 1 \in Link /\ toGate[1] \in Seq(GateMsg)
           /\ \A c \in Client : clientToGame[c] \in Entity \cup {none} /\ c \in Nat /\ c # 0
BY GateAssumption DEF Inv, LinkInv, ToGateInv, Link, Client

\* BindEntity, UnBindEntity and CloseClient: the gate reads a message.
LEMMA GateReadStep ==
    ASSUME Inv, NEW type, GameMessage(type), GateInv',
           UNCHANGED <<opened, link, links, toGame, gameVars>>,
           clientToGame' \in [Client -> Entity \cup {none}],
           \A c \in Client :
              /\ About(Head(toGate[link]), c) =>
                    clientToGame'[c] = IF type = "bind" THEN Head(toGate[link]).entity ELSE none
              /\ ~About(Head(toGate[link]), c) => clientToGame'[c] = clientToGame[c]
    PROVE  Inv'
<1>1. /\ ToGateInv' /\ link \in Link /\ Head(toGate[link]) \in GateMsg
      /\ Head(toGate[link]).type = type
      /\ toGate[link] # << >> /\ toGate'[link] = Tail(toGate[link])
  BY ToGateRead DEF Inv
<1>2. links # 0
  BY LinkIsLink, <1>1 DEF Inv, LinkInv
<1>3. LinkInv'
  BY <1>2 DEF Inv, LinkInv
<1>4. ToGameInv'
  BY DEF Inv, ToGameInv
<1>5. GameInv'
  BY GameSame, LinkIsLink DEF Inv
<1>6. FirstInv'
  <2> SUFFICES ASSUME links = 1, link = 1, NEW c \in Client
               PROVE  Agrees(c, toGate'[1], clientToGame'[c], client)
    BY DEF Inv, FirstInv, gameVars
  <2>1. Agrees(c, toGate[1], clientToGame[c], client)
    BY DEF Inv, FirstInv
  <2> QED
    BY <1>1, <2>1, BelievedEntity, AgreesRead
<1> QED
  BY <1>1, <1>3, <1>4, <1>5, <1>6 DEF Inv

LEMMA BindStep ==
    ASSUME Inv, BindEntity
    PROVE  Inv'
<1> DEFINE m == Head(toGate[link])
<1>1. m \in GateMsg /\ m.type = "bind"
  BY ToGateRead DEF Inv, BindEntity, linkVars
<1>2. GateInv'
  BY GateSame DEF Inv, BindEntity
<1>3. clientToGame' = [clientToGame EXCEPT ![m.id] = m.entity] /\ clientToGame \in [Client -> Entity \cup {none}]
  BY DEF Inv, LinkInv, BindEntity
<1>4. GameMessage("bind") /\ UNCHANGED <<opened, link, links, toGame, gameVars>>
  BY DEF BindEntity, linkVars, gateVars
<1>5. m.entity \in Entity
  BY <1>1 DEF GateMsg
<1> HIDE DEF m
<1>6. clientToGame' \in [Client -> Entity \cup {none}]
  BY <1>3, <1>5
<1>7. \A c \in Client : /\ About(m, c) => clientToGame'[c] = m.entity
                        /\ ~About(m, c) => clientToGame'[c] = clientToGame[c]
  BY <1>1, <1>3 DEF About
<1> QED
  BY <1>2, <1>4, <1>6, <1>7, GateReadStep DEF m

LEMMA UnBindStep ==
    ASSUME Inv, UnBindEntity
    PROVE  Inv'
<1> DEFINE m == Head(toGate[link])
<1>1. m \in GateMsg /\ m.type = "unbind"
  BY ToGateRead DEF Inv, UnBindEntity, linkVars
<1>2. GateInv'
  BY GateSame DEF Inv, UnBindEntity
<1>3. clientToGame' = [clientToGame EXCEPT ![m.id] = none] /\ clientToGame \in [Client -> Entity \cup {none}]
  BY DEF Inv, LinkInv, UnBindEntity
<1>4. GameMessage("unbind") /\ UNCHANGED <<opened, link, links, toGame, gameVars>>
  BY DEF UnBindEntity, linkVars, gateVars
<1> HIDE DEF m
<1>5. clientToGame' \in [Client -> Entity \cup {none}]
  BY <1>3
<1>6. \A c \in Client : /\ About(m, c) => clientToGame'[c] = none
                        /\ ~About(m, c) => clientToGame'[c] = clientToGame[c]
  BY <1>1, <1>3 DEF About
<1> QED
  BY <1>2, <1>4, <1>5, <1>6, GateReadStep DEF m

LEMMA KickStep ==
    ASSUME Inv, CloseClient
    PROVE  Inv'
<1> DEFINE m == Head(toGate[link])
<1>1. m \in GateMsg /\ m.type = "kick"
  BY ToGateRead DEF Inv, CloseClient, linkVars
<1>2. GateInv'
  BY GateKick DEF Inv
<1>3. GameMessage("kick") /\ UNCHANGED <<clientToGame, opened, link, links, toGame, gameVars>>
  BY DEF CloseClient, linkVars
<1>4. clientToGame' \in [Client -> Entity \cup {none}]
  BY <1>3 DEF Inv, LinkInv
<1>5. \A c \in Client : ~About(m, c)
  BY <1>1 DEF About
<1> QED
  BY <1>2, <1>3, <1>4, <1>5, GateReadStep DEF m

\* A new connection starts with what the last one has left.
LEMMA ConnectBuffers ==
    ASSUME Inv, LeftInv, Connect
    PROVE  /\ ToGameInv' /\ ToGateInv'
           /\ links = 0 => toGame'[1] = << >> /\ toGate'[1] = << >>
<1>1. links \in Nat /\ links' = links + 1 /\ link' = links' /\ links' \in Link /\ opened' = opened
  BY GateAssumption DEF Inv, LinkInv, Connect, Link, gateVars
<1>2. /\ toGame' = [toGame EXCEPT ![links'] = unsent]
      /\ toGate' = [toGate EXCEPT ![links'] = unread]
  BY <1>1 DEF Connect
<1>3. /\ toGame'[links'] = unsent /\ toGate'[links'] = unread
      /\ \A k \in Link : k # links' => toGame'[k] = toGame[k] /\ toGate'[k] = toGate[k]
  BY <1>1, <1>2 DEF Inv, ToGameInv, ToGateInv
<1>4. toGame' \in [Link -> Seq(GameMsg)] /\ toGate' \in [Link -> Seq(GateMsg)]
  BY <1>2 DEF Inv, ToGameInv, ToGateInv, LeftInv
<1>5. \A k \in Link : k \in Nat
  BY DEF Link
<1>6. ToGameInv'
  <2> SUFFICES ASSUME NEW k \in Link, NEW m \in Range(toGame'[k])
               PROVE  m.id <= opened /\ (m.type = "login" => m.id # 0) /\ k <= links'
    BY <1>1, <1>4 DEF ToGameInv
  <2>1. CASE k = links'
    BY <1>1, <1>3, <2>1 DEF LeftInv
  <2>2. CASE k # links'
    <3>1. m \in Range(toGame[k])
      BY <1>3, <2>2
    <3>2. m.id <= opened /\ (m.type = "login" => m.id # 0) /\ k <= links
      BY <3>1 DEF Inv, ToGameInv
    <3> QED
      BY <1>1, <1>5, <3>2
  <2> QED
    BY <2>1, <2>2
<1>7. \A k \in Link : k > links' => k # links' /\ k > links
  BY <1>1, <1>5
<1>8. ToGateInv'
  BY <1>3, <1>4, <1>7 DEF Inv, ToGateInv
<1>9. links = 0 => toGame'[1] = << >> /\ toGate'[1] = << >>
  BY <1>1, <1>3 DEF LeftInv
<1> QED
  BY <1>6, <1>8, <1>9

LEMMA ConnectStep ==
    ASSUME Inv, LeftInv, ~crashed, Connect
    PROVE  Inv'
<1>1. GateInv'
  BY GateSame DEF Inv, Connect
<1>2. links \in Nat /\ links' = links + 1 /\ link' = links' /\ links' \in Link
  BY GateAssumption DEF Inv, LinkInv, Connect, Link
<1>3. UNCHANGED <<gameVars, opened, clientToGame>> /\ handlerAction' = "connected"
  BY DEF Connect, gateVars
<1>4. LinkInv'
  BY <1>2, <1>3 DEF Inv, LinkInv, Link
<1>5. ToGameInv' /\ ToGateInv'
  BY ConnectBuffers
<1>6. GameInv'
  BY <1>2, <1>3, GameSame DEF Inv
<1>7. FirstInv'
  <2> SUFFICES ASSUME links = 0
               PROVE  /\ \A m \in Range(toGame'[1]) : m.type # "end"
                      /\ 1 \notin named
                      /\ \A c \in Client : Agrees(c, toGate'[1], clientToGame[c], client)
    BY <1>2, <1>3 DEF FirstInv, gameVars
  <2>1. toGame'[1] = << >> /\ toGate'[1] = << >>
    BY ConnectBuffers
  <2>2. Range(toGame'[1]) = {}
    BY <2>1, RangeEmpty
  <2>3. 1 \notin named
    BY DEF Inv, GameInv
  <2>4. clientToGame = [c \in Client |-> none]
    BY DEF Inv, LinkInv
  <2>5. \A c \in Client : Agrees(c, toGate'[1], clientToGame[c], client)
    BY <2>1, <2>4 DEF Agrees
  <2> QED
    BY <2>2, <2>3, <2>5
<1> QED
  BY <1>1, <1>4, <1>5, <1>6, <1>7 DEF Inv

LEMMA BreakStep ==
    ASSUME Inv, Break
    PROVE  Inv'
<1>1. GateInv'
  BY GateSame DEF Inv, Break
<1>2. opened \in Nat /\ link \in Link /\ links \in Nat
  BY Opened, LinkIsLink DEF Inv, Break
<1>3. link' = 0 /\ handlerAction' = "none" /\ UNCHANGED <<gameVars, opened, links, clientToGame>>
  BY DEF Break, gateVars
<1>4. LinkInv'
  BY <1>3 DEF Inv, LinkInv
<1>5. ToGameInv'
  BY <1>2, ToGameBreak DEF Inv
<1>6. ToGateInv'
  <2>1. toGate' = [toGate EXCEPT ![link] = << >>]
    BY DEF Break
  <2>2. << >> \in Seq(GateMsg)
    OBVIOUS
  <2> QED
    BY <1>3, <2>1, <2>2 DEF Inv, ToGateInv
<1>7. GameInv'
  BY <1>2, <1>3, GameSame DEF Inv
<1>8. FirstInv'
  BY <1>3 DEF FirstInv
<1> QED
  BY <1>1, <1>4, <1>5, <1>6, <1>7, <1>8 DEF Inv

LEMMA ClientType ==
    ASSUME Inv
    PROVE  client \in [Entity -> Nat]
BY Opened DEF Inv, GameInv

\* Every step of the game leaves the gate and the connection alone.
LEMMA GameOnly ==
    ASSUME Inv, UNCHANGED <<gateVars, clientToGame, linkVars>>
    PROVE  GateInv' /\ LinkInv' /\ opened' = opened /\ links' = links /\ link' = link
BY GateSame DEF Inv, LinkInv, gateVars, linkVars

\* Entities lose their clients: the messages are well formed, and the entities
\* have clients that have come.
LEMMA LoseTypes ==
    ASSUME Inv, NEW S \in SUBSET Entity, LoseClients(S), links' = links
    PROVE  /\ ToGateInv' /\ client' \in [Entity -> 0..opened] /\ crashed' \in BOOLEAN
           /\ gateMap # 0 => crashed' = FALSE
<1> DEFINE bound == {e \in S : client[e] # 0}
<1>1. PICK order \in Orders(bound) : SendToGate(LeaveAll(order))
  BY DEF LoseClients
<1>2. LeaveAll(order) \in Seq(GateMsg)
  BY ClientType, LeaveAllSays
<1>3. ToGateInv'
  BY <1>1, <1>2, ToGateSend DEF Inv
<1>4. 0 \in 0..opened
  BY Opened DEF Inv
<1>5. client' \in [Entity -> 0..opened]
  BY <1>4 DEF Inv, GameInv, LoseClients
<1>6. crashed' = (bound # {} /\ gateMap = 0)
  BY DEF LoseClients
<1> QED
  BY <1>3, <1>5, <1>6

\* They lose them over the first connection: the gate is told of each.
LEMMA LoseAgrees ==
    ASSUME Inv, NEW S \in SUBSET Entity, LoseClients(S), links' = links, links = 1, link = 1, gateMap = 1, NEW c \in Client
    PROVE  Agrees(c, toGate'[1], clientToGame[c], client')
<1> DEFINE bound == {e \in S : client[e] # 0}
<1>1. PICK order \in Orders(bound) : SendToGate(LeaveAll(order))
  BY DEF LoseClients
<1> DEFINE msgs == LeaveAll(order)
<1>2. /\ msgs \in Seq(GateMsg) /\ \A i \in 1..Len(msgs) : msgs[i].type # "bind"
      /\ \A e \in bound : \E i \in 1..Len(msgs) : msgs[i] = UnbindMsg(e)
  BY ClientType, LeaveAllSays
<1>3. toGate' = [toGate EXCEPT ![1] = toGate[1] \o msgs]
  BY <1>1 DEF SendToGate
<1> HIDE DEF msgs
<1>4. /\ 1 \in Link /\ toGate[1] \in Seq(GateMsg) /\ clientToGame[c] \in Entity \cup {none}
      /\ c # 0 /\ toGate'[1] = toGate[1] \o msgs
  BY <1>3, BelievedEntity DEF Inv, ToGateInv
<1>5. Agrees(c, toGate[1], clientToGame[c], client)
  BY DEF Inv, FirstInv
<1>6. crashed' = FALSE
  <2>1. gateMap # 0
    OBVIOUS
  <2> QED
    BY <2>1, LoseTypes, Zenon
<1>7. client' = [e \in Entity |-> IF e \in S THEN 0 ELSE client[e]]
  BY <1>6 DEF LoseClients
<1>8. Mute(msgs, c) => \A e \in Entity : client[e] = c => client'[e] = c
  <2> SUFFICES ASSUME Mute(msgs, c), NEW e \in Entity, client[e] = c PROVE client'[e] = c
    OBVIOUS
  <2>0. About(UnbindMsg(e), c)
    BY DEF About, UnbindMsg
  <2>1. e \notin bound
    BY <1>2, <2>0 DEF Mute
  <2>2. e \notin S
    BY <1>4, <2>1
  <2> QED
    BY <1>7, <2>2
<1> QED
  BY <1>2, <1>4, <1>5, <1>8, AgreesSend

LEMMA AddGateStep ==
    ASSUME Inv, NEW k \in Link, AddGate(k)
    PROVE  Inv'
<1>1. GateInv' /\ LinkInv' /\ opened' = opened /\ links' = links /\ link' = link
  BY GameOnly DEF AddGate
<1>2. /\ ToGameInv' /\ Head(toGame[k]) \in Range(toGame[k])
      /\ \A l \in Link : Range(toGame'[l]) \subseteq Range(toGame[l])
  BY <1>1, ToGameRead DEF Inv, AddGate
<1>3. k \in 1..links
  BY <1>2, LinkIsLink DEF Inv, ToGameInv
<1>4. UNCHANGED <<toGate, connMap, client, logins, crashed, clientToGame>>
      /\ gateMap' = k /\ gateConnMap' = gateConnMap \cup {k} /\ named' = named \cup {k}
  BY DEF AddGate
<1>5. ToGateInv'
  BY <1>1, <1>4 DEF Inv, ToGateInv
<1>6. GameInv'
  BY <1>1, <1>3, <1>4 DEF Inv, GameInv
<1>7. links = 1 => 1 \in Link /\ k = 1
  BY <1>3, BelievedEntity
<1>8. FirstInv'
  BY <1>1, <1>2, <1>4, <1>7 DEF Inv, FirstInv
<1> QED
  BY <1>1, <1>2, <1>5, <1>6, <1>8 DEF Inv

LEMMA RemoveGateStep ==
    ASSUME Inv, NEW k \in Link, RemoveGate(k)
    PROVE  Inv'
<1>1. GateInv' /\ LinkInv' /\ opened' = opened /\ links' = links /\ link' = link
  BY GameOnly DEF RemoveGate
<1>2. /\ ToGameInv' /\ Head(toGame[k]) \in Range(toGame[k]) /\ Head(toGame[k]).type = "end"
  BY <1>1, ToGameRead DEF Inv, RemoveGate
<1>3. k \in 1..links
  BY <1>2, LinkIsLink DEF Inv, ToGameInv
<1>4. FirstInv'
  BY <1>1, <1>2, <1>3 DEF Inv, FirstInv
<1>5. CASE k \in gateConnMap
  <2> DEFINE S == {e \in Entity : \E c \in Client : <<c, e>> \in connMap}
  <2>1. /\ LoseClients(S) /\ connMap' = {} /\ gateConnMap' = gateConnMap \ {k} /\ gateMap' = 0
        /\ named' = named /\ logins' = logins
    BY <1>5 DEF RemoveGate
  <2>2. S \in SUBSET Entity
    OBVIOUS
  <2> HIDE DEF S
  <2>3. ToGateInv' /\ client' \in [Entity -> 0..opened] /\ crashed' \in BOOLEAN
    BY <1>1, <2>1, <2>2, LoseTypes
  <2>4. GameInv'
    BY <1>1, <2>1, <2>3 DEF Inv, GameInv
  <2> QED
    BY <1>1, <1>2, <1>4, <2>3, <2>4 DEF Inv
<1>6. CASE k \notin gateConnMap
  <2>1. UNCHANGED <<crashed, toGate, client, connMap, gateConnMap, gateMap, named, logins>>
    BY <1>6 DEF RemoveGate
  <2>2. ToGateInv' /\ GameInv'
    BY <1>1, <2>1 DEF Inv, ToGateInv, GameInv
  <2> QED
    BY <1>1, <1>2, <1>4, <2>2 DEF Inv
<1> QED
  BY <1>5, <1>6

LEMMA ClientClosedStep ==
    ASSUME Inv, NEW k \in Link, ClientClosed(k)
    PROVE  Inv'
<1>1. /\ GateInv' /\ LinkInv' /\ opened' = opened /\ links' = links /\ link' = link
      /\ clientToGame' = clientToGame
  BY GameOnly DEF ClientClosed
<1>2. /\ ToGameInv' /\ Head(toGame[k]) \in Range(toGame[k])
      /\ \A l \in Link : Range(toGame'[l]) \subseteq Range(toGame[l])
  BY <1>1, ToGameRead DEF Inv, ClientClosed
<1>3. k \in 1..links
  BY <1>2, LinkIsLink DEF Inv, ToGameInv
<1>4. UNCHANGED <<gateMap, gateConnMap, named, logins>>
  BY DEF ClientClosed
<1>5. links = 1 => 1 \in Link /\ k = 1
  BY <1>3, BelievedEntity
<1>6. CASE k \in named
  <2> DEFINE c == Head(toGame[k]).id
             S == {e \in Entity : <<c, e>> \in connMap /\ client[e] = c}
  <2>1. LoseClients(S) /\ connMap' = {p \in connMap : p[1] # c}
    BY <1>6 DEF ClientClosed
  <2>2. S \in SUBSET Entity
    OBVIOUS
  <2> HIDE DEF S, c
  <2>3. /\ ToGateInv' /\ client' \in [Entity -> 0..opened] /\ crashed' \in BOOLEAN
        /\ gateMap # 0 => crashed' = FALSE
    BY <1>1, <2>1, <2>2, LoseTypes
  <2>4. GameInv'
    BY <1>1, <1>4, <2>1, <2>3 DEF Inv, GameInv
  <2>5. ASSUME links = 1, link = 1
        PROVE  gateMap = 1 /\ ~crashed' /\ \A d \in Client : Agrees(d, toGate'[1], clientToGame'[d], client')
    <3>1. gateMap = 1
      BY <1>5, <1>6, <2>5 DEF Inv, FirstInv
    <3>2. \A d \in Client : Agrees(d, toGate'[1], clientToGame'[d], client')
      BY <1>1, <2>1, <2>2, <2>5, <3>1, LoseAgrees
    <3> QED
      BY <2>3, <3>1, <3>2
  <2>6. FirstInv'
    BY <1>1, <1>2, <1>4, <1>5, <2>5 DEF Inv, FirstInv
  <2> QED
    BY <1>1, <1>2, <2>3, <2>4, <2>6 DEF Inv
<1>7. CASE k \notin named
  <2>1. UNCHANGED <<crashed, toGate, client, connMap>>
    BY <1>7 DEF ClientClosed
  <2>2. ToGateInv' /\ GameInv'
    BY <1>1, <1>4, <2>1 DEF Inv, ToGateInv, GameInv
  <2>3. FirstInv'
    BY <1>1, <1>2, <1>4, <1>5, <2>1, FirstSame DEF Inv
  <2> QED
    BY <1>1, <1>2, <2>2, <2>3 DEF Inv
<1> QED
  BY <1>6, <1>7

LEMMA EntityLoginStep ==
    ASSUME Inv, NEW k \in Link, ProcessEntityLogin(k)
    PROVE  Inv'
<1>1. /\ GateInv' /\ LinkInv' /\ opened' = opened /\ links' = links /\ link' = link
      /\ clientToGame' = clientToGame
  BY GameOnly DEF ProcessEntityLogin
<1>2. /\ ToGameInv' /\ Head(toGame[k]) \in Range(toGame[k]) /\ Head(toGame[k]).type = "login"
      /\ Head(toGame[k]) \in GameMsg
      /\ \A l \in Link : Range(toGame'[l]) \subseteq Range(toGame[l])
  BY <1>1, ToGameRead DEF Inv, ProcessEntityLogin
<1> DEFINE c == Head(toGame[k]).id
<1>3. c \in 1..opened
  BY <1>2, Opened DEF Inv, ToGameInv, GameMsg
<1>4. PICK e \in Entity : logins' = logins \cup {<<c, e>>}
  BY DEF ProcessEntityLogin
<1>5. UNCHANGED <<toGate, gateMap, gateConnMap, named, connMap, client, crashed>>
  BY DEF ProcessEntityLogin
<1> HIDE DEF c
<1>6. c \in Client /\ c <= opened
  BY <1>3, Opened DEF Inv
<1>7. ToGateInv' /\ GameInv'
  BY <1>1, <1>4, <1>5, <1>6 DEF Inv, ToGateInv, GameInv
<1>8. links = 1 => 1 \in Link
  BY BelievedEntity
<1>9. FirstInv'
  BY <1>1, <1>2, <1>5, <1>8, FirstSame DEF Inv
<1> QED
  BY <1>1, <1>2, <1>7, <1>9 DEF Inv

LEMMA LoginFailsStep ==
    ASSUME Inv, NEW c \in Client, NEW e \in Entity, LoginFails(c, e)
    PROVE  Inv'
<1>1. /\ GateInv' /\ LinkInv' /\ opened' = opened /\ links' = links /\ link' = link
      /\ clientToGame' = clientToGame
  BY GameOnly DEF LoginFails
<1>2. /\ UNCHANGED <<toGame, toGate, gateMap, gateConnMap, named, client, crashed>>
      /\ logins' = logins \ {<<c, e>>} /\ connMap' \subseteq connMap \cup {<<c, e>>}
  BY DEF LoginFails
<1>3. ToGameInv' /\ ToGateInv' /\ GameInv'
  BY <1>1, <1>2 DEF Inv, ToGameInv, ToGateInv, GameInv
<1>4. FirstInv'
  BY <1>1, <1>2, FirstSame DEF Inv
<1> QED
  BY <1>1, <1>3, <1>4 DEF Inv

LEMMA HeartbeatStep ==
    ASSUME Inv, NEW e \in Entity, CheckHeartbeatCb(e)
    PROVE  Inv'
<1>1. /\ GateInv' /\ LinkInv' /\ opened' = opened /\ links' = links /\ link' = link
      /\ clientToGame' = clientToGame
  BY GameOnly DEF CheckHeartbeatCb
<1>2. /\ UNCHANGED <<toGame, gateMap, gateConnMap, named, connMap, logins>>
      /\ LoseClients({e}) /\ ~HelloUnderWay
  BY DEF CheckHeartbeatCb
<1>3. {e} \in SUBSET Entity
  OBVIOUS
<1>4. /\ ToGateInv' /\ client' \in [Entity -> 0..opened] /\ crashed' \in BOOLEAN
      /\ gateMap # 0 => crashed' = FALSE
  BY <1>1, <1>2, <1>3, LoseTypes
<1>5. ToGameInv' /\ GameInv'
  BY <1>1, <1>2, <1>4 DEF Inv, ToGameInv, GameInv
<1>6. ASSUME links = 1, link = 1
      PROVE  gateMap = 1 /\ ~crashed' /\ \A d \in Client : Agrees(d, toGate'[1], clientToGame'[d], client')
  <2>1. gateMap = 1
    BY <1>2, <1>6, BelievedEntity DEF Inv, FirstInv, HelloUnderWay
  <2>2. \A d \in Client : Agrees(d, toGate'[1], clientToGame'[d], client')
    BY <1>1, <1>2, <1>3, <1>6, <2>1, LoseAgrees
  <2> QED
    BY <1>4, <2>1, <2>2
<1>7. FirstInv'
  BY <1>1, <1>2, <1>6 DEF Inv, FirstInv
<1> QED
  BY <1>1, <1>4, <1>5, <1>7 DEF Inv

\* The messages of setClient when an entity gets another client.
LEMMA ChangeSays ==
    ASSUME Inv, NEW c \in Client, NEW e \in Entity
    PROVE  LET msgs == (IF client[e] = 0 THEN << >> ELSE LeaveClient(e)) \o <<BindMsg(c, e)>>
           IN  /\ msgs \in Seq(GateMsg)
               /\ \A i \in 1..Len(msgs) : msgs[i].type = "bind" => msgs[i] = BindMsg(c, e)
               /\ \E i \in 1..Len(msgs) : msgs[i] = BindMsg(c, e)
               /\ client[e] # 0 => \E i \in 1..Len(msgs) : msgs[i] = UnbindMsg(e)
<1>1. /\ UnbindMsg(e) \in GateMsg /\ KickMsg(e) \in GateMsg /\ BindMsg(c, e) \in GateMsg
      /\ UnbindMsg(e).type = "unbind" /\ KickMsg(e).type = "kick"
  BY ClientType DEF UnbindMsg, KickMsg, BindMsg, GateMsg, Client
<1> DEFINE u == UnbindMsg(e)
           k == KickMsg(e)
           b == BindMsg(c, e)
<1>2. LeaveClient(e) = <<u, k>>
  BY DEF LeaveClient
<1> HIDE DEF u, k, b
<1>3. CASE client[e] = 0
  <2> DEFINE m == << >> \o <<b>>
  <2>1. m = <<b>>
    BY <1>1 DEF b
  <2>2. m \in Seq(GateMsg) /\ Len(m) = 1 /\ m[1] = b /\ 1..Len(m) = {1}
    BY <1>1, <2>1 DEF b
  <2> HIDE DEF m
  <2> QED
    BY <1>3, <2>2 DEF m, b
<1>4. CASE client[e] # 0
  <2> DEFINE m == <<u, k>> \o <<b>>
  <2>1. <<u, k>> \in Seq(GateMsg) /\ <<b>> \in Seq(GateMsg)
    BY <1>1 DEF u, k, b
  <2>2. /\ m \in Seq(GateMsg) /\ Len(m) = 3 /\ m[1] = u /\ m[2] = k /\ m[3] = b
        /\ 1..Len(m) = {1, 2, 3}
    BY <2>1
  <2> HIDE DEF m
  <2>3. \A i \in 1..Len(m) : m[i].type = "bind" => m[i] = b
    BY <1>1, <2>2 DEF u, k
  <2> QED
    BY <1>2, <1>4, <2>2, <2>3 DEF m, u, b
<1> QED
  BY <1>3, <1>4

LEMMA SetConnInfoStep ==
    ASSUME Inv, NEW c \in Client, NEW e \in Entity, SetConnInfo(c, e)
    PROVE  Inv'
<1>1. /\ GateInv' /\ LinkInv' /\ opened' = opened /\ links' = links /\ link' = link
      /\ clientToGame' = clientToGame
  BY GameOnly DEF SetConnInfo
<1>2. /\ UNCHANGED <<toGame, gateMap, gateConnMap, named, crashed>>
      /\ logins' = logins \ {<<c, e>>} /\ connMap' = connMap \cup {<<c, e>>} /\ <<c, e>> \in logins
  BY DEF SetConnInfo
<1>3. ToGameInv'
  BY <1>1, <1>2 DEF Inv, ToGameInv
<1>4. c \in 0..opened
  <2>1. <<c, e>>[1] <= opened
    BY <1>2 DEF Inv, GameInv
  <2> QED
    BY <2>1 DEF Client
<1>5. CASE UNCHANGED <<client, toGate>>
  <2>1. ToGateInv' /\ GameInv'
    BY <1>1, <1>2, <1>5 DEF Inv, ToGateInv, GameInv
  <2>2. FirstInv'
    BY <1>1, <1>2, <1>5, FirstSame DEF Inv
  <2> QED
    BY <1>1, <1>3, <2>1, <2>2 DEF Inv
<1>6. CASE ~UNCHANGED <<client, toGate>>
  <2> DEFINE msgs == (IF client[e] = 0 THEN << >> ELSE LeaveClient(e)) \o <<BindMsg(c, e)>>
  <2>1. /\ client[e] # c /\ (client[e] = 0 \/ gateMap # 0)
        /\ client' = [client EXCEPT ![e] = c] /\ SendToGate(msgs)
    BY <1>6 DEF SetConnInfo
  <2>2. /\ msgs \in Seq(GateMsg)
        /\ \A i \in 1..Len(msgs) : msgs[i].type = "bind" => msgs[i] = BindMsg(c, e)
        /\ \E i \in 1..Len(msgs) : msgs[i] = BindMsg(c, e)
        /\ client[e] # 0 => \E i \in 1..Len(msgs) : msgs[i] = UnbindMsg(e)
    BY ChangeSays
  <2> HIDE DEF msgs
  <2>3. ToGateInv'
    BY <1>1, <2>1, <2>2, ToGateSend DEF Inv
  <2>4. client' \in [Entity -> 0..opened]
    BY <1>4, <2>1 DEF Inv, GameInv
  <2>5. GameInv'
    BY <1>1, <1>2, <2>4 DEF Inv, GameInv
  <2>6. ASSUME links = 1, link = 1, NEW d \in Client
        PROVE  Agrees(d, toGate'[1], clientToGame'[d], client')
    <3>1. /\ 1 \in Link /\ toGate[1] \in Seq(GateMsg) /\ clientToGame[d] \in Entity \cup {none} /\ d # 0
      BY <2>6, BelievedEntity
    <3>2. Agrees(d, toGate[1], clientToGame[d], client)
      BY <2>6 DEF Inv, FirstInv
    <3>3. client'[e] = c /\ \A x \in Entity : x # e => client'[x] = client[x]
      BY <2>1 DEF Inv, GameInv
    <3>4. gateMap \in {0, 1}
      BY <2>6 DEF Inv, GameInv
    <3>5. CASE gateMap = 0
      <4>1. client[e] = 0 /\ toGate' = toGate
        BY <2>1, <3>5 DEF SendToGate
      <4>2. \A x \in Entity : client[x] = d => client'[x] = d
        BY <3>1, <3>3, <4>1
      <4> QED
        BY <1>1, <3>1, <3>2, <4>1, <4>2, AgreesKept
    <3>6. CASE gateMap = 1
      <4>1. toGate' = [toGate EXCEPT ![1] = toGate[1] \o msgs]
        BY <2>1, <2>6, <3>6 DEF SendToGate
      <4>2. toGate'[1] = toGate[1] \o msgs
        BY <3>1, <4>1 DEF Inv, ToGateInv
      <4>3. \A i \in 1..Len(msgs) : (msgs[i].type = "bind" /\ msgs[i].id = d) => client'[msgs[i].entity] = d
        BY <2>2, <3>3 DEF BindMsg
      <4>4. ASSUME Mute(msgs, d), NEW x \in Entity, client[x] = d PROVE client'[x] = d
        <5>1. About(UnbindMsg(e), client[e]) /\ About(BindMsg(c, e), c)
          BY DEF About, UnbindMsg, BindMsg
        <5>2. client[e] # d
          BY <2>2, <3>1, <4>4, <5>1 DEF Mute
        <5> QED
          BY <3>3, <4>4, <5>2
      <4> QED
        BY <1>1, <2>2, <3>1, <3>2, <4>2, <4>3, <4>4, AgreesSend
    <3> QED
      BY <3>4, <3>5, <3>6
  <2>7. FirstInv'
    BY <1>1, <1>2, <2>6 DEF Inv, FirstInv
  <2> QED
    BY <1>1, <1>3, <2>3, <2>5, <2>7 DEF Inv
<1> QED
  BY <1>5, <1>6

LEMMA NextInv ==
    ASSUME Inv, LeftInv, [Next]_vars
    PROVE  Inv'
<1>1. CASE UNCHANGED vars
  <2>1. UNCHANGED <<gateVars, clientToGame, linkVars, toGame, toGate, gameVars>>
    BY <1>1 DEF vars
  <2>2. GateInv' /\ LinkInv' /\ opened' = opened /\ links' = links
    BY <2>1, GameOnly
  <2>3. ToGameInv' /\ ToGateInv' /\ GameInv'
    BY <2>1, <2>2 DEF Inv, ToGameInv, ToGateInv, GameInv, gameVars
  <2>4. FirstInv'
    BY <2>1, FirstSame DEF Inv, gameVars, linkVars
  <2> QED
    BY <2>2, <2>3, <2>4 DEF Inv
<1>2. CASE ~crashed /\ GateNext
  BY <1>2, OpenedStep, SocketStep, AddConnStep, RemoveConnStep, LoginStep, BindStep, UnBindStep,
     KickStep, ConnectStep, HelloStep, BreakStep DEF GateNext
<1>3. CASE ~crashed /\ GameNext
  BY <1>3, AddGateStep, RemoveGateStep, ClientClosedStep, EntityLoginStep, SetConnInfoStep,
     LoginFailsStep, HeartbeatStep DEF GameNext, GameReceives
<1> QED
  BY <1>1, <1>2, <1>3 DEF Next

\* Only a break leaves something.
LEMMA LeftSame ==
    ASSUME LeftInv, Inv, Inv', UNCHANGED <<unsent, unread>>, opened' >= opened, links' >= links,
           handlerAction' \in {"none", "connected"}
    PROVE  LeftInv'
<1>1. opened \in Nat /\ opened' \in Nat /\ links \in Nat /\ links' \in Nat
  BY Opened, GateAssumption DEF Inv, GateInv, LinkInv
<1>2. \A m \in Range(unsent) : m \in GameMsg
  BY RangeIsElements DEF LeftInv
<1>3. \A m \in Range(unsent) : m.id <= opened'
  BY <1>1, <1>2 DEF LeftInv, GameMsg
<1> QED
  BY <1>1, <1>3 DEF LeftInv

LEMMA BreakLeft ==
    ASSUME Inv, Break
    PROVE  LeftInv'
<1>1. /\ link \in Link /\ links # 0 /\ links' = links /\ opened' = opened
      /\ handlerAction' = "none"
  BY LinkIsLink DEF Inv, Break, LinkInv, gateVars
<1>2. toGame[link] \in Seq(GameMsg) /\ toGate[link] \in Seq(GateMsg)
  BY <1>1 DEF Inv, ToGameInv, ToGateInv
<1> DEFINE s == toGame[link]
<1>3. PICK n \in 0..Len(s) : \E m \in n..Len(s) : unsent' = SubSeq(s, m + 1, Len(s))
  BY DEF Break
<1>4. PICK m \in n..Len(s) : unsent' = SubSeq(s, m + 1, Len(s))
  BY <1>3
<1>5. PICK j \in 0..Len(toGate[link]) : unread' = SubSeq(toGate[link], 1, j)
  BY DEF Break
<1> HIDE DEF s
<1>6. unread' \in Seq(GateMsg)
  BY <1>2, <1>5, SubSeqProperties
<1>7. s \in Seq(GameMsg) /\ Len(s) \in Nat
  BY <1>2 DEF s
<1>8. m \in Nat /\ m <= Len(s)
  BY <1>7
<1> DEFINE u == SubSeq(s, m + 1, Len(s))
<1>9. /\ u \in Seq(GameMsg) /\ Len(u) = Len(s) - m
      /\ \A i \in 1..Len(u) : u[i] = s[m + i] /\ m + i \in 1..Len(s)
  BY <1>7, <1>8
<1> HIDE DEF u
<1>10. Range(u) \subseteq Range(s)
  BY <1>7, <1>9, RangeIsElements
<1>11. \A x \in Range(u) : x.id <= opened /\ (x.type = "login" => x.id # 0)
  BY <1>1, <1>10 DEF s, Inv, ToGameInv
<1>12. unsent' = u
  BY <1>4 DEF u
<1> QED
  BY <1>1, <1>6, <1>9, <1>11, <1>12 DEF LeftInv

LEMMA LeftStep ==
    ASSUME Inv, Inv', LeftInv, [Next]_vars
    PROVE  LeftInv'
<1>1. opened \in Nat /\ links \in Nat /\ opened >= opened /\ links >= links
  BY Opened, LinkIsLink DEF Inv
<1>2. CASE Break
  BY <1>2, BreakLeft
<1>3. CASE Connect
  <2>1. unsent' = << >> /\ unread' = << >> /\ Range(unsent') = {} /\ handlerAction' = "connected"
    BY <1>3, RangeEmpty DEF Connect
  <2>2. << >> \in Seq(GameMsg) /\ << >> \in Seq(GateMsg)
    OBVIOUS
  <2> QED
    BY <2>1, <2>2 DEF LeftInv
<1>4. CASE OnOpened
  BY <1>1, <1>4, LeftSame DEF OnOpened, linkVars, LeftInv
<1> DEFINE Kept == UNCHANGED <<opened, links, unsent, unread>> /\ handlerAction' \in {handlerAction, "none"}
<1>5. CASE Kept
  BY <1>1, <1>5, LeftSame DEF LeftInv
<1>6. UNCHANGED vars => Kept
  BY DEF vars, gateVars, linkVars
<1>7. GateNext => Break \/ Connect \/ OnOpened \/ Kept
  BY DEF GateNext, OnClosed, React, AddConn, RemoveConn, ClientSendToGame, BindEntity, UnBindEntity,
         CloseClient, SayHello, gateVars, linkVars
<1>8. GameNext => Kept
  BY DEF GameNext, GameReceives, AddGate, RemoveGate, ClientClosed, ProcessEntityLogin, SetConnInfo,
         LoginFails, CheckHeartbeatCb, gateVars, linkVars
<1> QED
  BY <1>2, <1>3, <1>4, <1>5, <1>6, <1>7, <1>8 DEF Next

LEMMA Invariance == FairSpec => [](Inv /\ LeftInv)
<1>1. Init => Inv /\ LeftInv
  BY InitInv, RangeEmpty DEF Init, LeftInv
<1>2. Inv /\ LeftInv /\ [Next]_vars => (Inv /\ LeftInv)'
  BY NextInv, LeftStep
<1> QED
  BY <1>1, <1>2, PTL DEF FairSpec

(***************************************************************************)
(* The theorems                                                            *)
(***************************************************************************)

\* Every variable of the gate, the connections and the game keeps its type; in
\* particular the name of the gate always is that of a connection the game
\* knows, and every id was given to a client.
THEOREM TypeCorrect == FairSpec => []TypeOK
<1>1. Inv /\ LeftInv => TypeOK
  <2> SUFFICES ASSUME Inv, LeftInv PROVE TypeOK
    OBVIOUS
  <2>1. \A i \in DOMAIN gateTasks :
           gateTasks[i].type \in {"add", "remove", "login"} /\ gateTasks[i].id \in 0..opened
    <3>1. gateTasks \in Seq(GateTask) /\ opened \in Nat
      BY Opened DEF Inv, GateInv
    <3>2. \A i \in DOMAIN gateTasks : gateTasks[i] \in GateTask /\ gateTasks[i] \in Range(gateTasks)
      BY <3>1 DEF Range
    <3> QED
      BY <3>1, <3>2 DEF Inv, GateInv, GateTask
  <2> QED
    BY <2>1 DEF Inv, GateInv, LinkInv, GameInv, LeftInv, TypeOK
<1> QED
  BY <1>1, Invariance, PTL

\* A client that stays in clientMap after its socket was closed is one that
\* closed before its AddClientTask ran: OnClosed read the id 0.
THEOREM Forgotten == FairSpec => []ForgottenOnlyIfEarly
<1>1. Inv => ForgottenOnlyIfEarly
  <2> SUFFICES ASSUME Inv, NEW c \in clientMap, sock[c] = "closed", c \notin early
               PROVE  \E i \in DOMAIN gateTasks : gateTasks[i] = [type |-> "remove", id |-> c]
    BY DEF ForgottenOnlyIfEarly
  <2>1. [type |-> "remove", id |-> c] \in Range(gateTasks)
    BY DEF Inv, GateInv
  <2> QED
    BY <2>1 DEF Range
<1> QED
  BY <1>1, Invariance, PTL

\* When the gate has read all that the game told it over a connection that never
\* broke, it sends a client's messages only to an entity that has this client.
\* The other direction does not hold: a late unbind may have taken from the gate
\* a client that the game still gives to an entity.
THEOREM BoundClientsAreKnown == FairSpec => []BindingsAreKnown
<1>1. Inv => BindingsAreKnown
  <2> SUFFICES ASSUME Inv, links = 1, link = 1, toGate[1] = << >>, NEW c \in Client, clientToGame[c] # none
               PROVE  client[clientToGame[c]] = c
    BY DEF BindingsAreKnown
  <2>1. Agrees(c, toGate[1], clientToGame[c], client)
    BY DEF Inv, FirstInv
  <2>2. Mute(toGate[1], c)
    BY DEF Mute
  <2> QED
    BY <2>1, <2>2 DEF Agrees
<1> QED
  BY <1>1, Invariance, PTL

\* The game uses a nil gate outside of Lua only after the connection to the gate
\* has broken once.
THEOREM Survives == FairSpec => []CrashOnlyAfterBreak
<1>1. Inv => CrashOnlyAfterBreak
  <2> SUFFICES ASSUME Inv, crashed, links <= 1, link # 0 PROVE FALSE
    BY GateAssumption DEF CrashOnlyAfterBreak, Inv, LinkInv
  <2>1. links = 1 /\ link = 1
    BY GateAssumption DEF Inv, LinkInv
  <2> QED
    BY <2>1 DEF Inv, FirstInv
<1> QED
  BY <1>1, Invariance, PTL
=============================================================================
