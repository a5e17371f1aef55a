---------------------------- MODULE GateSession -----------------------------
(***************************************************************************)
(* A gate with its clients, a game with its entities, and the connection   *)
(* between them.  The gate knows the entity of a client (clientToGame),    *)
(* the game knows the client of an entity; each learns of the other's      *)
(* changes by messages, which are lost when the connection breaks.         *)
(*                                                                         *)
(* The gate numbers clients in the order of their AddClientTasks, which is *)
(* the order in which they open, so a client is its number.  A connection  *)
(* between gate and game is a number too: the gate makes a new one when    *)
(* the last one is lost, and the game hears of the end of one connection   *)
(* and of the messages of the next in any order.                           *)
(*                                                                         *)
(* early is history: the clients that closed before they were added.       *)
(***************************************************************************)
EXTENDS Naturals, Sequences, FiniteSets, SequencesExt

CONSTANTS Entity, none, MaxClient, MaxLogin, MaxLink

ASSUME GateAssumption ==
    /\ IsFiniteSet(Entity) /\ none \notin Entity
    /\ MaxClient \in Nat /\ MaxLogin \in Nat /\ MaxLink \in Nat

VARIABLES opened, sock,         \* the clients that came, and their sockets
          tried,                \* the number of logins
          gateTasks,
          clientMap,            \* the clients the gate has added and not removed
          added,                \* the sockets with a client id in their context
          closing,              \* the sockets the gate has closed itself
          clientToGame,
          link, links,          \* the connection of the gate, 0 for none
          handlerAction,        \* whether OnConnect is still to be called
          unsent, unread,       \* left in the buffers of the last connection
          toGame, toGate,       \* messages on their way, by connection
          gateMap, gateConnMap, \* the game's connection of the gate
          named,                \* the connections with a service name
          connMap, client,      \* clients and entities in the game
          logins,               \* logins the scripts are at
          crashed,              \* a nil gate was used outside of Lua
          early

gateVars == <<opened, sock, tried, gateTasks, clientMap, added, closing, early>>
linkVars == <<link, links, handlerAction, unsent, unread>>
gameVars == <<gateMap, gateConnMap, named, connMap, client, logins, crashed>>
vars == <<gateVars, clientToGame, linkVars, toGame, toGate, gameVars>>

Client == 1..MaxClient
Link == 1..MaxLink

Init ==
    /\ opened = 0 /\ tried = 0 /\ sock = [c \in Client |-> "none"] /\ gateTasks = <<>>
    /\ clientMap = {} /\ added = {} /\ closing = {} /\ early = {}
    /\ clientToGame = [c \in Client |-> none]
    /\ link = 0 /\ links = 0 /\ handlerAction = "none" /\ unsent = <<>> /\ unread = <<>>
    /\ toGame = [k \in Link |-> <<>>] /\ toGate = [k \in Link |-> <<>>]
    /\ gateMap = 0 /\ gateConnMap = {} /\ named = {}
    /\ connMap = {} /\ client = [e \in Entity |-> 0] /\ logins = {}
    /\ crashed = FALSE

-----------------------------------------------------------------------------
(* The gate: events of its network, which push tasks, and its main loop *)

OnOpened ==
    /\ opened < MaxClient /\ opened' = opened + 1
    /\ sock' = [sock EXCEPT ![opened'] = "open"]
    /\ gateTasks' = Append(gateTasks, [type |-> "add", id |-> opened'])
    /\ UNCHANGED <<tried, clientMap, added, closing, early, clientToGame, linkVars, toGame, toGate, gameVars>>

\* wrong variant: a close does not see the id that the main loop has given
OnClosedBlind(c) ==
    /\ sock[c] = "open" /\ sock' = [sock EXCEPT ![c] = "closed"]
    /\ gateTasks' = Append(gateTasks, [type |-> "remove", id |-> 0])
    /\ early' = IF c \in added THEN early ELSE early \cup {c}
    /\ UNCHANGED <<opened, tried, clientMap, added, closing, clientToGame, linkVars, toGame, toGate, gameVars>>

\* The client id is read from the context when the socket closes: 0 as long as
\* the AddClientTask has not run.
OnClosed(c) ==
    /\ sock[c] = "open" /\ sock' = [sock EXCEPT ![c] = "closed"]
    /\ gateTasks' = Append(gateTasks, [type |-> "remove", id |-> IF c \in added THEN c ELSE 0])
    /\ early' = IF c \in added THEN early ELSE early \cup {c}
    /\ UNCHANGED <<opened, tried, clientMap, added, closing, clientToGame, linkVars, toGame, toGate, gameVars>>

React(c) ==
    /\ sock[c] = "open" /\ tried < MaxLogin /\ tried' = tried + 1
    /\ gateTasks' = Append(gateTasks, [type |-> "login", id |-> c])
    /\ UNCHANGED <<opened, sock, clientMap, added, closing, early, clientToGame, linkVars, toGame, toGate,
                   gameVars>>

TaskIs(type) == gateTasks # <<>> /\ Head(gateTasks).type = type /\ gateTasks' = Tail(gateTasks)

AddConn ==
    LET c == Head(gateTasks).id
    IN  /\ TaskIs("add") /\ added' = added \cup {c} /\ clientMap' = clientMap \cup {c}
        /\ UNCHANGED <<opened, tried, sock, closing, early, clientToGame, linkVars, toGame, toGate, gameVars>>

\* Send of the client to the game: nothing while it is disconnected
SendToGame(msgs) == toGame' = IF link = 0 THEN toGame ELSE [toGame EXCEPT ![link] = @ \o msgs]

\* removeConn and onClientClosed: the game is told if the client is bound, and
\* the binding stays until the game answers
RemoveConn ==
    LET c == Head(gateTasks).id
    IN  /\ TaskIs("remove") /\ clientMap' = clientMap \ {c}
        /\ SendToGame(IF c # 0 /\ clientToGame[c] # none THEN <<[type |-> "close", id |-> c]>> ELSE <<>>)
        /\ UNCHANGED <<opened, tried, sock, added, closing, early, clientToGame, linkVars, toGate, gameVars>>

\* a login goes to the entry game, even before the gate has said hello there
ClientSendToGame ==
    LET c == Head(gateTasks).id
    IN  /\ TaskIs("login")
        /\ SendToGame(IF c \in clientMap THEN <<[type |-> "login", id |-> c]>> ELSE <<>>)
        /\ UNCHANGED <<opened, tried, sock, clientMap, added, closing, early, clientToGame, linkVars, toGate, gameVars>>

GameMessage(type) ==
    /\ link # 0 /\ toGate[link] # <<>> /\ Head(toGate[link]).type = type
    /\ toGate' = [toGate EXCEPT ![link] = Tail(@)]

\* whether the client is still there is not looked at
BindEntity ==
    LET m == Head(toGate[link])
    IN  /\ GameMessage("bind")
        /\ clientToGame' = [clientToGame EXCEPT ![m.id] = m.entity]
        /\ UNCHANGED <<gateVars, linkVars, toGame, gameVars>>

\* whatever entity the client is bound to by now
UnBindEntity ==
    LET m == Head(toGate[link])
    IN  /\ GameMessage("unbind")
        /\ clientToGame' = [clientToGame EXCEPT ![m.id] = none]
        /\ UNCHANGED <<gateVars, linkVars, toGame, gameVars>>

\* processLoginByOther and processDisconnectClient close the socket, OnClosed
\* follows
CloseClient ==
    LET m == Head(toGate[link])
    IN  /\ GameMessage("kick")
        /\ closing' = IF m.id \in clientMap THEN closing \cup {m.id} ELSE closing
        /\ UNCHANGED <<opened, tried, sock, gateTasks, clientMap, added, early, clientToGame, linkVars, toGame,
                       gameVars>>

\* the buffers are those of the client, not of the connection: what a broken
\* one left is sent and read first
Connect ==
    /\ link = 0 /\ links < MaxLink /\ links' = links + 1 /\ link' = links' /\ handlerAction' = "connected"
    /\ toGame' = [toGame EXCEPT ![link'] = unsent] /\ unsent' = <<>>
    /\ toGate' = [toGate EXCEPT ![link'] = unread] /\ unread' = <<>>
    /\ UNCHANGED <<gateVars, clientToGame, gameVars>>

\* OnConnect, in a tick after the connection was made
SayHello ==
    /\ link # 0 /\ handlerAction = "connected" /\ handlerAction' = "none"
    /\ SendToGame(<<[type |-> "hello", id |-> 0]>>)
    /\ UNCHANGED <<gateVars, clientToGame, link, links, unsent, unread, toGate, gameVars>>

\* The connection breaks: the game gets some of what was sent, and the end.
\* What was not written yet stays in outBuffer, what was received and not
\* handled in inBuffer; both are empty if the gate makes a new client.  A write
\* that fails has sent nothing.
Break ==
    /\ link # 0 /\ link' = 0 /\ handlerAction' = "none"
    /\ \E n \in 0..Len(toGame[link]) : \E m \in n..Len(toGame[link]) :
          /\ toGame' = [toGame EXCEPT ![link] = Append(SubSeq(@, 1, n), [type |-> "end", id |-> 0])]
          /\ unsent' = SubSeq(toGame[link], m + 1, Len(toGame[link]))
    /\ toGate' = [toGate EXCEPT ![link] = <<>>]
    /\ \E n \in 0..Len(toGate[link]) : unread' = SubSeq(toGate[link], 1, n)
    /\ links = MaxLink => unsent' = <<>> /\ unread' = <<>>
    /\ UNCHANGED <<gateVars, clientToGame, links, gameVars>>

-----------------------------------------------------------------------------
(* The game *)

\* AsyncWrite to the connection of the gate, which may be gone
SendToGate(msgs) ==
    toGate' = IF gateMap # 0 /\ gateMap = link THEN [toGate EXCEPT ![link] = @ \o msgs] ELSE toGate

UnbindMsg(e) == [type |-> "unbind", id |-> client[e], entity |-> e]
BindMsg(c, e) == [type |-> "bind", id |-> c, entity |-> e]
KickMsg(e) == [type |-> "kick", id |-> client[e], entity |-> e]

\* what setClient tells the gate of the client an entity has had; it is the
\* primary entity, as setConnInfo makes every one
LeaveClient(e) == <<UnbindMsg(e), KickMsg(e)>>

\* the same for entities in the order in which a range over the map meets them
LeaveAll(order) == [i \in 1..(2 * Len(order)) |-> LeaveClient(order[(i + 1) \div 2])[2 - (i % 2)]]

Orders(S) == {order \in [1..Cardinality(S) -> S] : S \subseteq Range(order)}

\* setClient(nil) of entities, outside of Lua: a gate that is not in gateMap
\* ends the process
LoseClients(S) ==
    LET bound == {e \in S : client[e] # 0}
    IN  /\ crashed' = (bound # {} /\ gateMap = 0)
        /\ \E order \in Orders(bound) : SendToGate(LeaveAll(order))
        /\ client' = [e \in Entity |-> IF e \in S /\ ~crashed' THEN 0 ELSE client[e]]

GateMessage(k, type) ==
    /\ toGame[k] # <<>> /\ Head(toGame[k]).type = type
    /\ toGame' = [toGame EXCEPT ![k] = Tail(@)]

\* wrong variant: the connection is noted, its name is not
AddGateUnlisted(k) ==
    /\ GateMessage(k, "hello")
    /\ gateConnMap' = gateConnMap \cup {k} /\ named' = named \cup {k}
    /\ UNCHANGED <<gateVars, clientToGame, linkVars, toGate, gateMap, connMap, client, logins, crashed>>

AddGate(k) ==
    /\ GateMessage(k, "hello")
    /\ gateMap' = k /\ gateConnMap' = gateConnMap \cup {k} /\ named' = named \cup {k}
    /\ UNCHANGED <<gateVars, clientToGame, linkVars, toGate, connMap, client, logins, crashed>>

\* wrong variant: the name stays with the connection that is gone
RemoveGateKeepsName(k) ==
    /\ GateMessage(k, "end")
    /\ \/ /\ k \in gateConnMap
          /\ LoseClients({e \in Entity : \E c \in Client : <<c, e>> \in connMap})
          /\ connMap' = {} /\ gateConnMap' = gateConnMap \ {k} /\ UNCHANGED gateMap
       \/ k \notin gateConnMap /\ UNCHANGED <<crashed, toGate, client, connMap, gateConnMap, gateMap>>
    /\ UNCHANGED <<gateVars, clientToGame, linkVars, named, logins>>

\* RemoveGate: also when a newer connection has the name by now
RemoveGate(k) ==
    /\ GateMessage(k, "end")
    /\ \/ /\ k \in gateConnMap
          /\ LoseClients({e \in Entity : \E c \in Client : <<c, e>> \in connMap})
          /\ connMap' = {} /\ gateConnMap' = gateConnMap \ {k} /\ gateMap' = 0
       \/ k \notin gateConnMap /\ UNCHANGED <<crashed, toGate, client, connMap, gateConnMap, gateMap>>
    /\ UNCHANGED <<gateVars, clientToGame, linkVars, named, logins>>

\* RemoveEntityConnInfo; the name of the gate is that of the connection
ClientClosed(k) ==
    LET c == Head(toGame[k]).id
    IN  /\ GateMessage(k, "close")
        /\ \/ /\ k \in named
              /\ LoseClients({e \in Entity : <<c, e>> \in connMap /\ client[e] = c})
              /\ connMap' = {p \in connMap : p[1] # c}
           \/ k \notin named /\ UNCHANGED <<crashed, toGate, client, connMap>>
        /\ UNCHANGED <<gateVars, clientToGame, linkVars, gateMap, gateConnMap, named, logins>>

\* the scripts look for the entity of a login, which takes its time
ProcessEntityLogin(k) ==
    /\ GateMessage(k, "login")
    /\ \E e \in Entity : logins' = logins \cup {<<Head(toGame[k]).id, e>>}
    /\ UNCHANGED <<gateVars, clientToGame, linkVars, toGate, gateMap, gateConnMap, named, connMap, client, crashed>>

\* wrong variant: an entity that changes its client leaves the old one bound
SetConnInfoOldBound(c, e) ==
    /\ <<c, e>> \in logins /\ logins' = logins \ {<<c, e>>}
    /\ connMap' = connMap \cup {<<c, e>>}
    /\ \/ client[e] = c /\ UNCHANGED <<client, toGate>>
       \/ client[e] # c /\ client' = [client EXCEPT ![e] = c] /\ SendToGate(<<BindMsg(c, e)>>)
    /\ UNCHANGED <<gateVars, clientToGame, linkVars, toGame, gateMap, gateConnMap, named, crashed>>

\* setConnInfo: UpdateEntityConnInfo and setClient.  Lua catches the use of a
\* nil gate, and what comes after it is not done.
SetConnInfo(c, e) ==
    /\ <<c, e>> \in logins /\ logins' = logins \ {<<c, e>>}
    /\ connMap' = connMap \cup {<<c, e>>}
    /\ \/ client[e] = c /\ UNCHANGED <<client, toGate>>
       \/ client[e] # c /\ client[e] # 0 /\ gateMap = 0 /\ UNCHANGED <<client, toGate>>
       \/ /\ client[e] # c /\ (client[e] = 0 \/ gateMap # 0)
          /\ client' = [client EXCEPT ![e] = c]
          /\ SendToGate((IF client[e] = 0 THEN <<>> ELSE LeaveClient(e)) \o <<BindMsg(c, e)>>)
    /\ UNCHANGED <<gateVars, clientToGame, linkVars, toGame, gateMap, gateConnMap, named, crashed>>

\* A login ends without a client: a wrong password, or an entity that is not
\* ready, for which UpdateEntityConnInfo has added the client before setClient
\* refuses it.
LoginFails(c, e) ==
    /\ <<c, e>> \in logins /\ logins' = logins \ {<<c, e>>}
    /\ connMap' \in {connMap, connMap \cup {<<c, e>>}}
    /\ UNCHANGED <<gateVars, clientToGame, linkVars, toGame, toGate, gateMap, gateConnMap, named, client, crashed>>

HelloUnderWay ==
    \/ link # 0 /\ (handlerAction = "connected" \/ link \notin named)
    \/ \E k \in Link : \E i \in DOMAIN toGame[k] : toGame[k][i].type = "hello"


\* checkHeartbeatCb: nothing was heard of the client for long, longer than the
\* gate takes to say hello
CheckHeartbeatCb(e) ==
    /\ client[e] # 0 /\ ~HelloUnderWay
    /\ LoseClients({e})
    /\ UNCHANGED <<gateVars, clientToGame, linkVars, toGame, gateMap, gateConnMap, named, connMap, logins>>

GameReceives(k) ==
    AddGate(k) \/ RemoveGate(k) \/ ClientClosed(k) \/ ProcessEntityLogin(k)

GateNext ==
    \/ OnOpened \/ \E c \in Client : OnClosed(c) \/ React(c)
    \/ AddConn \/ RemoveConn \/ ClientSendToGame
    \/ BindEntity \/ UnBindEntity \/ CloseClient \/ Connect \/ SayHello \/ Break

GameNext ==
    \/ \E k \in Link : GameReceives(k)
    \/ \E c \in Client, e \in Entity : SetConnInfo(c, e) \/ LoginFails(c, e)
    \/ \E e \in Entity : CheckHeartbeatCb(e)

\* A crash of the game is the end of a behaviour.
Next == ~crashed /\ (GateNext \/ GameNext)

\* The main loops run, hello follows a connect, and the heartbeat check of an
\* entity fires when its client is silent.
FairSpec ==
    /\ Init /\ [][Next]_vars
    /\ WF_vars(~crashed /\ (\/ SayHello \/ \E k \in Link : GameReceives(k)
                            \/ \E e \in Entity : client[e] # 0 /\ sock[client[e]] = "closed" /\ CheckHeartbeatCb(e)))

-----------------------------------------------------------------------------
\* Type invariant of the gate, the connections and the game.
TypeOK ==
    /\ opened \in 0..MaxClient /\ tried \in 0..MaxLogin /\ sock \in [Client -> {"none", "open", "closed"}]
    /\ \A i \in DOMAIN gateTasks : gateTasks[i].type \in {"add", "remove", "login"} /\ gateTasks[i].id \in 0..opened
    /\ clientMap \subseteq added /\ added \subseteq 1..opened /\ closing \subseteq added
    /\ clientToGame \in [Client -> Entity \cup {none}]
    /\ link \in {0, links} /\ links \in 0..MaxLink /\ handlerAction \in {"none", "connected"}
    /\ links = 0 => unsent = <<>> /\ unread = <<>>
    /\ gateMap \in gateConnMap \cup {0} /\ gateConnMap \subseteq named /\ named \subseteq 1..links
    /\ connMap \subseteq Client \X Entity /\ client \in [Entity -> 0..opened]
    /\ logins \subseteq Client \X Entity /\ crashed \in BOOLEAN

\* A client the gate never removes is one that closed before the task that
\* adds it had run.
ForgottenOnlyIfEarly ==
    \A c \in clientMap : sock[c] = "closed" =>
        \/ c \in early
        \/ \E i \in DOMAIN gateTasks : gateTasks[i] = [type |-> "remove", id |-> c]

\* On a connection that never broke, when no message is under way, the gate
\* sends a client's messages only to an entity that has this client.  An entity
\* may have a client whose binding the gate lost to a late unbind.
BindingsAreKnown ==
    (links = 1 /\ link = 1 /\ toGame[1] = <<>> /\ toGate[1] = <<>> /\ ~crashed) =>
        \A c \in Client : clientToGame[c] # none => client[clientToGame[c]] = c

\* The game survives every order of messages and timers as long as the
\* connection to the gate does not break, a login before the hello included.
CrashOnlyAfterBreak == crashed => links > 1 \/ link = 0

=============================================================================
