----------------------------- MODULE AdminConn ------------------------------
(***************************************************************************)
(* The websocket connections between the pages of the tools and the admin  *)
(* server.  A connection has three goroutines: one reads requests into     *)
(* inChan, one handles them in order, one writes the answers.  The socket  *)
(* and inChan are one queue here; an answer is shown as soon as it is      *)
(* written, unless the connection has been closed.                         *)
(***************************************************************************)
EXTENDS Naturals, Sequences, FiniteSets

CONSTANTS Browser, none,
          MaxConn,      \* connections ever made
          MaxRequest    \* numbered requests, a reload counting once for every server

ASSUME ConnAssumption == {MaxConn, MaxRequest} \subseteq Nat /\ none \notin Nat

VARIABLES client,       \* the connection of a page, or none
          connected,    \* the number of connections made
          closed,       \* those whose closeChan is closed
          inChan,
          doing,        \* what the goroutine of a connection is at
          requests      \* the last number given to a request

connVars == <<client, connected, closed, inChan, doing, requests>>

Conn == 1..MaxConn

\* todo are the servers a command still has to go to
Idle == [step |-> "idle", id |-> 0, todo |-> <<>>]
Over == [Idle EXCEPT !.step = "over"]

ConnInit ==
    /\ client = [b \in Browser |-> none] /\ connected = 0 /\ closed = {}
    /\ inChan = [c \in Conn |-> <<>>] /\ doing = [c \in Conn |-> Idle]
    /\ requests = 0

\* NewWebSocketHandler: the queue of the new connection starts with what its
\* page sends as soon as it is open
Open(b, first) ==
    /\ client[b] = none /\ connected < MaxConn
    /\ connected' = connected + 1
    /\ client' = [client EXCEPT ![b] = connected']
    /\ inChan' = [inChan EXCEPT ![connected'] = first]
    /\ UNCHANGED <<closed, doing, requests>>

Close(b) ==
    /\ client[b] # none
    /\ closed' = closed \cup {client[b]} /\ client' = [client EXCEPT ![b] = none]
    /\ UNCHANGED <<connected, inChan, doing, requests>>

Request(b, type, todo) ==
    /\ client[b] # none
    /\ requests' = requests + (IF todo = <<>> THEN 1 ELSE Len(todo)) /\ requests' <= MaxRequest
    /\ inChan' = [inChan EXCEPT ![client[b]] =
                    Append(@, [step |-> type, id |-> requests', todo |-> todo])]
    /\ UNCHANGED <<client, connected, closed, doing>>

\* The select takes a request of a closed connection as well.
Take(c) ==
    /\ doing[c] = Idle /\ inChan[c] # <<>>
    /\ doing' = [doing EXCEPT ![c] = Head(inChan[c])]
    /\ inChan' = [inChan EXCEPT ![c] = Tail(@)]
    /\ UNCHANGED <<client, connected, closed, requests>>

LoopEnds(c) ==
    /\ doing[c] = Idle /\ c \in closed
    /\ doing' = [doing EXCEPT ![c] = Over]
    /\ UNCHANGED <<client, connected, closed, inChan, requests>>

\* one step of the handler of c
Proceed(c, next) ==
    /\ doing' = [doing EXCEPT ![c] = next]
    /\ UNCHANGED <<client, connected, closed, inChan, requests>>
=============================================================================
