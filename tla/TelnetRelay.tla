---------------------------- MODULE TelnetRelay -----------------------------
(***************************************************************************)
(* How a command of a page reaches the Lua of a game process and how its   *)
(* answer comes back: the handler goroutine of the page's connection, the  *)
(* one goroutine that ticks the clients to the games, the telnet session   *)
(* of a client inside the game, and the game's main loop.                  *)
(*                                                                         *)
(* Nothing on the way names the command an answer belongs to: all handlers *)
(* wait at one channel of the admin server, all sessions of a game at one  *)
(* channel of the game, and a result that comes after its session or its   *)
(* handler gave up is taken by the next one.  Nothing marks the end of an  *)
(* answer either: it comes in the blocks that receive reads, and whatever  *)
(* has come by the next tick is handed to a handler.  A command is a pair  *)
(* of a request and a server, and so is each block of its result.          *)
(***************************************************************************)
EXTENDS AdminConn

CONSTANTS Target,       \* the game servers, each with a telnet address
          Targets,      \* the same, in the order of the registry
          Pieces,       \* the blocks in which the result of a request is read
          MaxDial       \* clients ever created

ASSUME TargetsAssumption ==
    /\ Targets \in Seq(Target) /\ Target = {Targets[k] : k \in DOMAIN Targets}
    /\ MaxDial \in Nat /\ Pieces \in [1..MaxRequest -> Nat \ {0}]
    /\ none \notin Target /\ none \notin Nat \X Target

VARIABLES serverConn,   \* the client of a server, or 0
          dialed,       \* the number of clients created
          peer,         \* the server a client was created for
          status,       \* connectStatus; "broken" once receive has ended
          outBuffer, inBuffer,
          tick,         \* the client the tick goroutine is at, and its step
          session,      \* commands on the way to the session of a client
          at,           \* the command a session waits for, or none
          pipe,         \* what a session has written and receive has not read
          luaCommands, commandResultChan,
          answers,      \* history: what every command was answered with
          disturbed,    \* history: something timed out, broke, overlapped or was split
          crashed       \* the admin server is gone

clientVars == <<serverConn, dialed, peer, status, outBuffer, inBuffer, tick>>
gameVars == <<session, at, pipe, luaCommands, commandResultChan>>

Client == 1..MaxDial
NoTick == [client |-> 0, step |-> "idle"]

RelayInit ==
    /\ serverConn = [t \in Target |-> 0] /\ dialed = 0
    /\ peer = [k \in Client |-> none] /\ status = [k \in Client |-> "disconnected"]
    /\ outBuffer = [k \in Client |-> <<>>] /\ inBuffer = [k \in Client |-> <<>>]
    /\ tick = NoTick
    /\ session = [k \in Client |-> <<>>] /\ at = [k \in Client |-> none]
    /\ pipe = [k \in Client |-> <<>>]
    /\ luaCommands = [t \in Target |-> <<>>] /\ commandResultChan = [t \in Target |-> <<>>]
    /\ answers = {} /\ disturbed = FALSE /\ crashed = FALSE

-----------------------------------------------------------------------------
(* The page and the handler of its connection *)

RelayOpened(b) == Open(b, <<>>) /\ UNCHANGED <<clientVars, gameVars, answers, disturbed>>
RelayClosed(b) == Close(b) /\ UNCHANGED <<clientVars, gameVars, answers, disturbed>>

\* onConsoleMessage, onGetGMList and onGMCommand go to one server,
\* onReloadCommand to all of them in turn
Command(b) ==
    /\ \/ \E t \in Target : Request(b, "load", <<t>>)
       \/ Len(Targets) > 1 /\ Request(b, "load", Targets)
    /\ UNCHANGED <<clientVars, gameVars, answers, disturbed>>

RelayTake(c) ==
    /\ Take(c) /\ disturbed' = (disturbed \/ \E d \in Conn : doing[d].id # 0)
    /\ UNCHANGED <<clientVars, gameVars, answers>>

Current(c) == Head(doing[c].todo)

\* WriteBuf puts the command into the out buffer of the client, whatever
\* became of its connection, and the handler waits
WriteBuf(c, k) ==
    /\ Proceed(c, [doing[c] EXCEPT !.step = "wait"])
    /\ outBuffer' = [outBuffer EXCEPT ![k] = Append(@, <<doing[c].id, Current(c)>>)]

\* connectTarget: the load, and the store of a new client, are two steps
LoadFinds(c) ==
    /\ doing[c].step = "load" /\ serverConn[Current(c)] # 0
    /\ WriteBuf(c, serverConn[Current(c)])
    /\ UNCHANGED <<serverConn, dialed, peer, status, inBuffer, tick, gameVars, answers, disturbed>>

LoadMisses(c) ==
    /\ doing[c].step = "load" /\ serverConn[Current(c)] = 0
    /\ Proceed(c, [doing[c] EXCEPT !.step = "dial"])
    /\ UNCHANGED <<clientVars, gameVars, answers, disturbed>>

Dial(c) ==
    /\ doing[c].step = "dial" /\ dialed < MaxDial /\ dialed' = dialed + 1
    /\ peer' = [peer EXCEPT ![dialed'] = Current(c)]
    /\ status' = [status EXCEPT ![dialed'] = "connecting"]
    /\ serverConn' = [serverConn EXCEPT ![Current(c)] = dialed']
    /\ WriteBuf(c, dialed')
    /\ UNCHANGED <<inBuffer, tick, gameVars, answers, disturbed>>

\* the answer is written to the page; a reload goes on to the next server
Answer(c, data) ==
    LET left == Tail(doing[c].todo)
    IN  /\ answers' = answers \cup {[of |-> <<doing[c].id, Current(c)>>, data |-> data]}
        /\ Proceed(c, IF left = <<>> THEN Idle ELSE [doing[c] EXCEPT !.step = "load", !.todo = left])

\* the select after five seconds
Timeout(c) ==
    /\ doing[c].step = "wait" /\ Answer(c, <<>>) /\ disturbed' = TRUE
    /\ UNCHANGED <<clientVars, gameVars>>

-----------------------------------------------------------------------------
(* The clients, and the goroutine that ticks them *)

\* connect in its goroutine; a refused dial leaves the client in serverConn
Dialled(k) ==
    /\ k <= dialed /\ status[k] = "connecting"
    /\ \/ status' = [status EXCEPT ![k] = "connected"] /\ UNCHANGED disturbed
       \/ status' = [status EXCEPT ![k] = "disconnected"] /\ disturbed' = TRUE
    /\ UNCHANGED <<serverConn, dialed, peer, outBuffer, inBuffer, tick, gameVars, answers, connVars>>

\* the game or the network closes the connection, what is under way is lost
Break(k) ==
    /\ status[k] = "connected" /\ status' = [status EXCEPT ![k] = "broken"]
    /\ session' = [session EXCEPT ![k] = <<>>] /\ pipe' = [pipe EXCEPT ![k] = <<>>]
    /\ disturbed' = TRUE
    /\ UNCHANGED <<serverConn, dialed, peer, outBuffer, inBuffer, tick, at, luaCommands,
                   commandResultChan, answers, connVars>>

\* The tick goroutine comes to a client.  For one that is connecting there is
\* nothing to read, and nothing happens unless there is something to write.
TickOf(k) ==
    /\ tick = NoTick /\ \E t \in Target : serverConn[t] = k
    /\ status[k] \in {"connected", "broken"}

TickReads(k) ==
    /\ TickOf(k) /\ inBuffer[k] # <<>>
    /\ tick' = [client |-> k, step |-> "message"]
    /\ UNCHANGED <<serverConn, dialed, peer, status, outBuffer, inBuffer, gameVars, answers, connVars,
                   disturbed>>

\* OnMessage: the goroutine hands the whole buffer to a handler, and stays
\* blocked, the buffer locked, until one waits
OnMessage(c) ==
    /\ tick.step = "message" /\ doing[c].step = "wait"
    /\ Answer(c, inBuffer[tick.client])
    /\ inBuffer' = [inBuffer EXCEPT ![tick.client] = <<>>]
    /\ disturbed' = (disturbed \/ pipe[tick.client] # <<>>)
    /\ tick' = [tick EXCEPT !.step = "flush"]
    /\ UNCHANGED <<serverConn, dialed, peer, status, outBuffer, gameVars>>

\* wrong variant: the out buffer is sent and not shifted
FlushKeeps(k) ==
    /\ status[k] = "connected"
    /\ session' = [session EXCEPT ![k] = @ \o outBuffer[k]]
    /\ UNCHANGED <<serverConn, status, outBuffer>>

\* the out buffer is sent and shifted
Flush(k) ==
    /\ status[k] = "connected"
    /\ session' = [session EXCEPT ![k] = @ \o outBuffer[k]]
    /\ outBuffer' = [outBuffer EXCEPT ![k] = <<>>]
    /\ UNCHANGED <<serverConn, status>>

\* a write that fails leaves the commands where they are; OnDisconnect removes
\* whatever client the server has by now
DoDisconnect(k) ==
    /\ status[k] = "broken" /\ status' = [status EXCEPT ![k] = "disconnected"]
    /\ serverConn' = [serverConn EXCEPT ![peer[k]] = 0]
    /\ UNCHANGED <<session, outBuffer>>

\* the rest of the tick, after OnMessage or with nothing to read
TickRest(k) ==
    /\ tick = [client |-> k, step |-> "flush"] \/ (TickOf(k) /\ inBuffer[k] = <<>>)
    /\ tick' = NoTick
    /\ Flush(k) \/ DoDisconnect(k)
    /\ UNCHANGED <<dialed, peer, inBuffer, at, pipe, luaCommands, commandResultChan, answers, disturbed,
                   connVars>>

\* a write before the dial has given the client its connection: a nil pointer
TickPanics(k) ==
    /\ tick = NoTick /\ \E t \in Target : serverConn[t] = k
    /\ status[k] = "connecting" /\ outBuffer[k] # <<>> /\ crashed' = TRUE
    /\ UNCHANGED <<clientVars, gameVars, answers, disturbed, connVars>>

\* the buffer is locked while the tick goroutine is in OnMessage
Receives(k) == ~(tick.step = "message" /\ tick.client = k)

\* receive: one block at a time, of at most 2048 bytes
Receive(k) ==
    /\ status[k] = "connected" /\ pipe[k] # <<>> /\ Receives(k)
    /\ inBuffer' = [inBuffer EXCEPT ![k] = Append(@, Head(pipe[k]))]
    /\ pipe' = [pipe EXCEPT ![k] = Tail(@)]
    /\ UNCHANGED <<serverConn, dialed, peer, status, outBuffer, tick, session, at, luaCommands,
                   commandResultChan, answers, disturbed, connVars>>

-----------------------------------------------------------------------------
(* The game *)

\* handleSession: one command at a time
SessionRead(k) ==
    /\ at[k] = none /\ session[k] # <<>>
    /\ at' = [at EXCEPT ![k] = Head(session[k])]
    /\ session' = [session EXCEPT ![k] = Tail(@)]
    /\ luaCommands' = [luaCommands EXCEPT ![peer[k]] = Append(@, Head(session[k]))]
    /\ UNCHANGED <<pipe, commandResultChan, clientVars, answers, disturbed, connVars>>

\* the main loop runs the next command; the list of a game without a GMStub
\* answers nothing
Run(t) ==
    /\ luaCommands[t] # <<>> /\ luaCommands' = [luaCommands EXCEPT ![t] = Tail(@)]
    /\ \/ commandResultChan' = [commandResultChan EXCEPT ![t] = Append(@, Head(luaCommands[t]))]
       \/ UNCHANGED commandResultChan
    /\ UNCHANGED <<session, at, pipe, clientVars, answers, disturbed, connVars>>

\* what a session writes is lost when its connection is gone
SessionWrites(k, data) ==
    /\ at' = [at EXCEPT ![k] = none]
    /\ pipe' = IF status[k] = "connected" THEN [pipe EXCEPT ![k] = @ \o data] ELSE pipe
    /\ UNCHANGED <<session, luaCommands, clientVars, answers, connVars>>

\* the whole result of a command
Result(q) == [k \in 1..Pieces[q[1]] |-> q]

SessionAnswer(k) ==
    LET t == peer[k]
    IN  /\ at[k] # none /\ commandResultChan[t] # <<>>
        /\ commandResultChan' = [commandResultChan EXCEPT ![t] = Tail(@)]
        /\ SessionWrites(k, Result(Head(commandResultChan[t]))) /\ UNCHANGED disturbed

\* after three seconds the answer is "command timeout"
SessionTimeout(k) ==
    /\ at[k] # none /\ disturbed' = TRUE
    /\ SessionWrites(k, <<none>>) /\ UNCHANGED commandResultChan

RelayMoves ==
    \/ \E b \in Browser : RelayOpened(b) \/ RelayClosed(b) \/ Command(b)
    \/ \E c \in Conn :
        \/ LoopEnds(c) /\ UNCHANGED <<clientVars, gameVars, answers, disturbed>>
        \/ RelayTake(c) \/ LoadFinds(c) \/ LoadMisses(c) \/ Dial(c) \/ Timeout(c) \/ OnMessage(c)
    \/ \E k \in Client :
        \/ Dialled(k) \/ Break(k) \/ TickReads(k) \/ TickRest(k) \/ Receive(k)
        \/ SessionRead(k) \/ SessionAnswer(k) \/ SessionTimeout(k)
    \/ \E t \in Target : Run(t)

\* nothing that the admin server could see happens after its crash
RelayNext ==
    /\ ~crashed
    /\ (RelayMoves /\ UNCHANGED crashed) \/ \E k \in Client : TickPanics(k)

-----------------------------------------------------------------------------
Commands == (1..requests) \X Target

RelayTypeOK ==
    /\ \A t \in Target : serverConn[t] \in 0..dialed
    /\ \A k \in Client : k <= dialed <=> peer[k] \in Target
    /\ tick.client = 0 <=> tick = NoTick
    /\ \A k \in Client : at[k] = none \/ at[k] \in Commands
    /\ \A k \in Client : \A i \in DOMAIN pipe[k] : pipe[k][i] \in Commands \cup {none}
    /\ \A t \in Target : \A k \in DOMAIN commandResultChan[t] : commandResultChan[t][k] \in (1..requests) \X {t}
    /\ \A a \in answers : a.of \in Commands /\ \A k \in DOMAIN a.data : a.data[k] \in Commands \cup {none}
    /\ crashed \in BOOLEAN

\* A command has been answered with the whole of its own result and nothing
\* else, as long as no command was handled beside another one, nothing timed out,
\* no connection broke and every result had come as a whole when a tick handed it
\* over: neither a reload's way through the servers nor a page that reconnects
\* shifts the answers.  A result that is split by a tick does: its rest is the
\* answer of the next command.
OwnAnswer == ~disturbed => \A a \in answers : a.data = Result(a.of)
=============================================================================
