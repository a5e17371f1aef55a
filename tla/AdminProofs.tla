----------------------------- MODULE AdminProofs -----------------------------
(***************************************************************************)
(* Proofs about the admin server, for any set of browsers and game         *)
(* servers and any number of connections, requests and clients.            *)
(***************************************************************************)
EXTENDS Admin, SequenceTheorems, TLAPS

(***************************************************************************)
(* The inductive invariant: connections                                    *)
(***************************************************************************)

Sent == {"load", "tableConfig", "setTableConfig", "exportTable", "findSheet"}
Relayed == {"load", "dial", "wait"}
Filed == {"tableConfig", "setTableConfig", "exportTable", "findSheet", "write"}
Steps == Relayed \cup Filed \cup {"idle", "over"}

Req == [step : Steps, id : Nat, todo : Seq(Target)]

\* what a request is, by the step its handler is at, when n requests have been made
Good(m, n, p) ==
    /\ m.id <= n
    /\ m.step \in Relayed => p = "relay" /\ m.id > 0 /\ m.todo # << >>
    /\ m.step \in Filed => p = "config"
    /\ m.step \in Filed \ {"tableConfig"} => m.id > 0
    /\ m.step \in {"idle", "over"} => m.id = 0

ConnInv ==
    /\ part \in {"relay", "config"}
    /\ connected \in 0..MaxConn /\ requests \in 0..MaxRequest
    /\ DOMAIN client = Browser /\ \A b \in Browser : client[b] \in (1..connected) \cup {none}
    /\ closed \subseteq 1..connected
    /\ inChan \in [Conn -> Seq(Req)] /\ doing \in [Conn -> Req]
    /\ \A c \in Conn : Good(doing[c], requests, part)
    /\ \A c \in Conn : \A i \in DOMAIN inChan[c] : Good(inChan[c][i], requests, part) /\ inChan[c][i].step \in Sent

(***************************************************************************)
(* The configuration                                                       *)
(***************************************************************************)

ConfigInv ==
    /\ DOMAIN config = Browser /\ \A b \in Browser : config[b] \in (0..requests) \cup {none}
    /\ dialog \subseteq Browser
    /\ DOMAIN lines = Browser /\ \A b \in Browser : lines[b] \in Seq(1..requests)
    /\ DOMAIN sheet = Browser /\ \A b \in Browser : sheet[b] \in (1..requests) \cup {none}
    /\ file \in Seq(1..requests)
    /\ stored \in 0..requests /\ overlapped \in BOOLEAN

\* Without an overlap one submit at a time is at the file, which is empty then.
FileInv ==
    ~overlapped =>
        /\ \A c, d \in Writing : c = d
        /\ Writing # {} => file = << >>
        /\ Writing = {} /\ stored # 0 => file = Whole(stored)

(***************************************************************************)
(* The relay                                                               *)
(***************************************************************************)

\* the commands that have been sent to server t
CommandsTo(t) == (1..requests) \X {t}

ClientInv ==
    /\ dialed \in 0..MaxDial
    /\ DOMAIN serverConn = Target /\ \A t \in Target : serverConn[t] \in 0..dialed
    /\ DOMAIN peer = Client /\ \A k \in Client : k <= dialed <=> peer[k] \in Target
    /\ \A t \in Target : serverConn[t] # 0 => peer[serverConn[t]] = t
    /\ DOMAIN status = Client
    /\ \A k \in Client : status[k] \in {"connecting", "connected", "broken"} => k <= dialed
    /\ tick = NoTick \/ tick \in [client : Client, step : {"message", "flush"}]
    /\ tick.step = "message" => inBuffer[tick.client] # << >>

BufferInv ==
    /\ DOMAIN outBuffer = Client /\ DOMAIN session = Client
    /\ DOMAIN at = Client /\ DOMAIN inBuffer = Client /\ DOMAIN pipe = Client
    /\ \A k \in Client :
          /\ outBuffer[k] \in Seq(CommandsTo(peer[k])) /\ session[k] \in Seq(CommandsTo(peer[k]))
          /\ k > dialed => outBuffer[k] = << >> /\ session[k] = << >>
          /\ at[k] # none => at[k] \in Commands /\ k <= dialed
          /\ inBuffer[k] \in Seq(Commands \cup {none}) /\ pipe[k] \in Seq(Commands \cup {none})
    /\ DOMAIN luaCommands = Target /\ DOMAIN commandResultChan = Target
    /\ \A t \in Target :
          luaCommands[t] \in Seq(CommandsTo(t)) /\ commandResultChan[t] \in Seq(CommandsTo(t))
    /\ \A a \in answers : a.of \in Commands /\ a.data \in Seq(Commands \cup {none})

(***************************************************************************)
(* As long as nothing disturbs it, there is one command at a time, and it  *)
(* is in one place.                                                        *)
(***************************************************************************)

Stage == {"out", "session", "lua", "result", "lost", "in"}

\* where commands can be: the buffers of the clients, their sessions, the games
Net == [out |-> outBuffer, session |-> session, at |-> at, lua |-> luaCommands,
        result |-> commandResultChan, pipe |-> pipe, in |-> inBuffer, status |-> status]

QuietClient(n, k) ==
    n.out[k] = << >> /\ n.session[k] = << >> /\ n.at[k] = none /\ n.pipe[k] = << >> /\ n.in[k] = << >>
QuietServer(n, t) == n.lua[t] = << >> /\ n.result[t] = << >>
Quiet(n) == (\A k \in Client : QuietClient(n, k)) /\ (\A t \in Target : QuietServer(n, t))

Copies(q, n) == [k \in 1..n |-> q]

\* the result of q has been written: a part of it is in the buffer in, the rest in the pipe
Landed(in, rest, q) ==
    \E i, j \in Nat : i + j = Pieces[q[1]] /\ in = Copies(q, i) /\ rest = Copies(q, j)

\* command q is at stage s of its way through client k and server t
Way(n, k, t, q, s) ==
    /\ n.out[k] = IF s = "out" THEN <<q>> ELSE << >>
    /\ n.session[k] = IF s = "session" THEN <<q>> ELSE << >>
    /\ n.at[k] = IF s \in {"lua", "result", "lost"} THEN q ELSE none
    /\ n.lua[t] = IF s = "lua" THEN <<q>> ELSE << >>
    /\ n.result[t] = IF s = "result" THEN <<q>> ELSE << >>
    /\ IF s = "in" THEN Landed(n.in[k], n.pipe[k], q) ELSE n.in[k] = << >> /\ n.pipe[k] = << >>
    /\ s # "out" => n.status[k] = "connected"

InFlight(n, k, t, q) ==
    /\ \E s \in Stage : Way(n, k, t, q, s)
    /\ \A j \in Client \ {k} : QuietClient(n, j)
    /\ \A u \in Target \ {t} : QuietServer(n, u)

Waiting == {c \in Conn : doing[c].step = "wait"}

SerialInv ==
    part = "relay" /\ ~disturbed =>
        /\ \A c, d \in Conn : doing[c].id # 0 /\ doing[d].id # 0 => c = d
        /\ \A k \in 1..dialed : serverConn[peer[k]] = k /\ status[k] \in {"connecting", "connected"}
        /\ \A c \in Conn : doing[c].step = "dial" => serverConn[Current(c)] = 0
        /\ \A c \in Waiting :
              /\ serverConn[Current(c)] # 0
              /\ InFlight(Net, serverConn[Current(c)], Current(c), <<doing[c].id, Current(c)>>)
        /\ Waiting = {} => Quiet(Net)
        /\ \A a \in answers : a.data = Result(a.of)

\* the handlers of the export page answer no commands
NoCommands == part = "config" => answers = {}

ServerInv == crashed \in BOOLEAN

Inv == ConnInv /\ ConfigInv /\ FileInv /\ ClientInv /\ BufferInv /\ SerialInv /\ NoCommands /\ ServerInv

(***************************************************************************)
(* Connections                                                             *)
(***************************************************************************)

LEMMA IdleIsReq == Idle \in Req /\ Over \in Req /\ [Idle EXCEPT !.step = "tableConfig"] \in Req
<1>1. << >> \in Seq(Target)
  BY EmptySeq
<1> QED
  BY <1>1 DEF Idle, Over, Req, Steps, Filed

LEMMA ConnNumbers ==
    ASSUME ConnInv
    PROVE  /\ MaxConn \in Nat /\ MaxRequest \in Nat /\ none \notin Nat
           /\ connected \in Nat /\ requests \in Nat
           /\ \A b \in Browser : client[b] # none => client[b] \in Conn
BY ConnAssumption DEF ConnInv, Conn

\* Requests stay good while more of them are numbered.
LEMMA GoodStays ==
    ASSUME NEW m \in Req, NEW n \in Nat, NEW k \in Nat, n <= k, NEW p, Good(m, n, p)
    PROVE  Good(m, k, p)
BY DEF Good, Req

LEMMA OpenConn ==
    ASSUME ConnInv, NEW b \in Browser, NEW first \in Seq(Req), Open(b, first), part' = part,
           \A i \in DOMAIN first : Good(first[i], requests, part) /\ first[i].step \in Sent
    PROVE  ConnInv' /\ doing' = doing /\ requests' = requests
<1>1. /\ connected' = connected + 1 /\ connected' \in Conn /\ connected' \in 0..MaxConn
      /\ client' = [client EXCEPT ![b] = connected']
      /\ inChan' = [inChan EXCEPT ![connected'] = first]
      /\ UNCHANGED <<closed, doing, requests>>
  BY ConnNumbers DEF Open, Conn
<1>2. DOMAIN client' = Browser /\ \A x \in Browser : client'[x] \in (1..connected') \cup {none}
  BY <1>1, ConnNumbers DEF ConnInv
<1>3. inChan' \in [Conn -> Seq(Req)]
  BY <1>1 DEF ConnInv
<1>4. \A c \in Conn : \A i \in DOMAIN inChan'[c] : Good(inChan'[c][i], requests, part) /\ inChan'[c][i].step \in Sent
  <2> TAKE c \in Conn
  <2>1. CASE c = connected'
    BY <1>1, <2>1 DEF ConnInv
  <2>2. CASE c # connected'
    BY <1>1, <2>2 DEF ConnInv
  <2> QED
    BY <2>1, <2>2
<1>5. closed' \subseteq 1..connected'
  BY <1>1, ConnNumbers DEF ConnInv
<1> QED
  BY <1>1, <1>2, <1>3, <1>4, <1>5 DEF ConnInv

LEMMA CloseConn ==
    ASSUME ConnInv, NEW b \in Browser, Close(b), part' = part
    PROVE  ConnInv' /\ doing' = doing /\ requests' = requests
<1>1. /\ client[b] \in 1..connected /\ closed' = closed \cup {client[b]}
      /\ client' = [client EXCEPT ![b] = none]
      /\ UNCHANGED <<connected, inChan, doing, requests>>
  BY DEF Close, ConnInv
<1>2. DOMAIN client' = Browser /\ \A x \in Browser : client'[x] \in (1..connected) \cup {none}
  BY <1>1 DEF ConnInv
<1> QED
  BY <1>1, <1>2 DEF ConnInv

LEMMA RequestConn ==
    ASSUME ConnInv, NEW b \in Browser, NEW type \in Sent, NEW todo \in Seq(Target),
           Request(b, type, todo), part' = part,
           type = "load" => part = "relay" /\ todo # << >>,
           type # "load" => part = "config"
    PROVE  ConnInv' /\ doing' = doing /\ requests' \in Nat /\ requests <= requests'
<1> DEFINE m == [step |-> type, id |-> requests', todo |-> todo]
           c == client[b]
<1>1. /\ c \in Conn /\ inChan' = [inChan EXCEPT ![c] = Append(inChan[c], m)]
      /\ UNCHANGED <<client, connected, closed, doing>>
      /\ requests' = requests + (IF todo = << >> THEN 1 ELSE Len(todo)) /\ requests' <= MaxRequest
  BY ConnNumbers DEF Request
<1>2. requests' \in Nat /\ requests < requests' /\ requests' \in 0..MaxRequest /\ requests \in Nat
  <2>1. todo # << >> => Len(todo) \in Nat \ {0}
    BY EmptySeq
  <2> QED
    BY <1>1, <2>1, ConnNumbers
<1>3. m \in Req /\ Good(m, requests', part) /\ m.step \in Sent
  BY <1>2 DEF Req, Steps, Sent, Relayed, Filed, Good
<1>4. \A x \in Req : Good(x, requests, part) => Good(x, requests', part)
  BY <1>2, GoodStays
<1>5. inChan[c] \in Seq(Req) /\ DOMAIN inChan = Conn
  BY <1>1 DEF ConnInv
<1> HIDE DEF m, c
<1>6. /\ Append(inChan[c], m) \in Seq(Req)
      /\ \A i \in DOMAIN Append(inChan[c], m) :
            Append(inChan[c], m)[i] = m \/ (i \in DOMAIN inChan[c] /\ Append(inChan[c], m)[i] = inChan[c][i])
  BY <1>3, <1>5
<1>7. inChan' \in [Conn -> Seq(Req)] /\ inChan'[c] = Append(inChan[c], m)
      /\ \A d \in Conn \ {c} : inChan'[d] = inChan[d]
  BY <1>1, <1>6 DEF ConnInv
<1>8. \A d \in Conn : \A i \in DOMAIN inChan[d] :
          inChan[d][i] \in Req /\ Good(inChan[d][i], requests', part) /\ inChan[d][i].step \in Sent
  <2> TAKE d \in Conn
  <2> TAKE i \in DOMAIN inChan[d]
  <2>1. inChan[d] \in Seq(Req)
    BY DEF ConnInv
  <2>2. inChan[d][i] \in Req
    BY <2>1
  <2> QED
    BY <1>4, <2>2 DEF ConnInv
<1>9. \A d \in Conn : \A i \in DOMAIN inChan'[d] : Good(inChan'[d][i], requests', part) /\ inChan'[d][i].step \in Sent
  <2> TAKE d \in Conn
  <2>1. CASE d = c
    BY <1>1, <1>3, <1>6, <1>7, <1>8, <2>1
  <2>2. CASE d # c
    BY <1>7, <1>8, <2>2
  <2> QED
    BY <2>1, <2>2
<1>10. \A d \in Conn : doing[d] \in Req /\ Good(doing[d], requests', part)
  BY <1>1, <1>4 DEF ConnInv
<1> QED
  BY <1>1, <1>2, <1>7, <1>9, <1>10 DEF ConnInv

LEMMA TakeConn ==
    ASSUME ConnInv, NEW c \in Conn, Take(c), part' = part
    PROVE  /\ ConnInv' /\ requests' = requests
           /\ doing' = [doing EXCEPT ![c] = Head(inChan[c])]
           /\ Head(inChan[c]) \in Req /\ Head(inChan[c]).step \in Sent
<1>1. /\ inChan[c] \in Seq(Req) /\ inChan[c] # << >> /\ DOMAIN inChan = Conn /\ DOMAIN doing = Conn
      /\ doing' = [doing EXCEPT ![c] = Head(inChan[c])]
      /\ inChan' = [inChan EXCEPT ![c] = Tail(inChan[c])]
      /\ UNCHANGED <<client, connected, closed, requests>>
  BY DEF Take, ConnInv
<1>2. /\ Head(inChan[c]) \in Req /\ Tail(inChan[c]) \in Seq(Req)
      /\ 1 \in DOMAIN inChan[c] /\ Head(inChan[c]) = inChan[c][1]
      /\ \A i \in DOMAIN Tail(inChan[c]) : i + 1 \in DOMAIN inChan[c] /\ Tail(inChan[c])[i] = inChan[c][i + 1]
  BY <1>1
<1>3. Good(Head(inChan[c]), requests, part) /\ Head(inChan[c]).step \in Sent
  BY <1>2 DEF ConnInv
<1>4. doing' \in [Conn -> Req] /\ \A d \in Conn : Good(doing'[d], requests, part)
  BY <1>1, <1>2, <1>3 DEF ConnInv
<1>5. inChan' \in [Conn -> Seq(Req)] /\ inChan'[c] = Tail(inChan[c]) /\ \A d \in Conn \ {c} : inChan'[d] = inChan[d]
  BY <1>1, <1>2 DEF ConnInv
<1>6. \A d \in Conn : \A i \in DOMAIN inChan'[d] : Good(inChan'[d][i], requests, part) /\ inChan'[d][i].step \in Sent
  <2> TAKE d \in Conn
  <2>1. CASE d = c
    BY <1>2, <1>5, <2>1 DEF ConnInv
  <2>2. CASE d # c
    BY <1>5, <2>2 DEF ConnInv
  <2> QED
    BY <2>1, <2>2
<1> QED
  BY <1>1, <1>2, <1>3, <1>4, <1>5, <1>6 DEF ConnInv

LEMMA ProceedConn ==
    ASSUME ConnInv, NEW c \in Conn, NEW next \in Req, Good(next, requests, part),
           Proceed(c, next), part' = part
    PROVE  /\ ConnInv' /\ requests' = requests
           /\ doing' = [doing EXCEPT ![c] = next]
<1>1. doing' = [doing EXCEPT ![c] = next] /\ UNCHANGED <<client, connected, closed, inChan, requests>>
  BY DEF Proceed
<1>2. doing' \in [Conn -> Req] /\ \A d \in Conn : Good(doing'[d], requests, part)
  BY <1>1 DEF ConnInv
<1> QED
  BY <1>1, <1>2 DEF ConnInv

LEMMA LoopEndsConn ==
    ASSUME ConnInv, NEW c \in Conn, LoopEnds(c), part' = part
    PROVE  /\ ConnInv' /\ requests' = requests
           /\ doing' = [doing EXCEPT ![c] = Over]
<1>1. doing[c] = Idle /\ Proceed(c, Over)
  BY DEF LoopEnds, Proceed
<1>2. Good(Over, requests, part) /\ Over \in Req
  BY ConnNumbers, IdleIsReq DEF Good, Over, Idle, Relayed, Filed
<1> QED
  BY <1>1, <1>2, ProceedConn

LEMMA IdleIsGood ==
    ASSUME ConnInv
    PROVE  Good(Idle, requests, part) /\ Idle \in Req
BY ConnNumbers, IdleIsReq DEF Good, Idle, Relayed, Filed

(***************************************************************************)
(* Each kind of request leaves the other kind's state alone.               *)
(***************************************************************************)

LEMMA RelayGrows ==
    ASSUME ConnInv, ClientInv, BufferInv, UNCHANGED <<clientVars, gameVars, answers>>,
           requests' \in Nat, requests <= requests'
    PROVE  ClientInv' /\ BufferInv'
<1>1. UNCHANGED <<serverConn, dialed, peer, status, outBuffer, inBuffer, tick, session, at, pipe,
                  luaCommands, commandResultChan, answers>>
  BY DEF clientVars, gameVars
<1>2. ClientInv'
  BY <1>1 DEF ClientInv
<1>3. requests \in Nat /\ 1..requests \subseteq 1..requests'
  BY ConnNumbers
<1>4. /\ Commands \subseteq Commands' /\ Commands \cup {none} \subseteq Commands' \cup {none}
      /\ \A t : CommandsTo(t) \subseteq (1..requests') \X {t}
  BY <1>3 DEF Commands, CommandsTo
<1>5. /\ Seq(Commands \cup {none}) \subseteq Seq(Commands' \cup {none})
      /\ \A t : Seq(CommandsTo(t)) \subseteq Seq((1..requests') \X {t})
  BY <1>4, SeqMonotonic
<1> QED
  BY <1>1, <1>2, <1>4, <1>5 DEF BufferInv, CommandsTo

LEMMA RelayFrame ==
    ASSUME ConnInv, ClientInv, BufferInv, part = "config", part' = part, UNCHANGED relayVars,
           requests' \in Nat, requests <= requests'
    PROVE  ClientInv' /\ BufferInv' /\ SerialInv'
BY RelayGrows DEF relayVars, SerialInv

LEMMA ConfigFrame ==
    ASSUME ConnInv, ConfigInv, FileInv, part = "relay", UNCHANGED configVars, part' = part,
           ConnInv', requests' \in Nat, requests <= requests'
    PROVE  ConfigInv' /\ FileInv'
<1>1. UNCHANGED <<config, dialog, lines, sheet, file, stored, overlapped>>
  BY DEF configVars, pageVars, fileVars
<1>2. Writing = {} /\ Writing' = {}
  BY DEF ConnInv, Good, Writing, Filed
<1>3. FileInv'
  BY <1>1, <1>2 DEF FileInv
<1>4. requests \in Nat /\ 1..requests \subseteq 1..requests' /\ 0..requests \subseteq 0..requests'
  BY ConnNumbers
<1>5. Seq(1..requests) \subseteq Seq(1..requests')
  BY <1>4, SeqMonotonic
<1> QED
  BY <1>1, <1>3, <1>4, <1>5 DEF ConfigInv

(***************************************************************************)
(* The export pages and the configuration file                             *)
(***************************************************************************)

LEMMA ConfigGrows ==
    ASSUME ConnInv, ConfigInv, requests' \in Nat, requests <= requests', UNCHANGED <<pageVars, fileVars>>
    PROVE  ConfigInv'
<1>1. requests \in Nat /\ 1..requests \subseteq 1..requests' /\ 0..requests \subseteq 0..requests'
  BY ConnNumbers
<1>2. Seq(1..requests) \subseteq Seq(1..requests')
  BY <1>1, SeqMonotonic
<1> QED
  BY <1>1, <1>2 DEF ConfigInv, pageVars, fileVars

\* Who is at the file, and the file, are the same.
LEMMA FileFrame ==
    ASSUME FileInv, UNCHANGED fileVars, Writing' = Writing
    PROVE  FileInv'
BY DEF FileInv, fileVars

LEMMA SameWriting ==
    ASSUME ConnInv, NEW c \in Conn, NEW next, doing' = [doing EXCEPT ![c] = next],
           doing[c].step # "write", next.step # "write"
    PROVE  Writing' = Writing
BY DEF Writing, ConnInv

LEMMA ReadConfigIsNumber ==
    ASSUME ConnInv, ConfigInv
    PROVE  ReadConfig \in 0..requests
<1>1. requests \in Nat /\ file \in Seq(1..requests)
  BY ConnNumbers DEF ConfigInv
<1>2. file # << >> => file[1] \in 1..requests
  BY <1>1, EmptySeq
<1>3. ReadConfig = 0 \/ (file # << >> /\ ReadConfig = file[1])
  BY DEF ReadConfig
<1> QED
  BY <1>1, <1>2, <1>3

\* What a page shows stays a configuration that has been submitted.
LEMMA MessageConfig ==
    ASSUME ConnInv, ConfigInv, NEW c \in Conn, NEW type, NEW value \in 0..requests,
           OnWebSocketMessage(c, type, value), requests' = requests,
           type \in {"exportTable", "findSheet"} => value # 0
    PROVE  /\ DOMAIN config' = Browser /\ \A b \in Browser : config'[b] \in (0..requests') \cup {none}
           /\ dialog' \subseteq Browser
           /\ DOMAIN lines' = Browser /\ \A b \in Browser : lines'[b] \in Seq(1..requests')
           /\ DOMAIN sheet' = Browser /\ \A b \in Browser : sheet'[b] \in (1..requests') \cup {none}
<1>1. type \in {"exportTable", "findSheet"} => value \in 1..requests
  BY ConnNumbers
<1>2. \A b \in Browser : lines[b] \in Seq(1..requests)
  BY DEF ConfigInv
<1>3. type = "exportTable" => \A b \in Browser : Append(lines[b], value) \in Seq(1..requests)
  BY <1>1, <1>2
<1> QED
  BY <1>1, <1>2, <1>3 DEF OnWebSocketMessage, ConfigInv

\* A handler that only reads the file and answers.
LEMMA ReadingHandler ==
    ASSUME ConnInv, ConfigInv, FileInv, NEW c \in Conn, NEW type, NEW value \in 0..requests,
           doing[c].step # "write", Proceed(c, Idle), OnWebSocketMessage(c, type, value),
           UNCHANGED fileVars, part' = part,
           type \in {"exportTable", "findSheet"} => value # 0
    PROVE  ConnInv' /\ ConfigInv' /\ FileInv' /\ requests' = requests
<1>1. ConnInv' /\ requests' = requests /\ doing' = [doing EXCEPT ![c] = Idle]
  BY IdleIsGood, ProceedConn
<1>2. FileInv'
  <2>1. Idle.step # "write"
    BY DEF Idle
  <2>2. Writing' = Writing
    BY <1>1, <2>1, SameWriting
  <2> QED
    BY <2>2, FileFrame
<1>3. ConfigInv'
  BY <1>1, MessageConfig DEF ConfigInv, fileVars
<1> QED
  BY <1>1, <1>2, <1>3

LEMMA PageStep ==
    ASSUME ConnInv, ConfigInv, FileInv, part = "config", part' = part, NEW b \in Browser,
           \/ PageOpened(b) \/ PageClosed(b) \/ ToggleDialog(b) \/ CloseConfirm(b)
           \/ OnSubmitConfig(b) \/ DoExportTable(b) \/ DoFindSheet(b)
    PROVE  ConnInv' /\ ConfigInv' /\ FileInv' /\ requests' \in Nat /\ requests <= requests'
<1>0. /\ requests \in Nat /\ << >> \in Seq(Target) /\ "setTableConfig" \in Sent /\ "exportTable" \in Sent
      /\ "findSheet" \in Sent /\ << >> \in Seq(1..requests) /\ none \notin Nat
  BY ConnNumbers, EmptySeq DEF Sent
<1>1. CASE PageOpened(b)
  <2> DEFINE m == [Idle EXCEPT !.step = "tableConfig"]
  <2>1. m \in Req /\ Good(m, requests, part) /\ m.step \in Sent
    BY IdleIsReq, <1>0 DEF Good, Idle, Relayed, Filed, Sent
  <2> HIDE DEF m
  <2>2. <<m>> \in Seq(Req) /\ \A i \in DOMAIN <<m>> : Good(<<m>>[i], requests, part) /\ <<m>>[i].step \in Sent
    BY <2>1
  <2>3. Open(b, <<m>>) /\ UNCHANGED <<pageVars, fileVars>>
    BY <1>1 DEF PageOpened, m
  <2>4. ConnInv' /\ doing' = doing /\ requests' = requests
    BY <2>2, <2>3, OpenConn
  <2> QED
    BY <2>3, <2>4, <1>0, ConfigGrows, FileFrame DEF Writing
<1>2. CASE PageClosed(b)
  <2>1. ConnInv' /\ doing' = doing /\ requests' = requests /\ UNCHANGED <<pageVars, fileVars>>
    BY <1>2, CloseConn DEF PageClosed
  <2> QED
    BY <2>1, <1>0, ConfigGrows, FileFrame DEF Writing
<1>3. CASE ToggleDialog(b)
  <2>1. UNCHANGED <<client, connected, closed, inChan, doing, requests>> /\ UNCHANGED fileVars
    BY <1>3 DEF ToggleDialog, connVars
  <2>2. ConnInv' /\ FileInv'
    BY <2>1, FileFrame DEF ConnInv, Writing
  <2> QED
    BY <1>0, <1>3, <2>1, <2>2 DEF ToggleDialog, ConfigInv, fileVars
<1>4. CASE CloseConfirm(b)
  <2>1. UNCHANGED <<client, connected, closed, inChan, doing, requests>> /\ UNCHANGED fileVars
    BY <1>4 DEF CloseConfirm, connVars
  <2>2. ConnInv' /\ FileInv'
    BY <2>1, FileFrame DEF ConnInv, Writing
  <2> QED
    BY <1>0, <1>4, <2>1, <2>2 DEF CloseConfirm, ConfigInv, fileVars
<1>5. CASE OnSubmitConfig(b) \/ DoFindSheet(b)
  <2>1. \E type \in {"setTableConfig", "findSheet"} : Request(b, type, << >>) /\ UNCHANGED <<pageVars, fileVars>>
    BY <1>5 DEF OnSubmitConfig, DoFindSheet
  <2>2. PICK type \in {"setTableConfig", "findSheet"} : Request(b, type, << >>) /\ UNCHANGED <<pageVars, fileVars>>
    BY <2>1
  <2>3. ConnInv' /\ doing' = doing /\ requests' \in Nat /\ requests <= requests'
    BY <2>2, <1>0, RequestConn
  <2> QED
    BY <2>2, <2>3, ConfigGrows, FileFrame DEF Writing
<1>6. CASE DoExportTable(b)
  <2>1. ConnInv' /\ doing' = doing /\ requests' \in Nat /\ requests <= requests'
    <3>1. CASE Request(b, "exportTable", << >>)
      BY <3>1, <1>0, RequestConn
    <3>2. CASE UNCHANGED connVars
      BY <3>2, <1>0 DEF connVars, ConnInv
    <3> QED
      BY <1>6, <3>1, <3>2 DEF DoExportTable
  <2>2. lines' = [lines EXCEPT ![b] = << >>] /\ UNCHANGED <<config, dialog, sheet, file, stored, overlapped>>
    BY <1>6 DEF DoExportTable, fileVars
  <2>3. 1..requests \subseteq 1..requests' /\ 0..requests \subseteq 0..requests'
    BY <1>0, <2>1
  <2>4. Seq(1..requests) \subseteq Seq(1..requests')
    BY <2>3, SeqMonotonic
  <2>5. ConfigInv'
    BY <1>0, <2>2, <2>3, <2>4 DEF ConfigInv
  <2>6. FileInv'
    BY <2>1, <2>2, FileFrame DEF Writing, fileVars
  <2> QED
    BY <2>1, <2>5, <2>6
<1> QED
  BY <1>1, <1>2, <1>3, <1>4, <1>5, <1>6

LEMMA TruncateStep ==
    ASSUME ConnInv, ConfigInv, FileInv, part' = part, NEW c \in Conn, Truncate(c)
    PROVE  ConnInv' /\ ConfigInv' /\ FileInv' /\ requests' = requests
<1> DEFINE m == [doing[c] EXCEPT !.step = "write"]
<1>1. doing[c] \in Req /\ Good(doing[c], requests, part) /\ doing[c].step = "setTableConfig"
  BY DEF Truncate, ConnInv
<1>2. m \in Req /\ Good(m, requests, part) /\ m.step = "write"
  BY <1>1 DEF Req, Steps, Filed, Relayed, Good
<1>3. Proceed(c, m)
  BY DEF Truncate
<1> HIDE DEF m
<1>4. ConnInv' /\ requests' = requests /\ doing' = [doing EXCEPT ![c] = m] /\ DOMAIN doing = Conn
  BY <1>2, <1>3, ProceedConn DEF ConnInv
<1>5. file' = << >> /\ overlapped' = (overlapped \/ Writing # {}) /\ UNCHANGED <<config, dialog, lines, sheet, stored>>
  BY DEF Truncate, pageVars
<1>6. << >> \in Seq(1..requests)
  BY EmptySeq
<1>7. ConfigInv'
  BY <1>4, <1>5, <1>6 DEF ConfigInv
<1>8. Writing = {} => Writing' = {c}
  BY <1>2, <1>4 DEF Writing
<1>9. FileInv'
  BY <1>5, <1>8 DEF FileInv
<1> QED
  BY <1>4, <1>7, <1>9

\* The file after a write is made of submitted configurations; an empty file gets just the
\* blocks written.
LEMMA WrittenFile ==
    ASSUME ConnInv, ConfigInv, NEW n \in 1..requests, NEW i \in Nat
    PROVE  /\ Written(n, i) \in Seq(1..requests)
           /\ file = << >> => Written(n, i) = [k \in 1..i |-> n]
<1> DEFINE w == IF i > Len(file) THEN i ELSE Len(file)
           f == [k \in 1..w |-> IF k <= i THEN n ELSE file[k]]
<1>1. file \in Seq(1..requests) /\ Len(file) \in Nat /\ \A k \in 1..Len(file) : file[k] \in 1..requests
  <2>1. file \in Seq(1..requests)
    BY DEF ConfigInv
  <2> QED
    BY <2>1, ElementOfSeq, LenProperties
<1>2. w \in Nat
  BY <1>1
<1>3. \A k \in 1..w : (IF k <= i THEN n ELSE file[k]) \in 1..requests
  BY <1>1
<1>4. f \in [1..w -> 1..requests]
  <2> HIDE DEF w
  <2> QED
    BY <1>3
<1>5. f \in Seq(1..requests)
  <2> HIDE DEF f, w
  <2> QED
    BY <1>2, <1>4, SeqDef
<1>6. file = << >> => f = [k \in 1..i |-> n]
  <2>1. file = << >> => w = i
    BY <1>1
  <2> QED
    BY <2>1
<1> QED
  BY <1>5, <1>6 DEF Written

\* A write, whole or failed.
LEMMA WriteStep ==
    ASSUME ConnInv, ConfigInv, FileInv, part' = part, NEW c \in Conn, WriteString(c) \/ WriteFails(c)
    PROVE  ConnInv' /\ ConfigInv' /\ FileInv' /\ requests' = requests
<1> DEFINE n == doing[c].id
<1>1. doing[c].step = "write" /\ Proceed(c, Idle) /\ overlapped' = overlapped
  BY DEF WriteString, WriteFails
<1>2. ConnInv' /\ requests' = requests /\ doing' = [doing EXCEPT ![c] = Idle] /\ DOMAIN doing = Conn
  BY <1>1, IdleIsGood, ProceedConn DEF ConnInv
<1>3. n \in 1..requests /\ requests \in Nat
  <2>1. doing[c] \in Req /\ Good(doing[c], requests, part)
    BY DEF ConnInv
  <2>2. n \in Nat /\ n <= requests /\ n > 0
    BY <1>1, <2>1 DEF Good, Filed, Req
  <2> HIDE DEF n
  <2> QED
    BY <2>2, ConnNumbers
<1>4. Size[n] \in Nat \ {0}
  <2>1. n \in 1..MaxRequest
    BY <1>3, ConnNumbers DEF ConnInv
  <2> QED
    BY <2>1, SizeAssumption
<1>5. PICK i \in Nat, type \in {"setTableConfig", "error"} :
         /\ file' = Written(n, i) /\ stored' \in {0, n} /\ (stored' = n => i = Size[n])
         /\ OnWebSocketMessage(c, type, 0)
  <2>1. CASE WriteString(c)
    BY <1>4, <2>1 DEF WriteString
  <2>2. CASE WriteFails(c)
    <3>1. PICK i \in 0..(Size[n] - 1) : file' = Written(n, i)
      BY <2>2 DEF WriteFails
    <3>2. i \in Nat /\ stored' = 0 /\ 0 # n
      BY <1>3, <1>4, <2>2, <3>1 DEF WriteFails
    <3>3. OnWebSocketMessage(c, "error", 0)
      BY <2>2 DEF WriteFails
    <3> QED
      BY <3>1, <3>2, <3>3
  <2> QED
    BY <2>1, <2>2
<1> HIDE DEF n
<1>6. Written(n, i) \in Seq(1..requests) /\ (file = << >> => Written(n, i) = [k \in 1..i |-> n])
  BY <1>3, <1>5, WrittenFile
<1>7. ConfigInv'
  <2>1. 0 \in 0..requests /\ stored' \in 0..requests /\ type \notin {"exportTable", "findSheet"}
    BY <1>3, <1>5
  <2>2. /\ DOMAIN config' = Browser /\ \A b \in Browser : config'[b] \in (0..requests') \cup {none}
        /\ dialog' \subseteq Browser
        /\ DOMAIN lines' = Browser /\ \A b \in Browser : lines'[b] \in Seq(1..requests')
        /\ DOMAIN sheet' = Browser /\ \A b \in Browser : sheet'[b] \in (1..requests') \cup {none}
    BY <1>2, <1>5, <2>1, MessageConfig
  <2>3. file' \in Seq(1..requests') /\ stored' \in 0..requests' /\ overlapped' \in BOOLEAN
    BY <1>1, <1>2, <1>5, <1>6, <2>1 DEF ConfigInv
  <2> QED
    BY <2>2, <2>3 DEF ConfigInv
<1>8. FileInv'
  <2> SUFFICES ASSUME ~overlapped PROVE FileInv'
    BY <1>1 DEF FileInv
  <2>1. c \in Writing /\ Writing = {c} /\ file = << >>
    BY <1>1 DEF Writing, FileInv
  <2>2. Idle.step # "write"
    BY DEF Idle
  <2>3. Writing' = {}
    BY <1>2, <2>1, <2>2 DEF Writing
  <2>4. stored' # 0 => file' = Whole(stored')
    BY <1>5, <1>6, <2>1 DEF Whole
  <2> QED
    BY <2>3, <2>4 DEF FileInv
<1> QED
  BY <1>2, <1>7, <1>8

LEMMA HandlerStep ==
    ASSUME ConnInv, ConfigInv, FileInv, part' = part, NEW c \in Conn,
           \/ (Take(c) \/ LoopEnds(c)) /\ UNCHANGED <<pageVars, fileVars>>
           \/ OnGetExportTableConfig(c) \/ SetRefused(c) \/ Truncate(c)
           \/ WriteString(c) \/ WriteFails(c) \/ OnExportTable(c) \/ OnFindSheet(c)
    PROVE  ConnInv' /\ ConfigInv' /\ FileInv' /\ requests' = requests
<1>0. requests \in Nat /\ ReadConfig \in 0..requests /\ 0 \in 0..requests
  BY ConnNumbers, ReadConfigIsNumber
<1>1. CASE Take(c) /\ UNCHANGED <<pageVars, fileVars>>
  <2>1. /\ ConnInv' /\ requests' = requests /\ doing' = [doing EXCEPT ![c] = Head(inChan[c])]
        /\ Head(inChan[c]).step # "write" /\ doing[c].step # "write"
    <3>1. doing[c].step # "write"
      BY <1>1 DEF Take, Idle
    <3> QED
      BY <1>1, <3>1, TakeConn DEF Sent
  <2>2. Writing' = Writing
    BY <2>1, SameWriting
  <2> QED
    BY <1>0, <1>1, <2>1, <2>2, ConfigGrows, FileFrame
<1>2. CASE LoopEnds(c) /\ UNCHANGED <<pageVars, fileVars>>
  <2>1. ConnInv' /\ requests' = requests /\ doing' = [doing EXCEPT ![c] = Over]
    BY <1>2, LoopEndsConn
  <2>2. doing[c].step # "write" /\ Over.step # "write"
    BY <1>2 DEF LoopEnds, Over, Idle
  <2>3. Writing' = Writing
    BY <2>1, <2>2, SameWriting
  <2> QED
    BY <1>0, <1>2, <2>1, <2>3, ConfigGrows, FileFrame
<1>3. CASE OnGetExportTableConfig(c) \/ SetRefused(c) \/ OnExportTable(c) \/ OnFindSheet(c)
  <2>1. \E type \in {"tableConfig", "error", "exportTable", "findSheet"}, value \in 0..requests :
           /\ doing[c].step # "write" /\ Proceed(c, Idle) /\ OnWebSocketMessage(c, type, value)
           /\ UNCHANGED fileVars
           /\ type \in {"exportTable", "findSheet"} => value # 0
    <3>1. CASE OnGetExportTableConfig(c)
      BY <1>0, <3>1 DEF OnGetExportTableConfig
    <3>2. CASE SetRefused(c)
      BY <1>0, <3>2 DEF SetRefused
    <3>3. CASE OnExportTable(c) \/ OnFindSheet(c)
      BY <1>0, <3>3 DEF OnExportTable, OnFindSheet, RunCommand
    <3> QED
      BY <1>3, <3>1, <3>2, <3>3
  <2> QED
    BY <2>1, ReadingHandler
<1> QED
  BY <1>1, <1>2, <1>3, TruncateStep, WriteStep

LEMMA ConfigStep ==
    ASSUME Inv, part = "config", ConfigNext, UNCHANGED <<relayVars, part>>
    PROVE  Inv'
<1>1. ConnInv' /\ ConfigInv' /\ FileInv' /\ requests' \in Nat /\ requests <= requests'
  <2>1. ASSUME NEW b \in Browser,
               \/ PageOpened(b) \/ PageClosed(b) \/ ToggleDialog(b) \/ CloseConfirm(b)
               \/ OnSubmitConfig(b) \/ DoExportTable(b) \/ DoFindSheet(b)
        PROVE  ConnInv' /\ ConfigInv' /\ FileInv' /\ requests' \in Nat /\ requests <= requests'
    BY <2>1, PageStep DEF Inv
  <2>2. ASSUME NEW c \in Conn,
               \/ (Take(c) \/ LoopEnds(c)) /\ UNCHANGED <<pageVars, fileVars>>
               \/ OnGetExportTableConfig(c) \/ SetRefused(c) \/ Truncate(c)
               \/ WriteString(c) \/ WriteFails(c) \/ OnExportTable(c) \/ OnFindSheet(c)
        PROVE  ConnInv' /\ ConfigInv' /\ FileInv' /\ requests' \in Nat /\ requests <= requests'
    <3>1. requests \in Nat
      BY ConnNumbers DEF Inv
    <3>2. ConnInv' /\ ConfigInv' /\ FileInv' /\ requests' = requests
      BY <2>2, HandlerStep DEF Inv
    <3> QED
      BY <3>1, <3>2
  <2> QED
    BY <2>1, <2>2 DEF ConfigNext
<1>2. ClientInv' /\ BufferInv' /\ SerialInv'
  BY <1>1, RelayFrame DEF Inv
<1>3. NoCommands' /\ ServerInv'
  BY DEF Inv, NoCommands, ServerInv, relayVars
<1> QED
  BY <1>1, <1>2, <1>3 DEF Inv

(***************************************************************************)
(* The relay: a step outside the handlers                                  *)
(***************************************************************************)

LEMMA ClientNumbers ==
    ASSUME ClientInv
    PROVE  /\ MaxDial \in Nat /\ dialed \in Nat /\ dialed <= MaxDial /\ 1..dialed \subseteq Client
           /\ none \notin Target /\ none \notin Nat \X Target
           /\ \A k \in Client : k \in Nat \ {0}
           /\ \A t \in Target : serverConn[t] # 0 => serverConn[t] \in 1..dialed
BY TargetsAssumption DEF ClientInv, Client

\* A handler on its way through the servers has a server, and a number.
LEMMA RelayedHas ==
    ASSUME ConnInv, NEW c \in Conn, doing[c].step \in Relayed
    PROVE  /\ doing[c] \in Req /\ part = "relay" /\ Good(doing[c], requests, part)
           /\ doing[c].id \in 1..requests /\ doing[c].id # 0
           /\ doing[c].todo \in Seq(Target) /\ doing[c].todo # << >>
           /\ Current(c) \in Target /\ <<doing[c].id, Current(c)>> \in Commands
<1>1. doing[c] \in Req /\ Good(doing[c], requests, part)
  BY DEF ConnInv
<1>2. /\ doing[c].id \in Nat /\ doing[c].id > 0 /\ doing[c].id <= requests /\ part = "relay"
      /\ doing[c].todo \in Seq(Target) /\ doing[c].todo # << >>
  BY <1>1 DEF Good, Req
<1>3. doing[c].id \in 1..requests
  BY <1>2, ConnNumbers
<1>4. Current(c) \in Target
  BY <1>2, HeadTailProperties DEF Current
<1> QED
  BY <1>1, <1>2, <1>3, <1>4 DEF Commands

\* Nobody waits beside a handler that has a command.
LEMMA HandlerAlone ==
    ASSUME ConnInv, SerialInv, part = "relay", ~disturbed, NEW c \in Conn, doing[c].step \in Relayed
    PROVE  \A d \in Conn \ {c} : doing[d].id = 0 /\ doing[d].step \notin Relayed
<1>1. doing[c].id # 0
  BY RelayedHas
<1> TAKE d \in Conn \ {c}
<1>2. doing[d].id = 0
  BY <1>1 DEF SerialInv
<1> QED
  BY <1>2, RelayedHas

\* Blocks of a result: none, one taken from the front, one more at the end.
LEMMA CopiesFacts ==
    ASSUME NEW q, NEW n \in Nat
    PROVE  /\ Copies(q, n) \in Seq({q}) /\ (Copies(q, n) = << >> <=> n = 0)
           /\ n # 0 => Head(Copies(q, n)) = q /\ Tail(Copies(q, n)) = Copies(q, n - 1)
           /\ Append(Copies(q, n), q) = Copies(q, n + 1)
<1>1. Copies(q, n) \in Seq({q}) /\ Len(Copies(q, n)) = n
  BY DEF Copies
<1>2. Copies(q, n) = << >> <=> n = 0
  BY <1>1 DEF Copies
<1>3. ASSUME n # 0 PROVE Head(Copies(q, n)) = q /\ Tail(Copies(q, n)) = Copies(q, n - 1)
  <2>1. Copies(q, n) # << >>
    BY <1>2, <1>3
  <2>2. Head(Copies(q, n)) = q
    BY <1>1, <2>1, HeadTailProperties
  <2>3. /\ Tail(Copies(q, n)) \in Seq({q}) /\ Len(Tail(Copies(q, n))) = n - 1
        /\ Copies(q, n - 1) \in Seq({q}) /\ Len(Copies(q, n - 1)) = n - 1 /\ n - 1 \in Nat
    BY <1>1, <1>3, <2>1, HeadTailProperties DEF Copies
  <2>4. \A k \in 1..(n - 1) : Tail(Copies(q, n))[k] = q /\ Copies(q, n - 1)[k] = q
    BY <2>3, ElementOfSeq
  <2> QED
    BY <2>2, <2>3, <2>4, SeqEqual
<1>4. Append(Copies(q, n), q) = Copies(q, n + 1)
  <2>1. /\ Append(Copies(q, n), q) \in Seq({q}) /\ Len(Append(Copies(q, n), q)) = n + 1
        /\ Copies(q, n + 1) \in Seq({q}) /\ Len(Copies(q, n + 1)) = n + 1 /\ n + 1 \in Nat
    BY <1>1, AppendProperties DEF Copies
  <2>2. \A k \in 1..(n + 1) : Append(Copies(q, n), q)[k] = q /\ Copies(q, n + 1)[k] = q
    BY <2>1, ElementOfSeq
  <2> QED
    BY <2>1, <2>2, SeqEqual
<1> QED
  BY <1>1, <1>2, <1>3, <1>4

\* The result of a command has at least one block, all of them its own.
LEMMA ResultFacts ==
    ASSUME ConnInv, NEW q \in Commands
    PROVE  /\ Pieces[q[1]] \in Nat \ {0} /\ Result(q) = Copies(q, Pieces[q[1]])
           /\ Result(q) \in Seq(Commands)
<1>1. q[1] \in 1..MaxRequest
  BY ConnNumbers DEF ConnInv, Commands
<1>2. Pieces[q[1]] \in Nat \ {0}
  BY <1>1, TargetsAssumption
<1>3. Result(q) = Copies(q, Pieces[q[1]])
  BY DEF Result, Copies
<1>4. Result(q) \in Seq({q}) /\ {q} \subseteq Commands
  BY <1>2, <1>3, CopiesFacts
<1> QED
  BY <1>2, <1>3, <1>4, SeqMonotonic

\* A step that leaves the handlers alone may move the one command there is.
LEMMA SerialMoves ==
    ASSUME ConnInv, ClientInv, SerialInv, part = "relay", part' = part,
           UNCHANGED <<doing, dialed, peer, serverConn, answers>>,
           ~disturbed' => ~disturbed,
           ~disturbed' => \A k \in 1..dialed : status'[k] \in {"connecting", "connected"},
           ~disturbed' /\ Quiet(Net) => Quiet(Net'),
           ~disturbed' =>
              \A k \in Client, t \in Target, q \in Commands :
                 serverConn[t] = k /\ peer[k] = t /\ InFlight(Net, k, t, q) => InFlight(Net', k, t, q)
    PROVE  SerialInv'
<1> SUFFICES ASSUME ~disturbed' PROVE SerialInv'
  BY DEF SerialInv
<1>1. ~disturbed
  OBVIOUS
<1>2. Waiting' = Waiting /\ \A c \in Conn : Current(c)' = Current(c)
  BY DEF Waiting, Current
<1>3. \A c \in Waiting :
         /\ serverConn[Current(c)] # 0
         /\ InFlight(Net', serverConn[Current(c)], Current(c), <<doing[c].id, Current(c)>>)
  <2> TAKE c \in Waiting
  <2>1. /\ serverConn[Current(c)] # 0
        /\ InFlight(Net, serverConn[Current(c)], Current(c), <<doing[c].id, Current(c)>>)
    BY <1>1 DEF SerialInv
  <2>2. Current(c) \in Target /\ <<doing[c].id, Current(c)>> \in Commands
    BY RelayedHas DEF Waiting, Relayed
  <2>3. serverConn[Current(c)] \in Client /\ peer[serverConn[Current(c)]] = Current(c)
    BY <2>1, <2>2, ClientNumbers DEF ClientInv
  <2> QED
    BY <2>1, <2>2, <2>3
<1>4. Waiting = {} => Quiet(Net')
  BY <1>1 DEF SerialInv
<1>5. /\ \A c, d \in Conn : doing[c].id # 0 /\ doing[d].id # 0 => c = d
      /\ \A k \in 1..dialed : serverConn[peer[k]] = k
      /\ \A c \in Conn : doing[c].step = "dial" => serverConn[Current(c)] = 0
      /\ \A a \in answers : a.data = Result(a.of)
  BY <1>1 DEF SerialInv
<1>6. \A c \in Waiting' :
         /\ serverConn'[Current(c)'] # 0
         /\ InFlight(Net', serverConn'[Current(c)'], Current(c)', <<doing'[c].id, Current(c)'>>)
  BY <1>2, <1>3 DEF Current
<1>7. \A c \in Conn : doing'[c].step = "dial" => serverConn'[Current(c)'] = 0
  BY <1>5 DEF Current
<1> QED
  BY <1>2, <1>4, <1>5, <1>6, <1>7 DEF SerialInv

LEMMA ConnFrame ==
    ASSUME ConnInv, UNCHANGED connVars, part' = part
    PROVE  ConnInv' /\ doing' = doing /\ requests' = requests /\ Commands' = Commands
BY DEF ConnInv, connVars, Commands

\* Connections come up, break and are read.
LEMMA DialledStep ==
    ASSUME ConnInv, ClientInv, BufferInv, SerialInv, part = "relay", part' = part,
           NEW k \in Client, Dialled(k)
    PROVE  ClientInv' /\ BufferInv' /\ SerialInv'
<1>1. /\ k <= dialed /\ status[k] = "connecting"
      /\ status' = [status EXCEPT ![k] = "connected"] \/ disturbed'
      /\ \E x \in {"connected", "disconnected"} : status' = [status EXCEPT ![k] = x]
      /\ UNCHANGED disturbed \/ disturbed'
      /\ UNCHANGED <<serverConn, dialed, peer, outBuffer, inBuffer, tick, session, at, pipe, luaCommands,
                     commandResultChan, answers, connVars>>
  BY DEF Dialled, gameVars
<1>2. doing' = doing /\ requests' = requests /\ Commands' = Commands
  BY <1>1, ConnFrame
<1>3. DOMAIN status = Client /\ DOMAIN status' = Client /\ \A j \in Client \ {k} : status'[j] = status[j]
  BY <1>1 DEF ClientInv
<1>4. ClientInv'
  BY <1>1, <1>3 DEF ClientInv
<1>5. BufferInv'
  BY <1>1, <1>2 DEF BufferInv, CommandsTo
<1>6. ASSUME ~disturbed'
      PROVE  /\ ~disturbed
             /\ \A j \in 1..dialed : status'[j] \in {"connecting", "connected"}
             /\ \A j \in Client : status[j] = "connected" => status'[j] = "connected"
  <2>1. ~disturbed /\ status' = [status EXCEPT ![k] = "connected"]
    BY <1>1, <1>6
  <2> QED
    BY <1>3, <2>1, ClientNumbers DEF SerialInv
<1>7. Quiet(Net) => Quiet(Net')
  BY <1>1 DEF Quiet, QuietClient, QuietServer, Net
<1>8. ASSUME ~disturbed', NEW j \in Client, NEW t \in Target, NEW q \in Commands, InFlight(Net, j, t, q)
      PROVE  InFlight(Net', j, t, q)
  BY <1>1, <1>6, <1>8 DEF InFlight, Way, QuietClient, QuietServer, Net
<1>9. SerialInv'
  BY <1>1, <1>2, <1>6, <1>7, <1>8, SerialMoves
<1> QED
  BY <1>4, <1>5, <1>9

LEMMA BreakStep ==
    ASSUME ConnInv, ClientInv, BufferInv, part = "relay", part' = part, NEW k \in Client, Break(k)
    PROVE  ClientInv' /\ BufferInv' /\ SerialInv'
<1>1. /\ status[k] = "connected" /\ status' = [status EXCEPT ![k] = "broken"]
      /\ session' = [session EXCEPT ![k] = << >>] /\ pipe' = [pipe EXCEPT ![k] = << >>] /\ disturbed'
      /\ UNCHANGED <<serverConn, dialed, peer, outBuffer, inBuffer, tick, at, luaCommands,
                     commandResultChan, answers>>
      /\ requests' = requests /\ Commands' = Commands
  BY ConnFrame DEF Break
<1>2. ClientInv'
  BY <1>1 DEF ClientInv
<1>3. /\ << >> \in Seq(CommandsTo(peer[k])) /\ CommandsTo(peer[k])' = CommandsTo(peer[k])
      /\ << >> \in Seq(Commands \cup {none})
  BY <1>1, EmptySeq DEF CommandsTo
<1>4. BufferInv'
  BY <1>1, <1>3 DEF BufferInv, CommandsTo
<1> QED
  BY <1>1, <1>2, <1>4 DEF SerialInv

LEMMA TickReadsStep ==
    ASSUME ConnInv, ClientInv, BufferInv, SerialInv, part = "relay", part' = part,
           NEW k \in Client, TickReads(k)
    PROVE  ClientInv' /\ BufferInv' /\ SerialInv'
<1>1. /\ inBuffer[k] # << >> /\ tick' = [client |-> k, step |-> "message"]
      /\ UNCHANGED <<serverConn, dialed, peer, status, outBuffer, inBuffer, session, at, pipe, luaCommands,
                     commandResultChan, answers, disturbed>>
      /\ doing' = doing /\ requests' = requests /\ Commands' = Commands
  BY ConnFrame DEF TickReads, gameVars
<1>2. ClientInv'
  BY <1>1 DEF ClientInv
<1>3. BufferInv'
  BY <1>1 DEF BufferInv, CommandsTo
<1>4. Net' = Net
  BY <1>1 DEF Net
<1>5. ~disturbed => \A j \in 1..dialed : status'[j] \in {"connecting", "connected"}
  BY <1>1 DEF SerialInv
<1>6. SerialInv'
  BY <1>1, <1>4, <1>5, SerialMoves
<1> QED
  BY <1>2, <1>3, <1>6

LEMMA TickRestStep ==
    ASSUME ConnInv, ClientInv, BufferInv, SerialInv, part = "relay", part' = part,
           NEW k \in Client, TickRest(k)
    PROVE  ClientInv' /\ BufferInv' /\ SerialInv'
<1>0. NoTick.step # "message"
  BY DEF NoTick
<1>1. /\ tick' = NoTick /\ (Flush(k) \/ DoDisconnect(k))
      /\ UNCHANGED <<dialed, peer, inBuffer, at, pipe, luaCommands, commandResultChan, answers, disturbed>>
      /\ doing' = doing /\ requests' = requests /\ Commands' = Commands
  BY ConnFrame DEF TickRest
<1>2. /\ DOMAIN session = Client /\ DOMAIN outBuffer = Client
      /\ session[k] \in Seq(CommandsTo(peer[k])) /\ outBuffer[k] \in Seq(CommandsTo(peer[k]))
      /\ << >> \in Seq(CommandsTo(peer[k]))
  BY EmptySeq DEF BufferInv
<1>3. CASE Flush(k)
  <2>1. /\ status[k] = "connected" /\ UNCHANGED <<serverConn, status>>
        /\ session' = [session EXCEPT ![k] = session[k] \o outBuffer[k]]
        /\ outBuffer' = [outBuffer EXCEPT ![k] = << >>]
    BY <1>3 DEF Flush
  <2>2. k <= dialed
    BY <2>1 DEF ClientInv
  <2>3. ClientInv'
    BY <1>0, <1>1, <2>1 DEF ClientInv
  <2>4. /\ DOMAIN session' = Client /\ DOMAIN outBuffer' = Client
        /\ session'[k] = session[k] \o outBuffer[k] /\ outBuffer'[k] = << >>
        /\ \A j \in Client \ {k} : session'[j] = session[j] /\ outBuffer'[j] = outBuffer[j]
    BY <1>2, <2>1
  <2>5. session[k] \o outBuffer[k] \in Seq(CommandsTo(peer[k]))
    BY <1>2, ConcatProperties
  <2>6. \A j \in Client : /\ outBuffer'[j] \in Seq(CommandsTo(peer[j])) /\ session'[j] \in Seq(CommandsTo(peer[j]))
                          /\ j > dialed => outBuffer'[j] = << >> /\ session'[j] = << >>
    <3> TAKE j \in Client
    <3>1. CASE j = k
      <4>1. ~(k > dialed)
        BY <2>2, ClientNumbers
      <4> QED
        BY <1>2, <2>4, <2>5, <3>1, <4>1
    <3>2. CASE j # k
      BY <2>4, <3>2 DEF BufferInv
    <3> QED
      BY <3>1, <3>2
  <2>7. BufferInv'
    BY <1>1, <2>4, <2>6 DEF BufferInv, CommandsTo
  <2>8. ~disturbed => \A j \in 1..dialed : status'[j] \in {"connecting", "connected"}
    BY <2>1 DEF SerialInv
  <2>9. Quiet(Net) => Quiet(Net')
    <3> SUFFICES ASSUME Quiet(Net) PROVE Quiet(Net')
      OBVIOUS
    <3>1. session[k] = << >> /\ outBuffer[k] = << >>
      BY DEF Quiet, QuietClient, Net
    <3>2. session'[k] = << >>
      BY <2>4, <3>1
    <3> QED
      BY <1>1, <2>4, <3>2 DEF Quiet, QuietClient, QuietServer, Net
  <2>10. ASSUME NEW c \in Client, NEW t \in Target, NEW q \in Commands, InFlight(Net, c, t, q)
         PROVE  InFlight(Net', c, t, q)
    <3>1. CASE c = k
      <4>1. PICK s \in Stage : Way(Net, k, t, q, s)
        BY <2>10, <3>1 DEF InFlight
      <4>2. /\ outBuffer[k] = IF s = "out" THEN <<q>> ELSE << >>
            /\ session[k] = IF s = "session" THEN <<q>> ELSE << >>
        BY <4>1 DEF Way, Net
      <4>3. session'[k] = IF s \in {"out", "session"} THEN <<q>> ELSE << >>
        BY <2>4, <4>2
      <4> DEFINE r == IF s = "out" THEN "session" ELSE s
      <4>4. r \in Stage /\ Way(Net', k, t, q, r)
        BY <1>1, <2>1, <2>4, <4>1, <4>3 DEF Way, Net, Stage
      <4>5. \A j \in Client \ {k} : QuietClient(Net', j)
        BY <1>1, <2>4, <2>10, <3>1 DEF InFlight, QuietClient, Net
      <4>6. \A u \in Target \ {t} : QuietServer(Net', u)
        BY <1>1, <2>10 DEF InFlight, QuietServer, Net
      <4> QED
        BY <3>1, <4>4, <4>5, <4>6 DEF InFlight
    <3>2. CASE c # k
      <4>1. session[k] = << >> /\ outBuffer[k] = << >>
        BY <2>10, <3>2 DEF InFlight, QuietClient, Net
      <4>2. session'[k] = << >>
        BY <2>4, <4>1
      <4>3. \A s \in Stage : Way(Net, c, t, q, s) => Way(Net', c, t, q, s)
        BY <1>1, <2>1, <2>4, <3>2 DEF Way, Net
      <4>4. \A j \in Client \ {c} : QuietClient(Net', j)
        BY <1>1, <2>4, <2>10, <3>2, <4>1, <4>2 DEF InFlight, QuietClient, Net
      <4>5. \A u \in Target \ {t} : QuietServer(Net', u)
        BY <1>1, <2>10 DEF InFlight, QuietServer, Net
      <4> QED
        BY <2>10, <4>3, <4>4, <4>5 DEF InFlight
    <3> QED
      BY <3>1, <3>2
  <2>11. SerialInv'
    BY <1>1, <2>1, <2>8, <2>9, <2>10, SerialMoves
  <2> QED
    BY <2>3, <2>7, <2>11
<1>4. CASE DoDisconnect(k)
  <2>1. /\ status[k] = "broken" /\ status' = [status EXCEPT ![k] = "disconnected"]
        /\ serverConn' = [serverConn EXCEPT ![peer[k]] = 0] /\ UNCHANGED <<session, outBuffer>>
    BY <1>4 DEF DoDisconnect
  <2>2. k <= dialed /\ peer[k] \in Target /\ k \in 1..dialed
    BY <2>1, ClientNumbers DEF ClientInv
  <2>3. ClientInv'
    BY <1>0, <1>1, <2>1, <2>2, ClientNumbers DEF ClientInv
  <2>4. BufferInv'
    BY <1>1, <2>1 DEF BufferInv, CommandsTo
  <2>5. disturbed
    BY <2>1, <2>2 DEF SerialInv
  <2> QED
    BY <1>1, <2>3, <2>4, <2>5 DEF SerialInv
<1> QED
  BY <1>1, <1>3, <1>4

\* The games
LEMMA SessionReadStep ==
    ASSUME ConnInv, ClientInv, BufferInv, SerialInv, part = "relay", part' = part,
           NEW k \in Client, SessionRead(k)
    PROVE  ClientInv' /\ BufferInv' /\ SerialInv'
<1> DEFINE p == peer[k]
           x == Head(session[k])
<1>1. /\ at[k] = none /\ session[k] # << >> /\ at' = [at EXCEPT ![k] = x]
      /\ session' = [session EXCEPT ![k] = Tail(session[k])]
      /\ luaCommands' = [luaCommands EXCEPT ![p] = Append(luaCommands[p], x)]
      /\ UNCHANGED <<serverConn, dialed, peer, status, outBuffer, inBuffer, tick, pipe, commandResultChan,
                     answers, disturbed>>
      /\ doing' = doing /\ requests' = requests /\ Commands' = Commands
  BY ConnFrame DEF SessionRead, clientVars
<1>2. k <= dialed /\ p \in Target
  <2>1. k <= dialed
    BY <1>1, ClientNumbers DEF BufferInv
  <2> QED
    BY <2>1 DEF ClientInv
<1>3. /\ session[k] \in Seq(CommandsTo(p)) /\ luaCommands[p] \in Seq(CommandsTo(p))
      /\ DOMAIN session = Client /\ DOMAIN at = Client /\ DOMAIN luaCommands = Target
  BY <1>2 DEF BufferInv
<1>4. x \in CommandsTo(p) /\ Tail(session[k]) \in Seq(CommandsTo(p)) /\ x \in Commands
  <2>1. x \in CommandsTo(p) /\ Tail(session[k]) \in Seq(CommandsTo(p))
    BY <1>1, <1>3, HeadTailProperties
  <2> QED
    BY <1>2, <2>1 DEF CommandsTo, Commands
<1>5. Append(luaCommands[p], x) \in Seq(CommandsTo(p))
  BY <1>3, <1>4, AppendProperties
<1>6. /\ DOMAIN session' = Client /\ DOMAIN at' = Client /\ DOMAIN luaCommands' = Target
      /\ session'[k] = Tail(session[k]) /\ at'[k] = x /\ luaCommands'[p] = Append(luaCommands[p], x)
      /\ \A j \in Client \ {k} : session'[j] = session[j] /\ at'[j] = at[j]
      /\ \A u \in Target \ {p} : luaCommands'[u] = luaCommands[u]
  <2> HIDE DEF x, p
  <2> QED
    BY <1>1, <1>2, <1>3
<1> HIDE DEF x
<1>7. ClientInv'
  BY <1>1 DEF ClientInv
<1>8. \A j \in Client : /\ session'[j] \in Seq(CommandsTo(peer[j]))
                        /\ j > dialed => session'[j] = << >>
                        /\ at'[j] # none => at'[j] \in Commands /\ j <= dialed
  <2> TAKE j \in Client
  <2>1. CASE j = k
    <3>1. ~(k > dialed)
      BY <1>2, ClientNumbers
    <3> QED
      BY <1>2, <1>4, <1>6, <2>1, <3>1
  <2>2. CASE j # k
    BY <1>6, <2>2 DEF BufferInv
  <2> QED
    BY <2>1, <2>2
<1>9. \A t \in Target : luaCommands'[t] \in Seq(CommandsTo(t))
  <2> TAKE t \in Target
  <2>1. CASE t = p
    BY <1>5, <1>6, <2>1
  <2>2. CASE t # p
    BY <1>6, <2>2 DEF BufferInv
  <2> QED
    BY <2>1, <2>2
<1>10. BufferInv'
  BY <1>1, <1>6, <1>8, <1>9 DEF BufferInv, CommandsTo
<1>11. ~disturbed => \A j \in 1..dialed : status'[j] \in {"connecting", "connected"}
  BY <1>1 DEF SerialInv
<1>12. ~Quiet(Net)
  BY <1>1 DEF Quiet, QuietClient, Net
<1>13. ASSUME NEW c \in Client, NEW t \in Target, NEW q \in Commands, InFlight(Net, c, t, q), peer[c] = t
       PROVE  InFlight(Net', c, t, q)
  <2>1. c = k /\ p = t
    BY <1>1, <1>13 DEF InFlight, QuietClient, Net
  <2>2. PICK s \in Stage : Way(Net, k, t, q, s)
    BY <1>13, <2>1 DEF InFlight
  <2>3. s = "session" /\ session[k] = <<q>> /\ luaCommands[t] = << >>
    BY <1>1, <2>2 DEF Way, Net
  <2>4. x = q /\ Tail(session[k]) = << >> /\ Append(luaCommands[t], x) = <<q>>
    BY <2>3 DEF x
  <2>5. session'[k] = << >> /\ at'[k] = q /\ luaCommands'[t] = <<q>>
    BY <1>6, <2>1, <2>4
  <2>6. "lua" \in Stage /\ Way(Net', k, t, q, "lua")
    BY <1>1, <2>2, <2>3, <2>5 DEF Way, Net, Stage
  <2>7. \A j \in Client \ {k} : QuietClient(Net', j)
    BY <1>1, <1>6, <1>13, <2>1 DEF InFlight, QuietClient, Net
  <2>8. \A u \in Target \ {t} : QuietServer(Net', u)
    BY <1>1, <1>6, <1>13, <2>1 DEF InFlight, QuietServer, Net
  <2> QED
    BY <2>1, <2>6, <2>7, <2>8 DEF InFlight
<1>14. SerialInv'
  BY <1>1, <1>11, <1>12, <1>13, SerialMoves
<1> QED
  BY <1>7, <1>10, <1>14

LEMMA RunStep ==
    ASSUME ConnInv, ClientInv, BufferInv, SerialInv, part = "relay", part' = part,
           NEW p \in Target, Run(p)
    PROVE  ClientInv' /\ BufferInv' /\ SerialInv'
<1> DEFINE x == Head(luaCommands[p])
<1>1. /\ luaCommands[p] # << >> /\ luaCommands' = [luaCommands EXCEPT ![p] = Tail(luaCommands[p])]
      /\ \/ commandResultChan' = [commandResultChan EXCEPT ![p] = Append(commandResultChan[p], x)]
         \/ commandResultChan' = commandResultChan
      /\ UNCHANGED <<serverConn, dialed, peer, status, outBuffer, inBuffer, tick, session, at, pipe, answers, disturbed>>
      /\ doing' = doing /\ requests' = requests /\ Commands' = Commands
  BY ConnFrame DEF Run, clientVars
<1>2. /\ luaCommands[p] \in Seq(CommandsTo(p)) /\ commandResultChan[p] \in Seq(CommandsTo(p))
      /\ DOMAIN luaCommands = Target /\ DOMAIN commandResultChan = Target
  BY DEF BufferInv
<1>3. x \in CommandsTo(p) /\ Tail(luaCommands[p]) \in Seq(CommandsTo(p))
  BY <1>1, <1>2, HeadTailProperties
<1>4. Append(commandResultChan[p], x) \in Seq(CommandsTo(p))
  BY <1>2, <1>3, AppendProperties
<1> HIDE DEF x
<1>5. /\ DOMAIN luaCommands' = Target /\ DOMAIN commandResultChan' = Target
      /\ luaCommands'[p] = Tail(luaCommands[p])
      /\ commandResultChan'[p] \in {commandResultChan[p], Append(commandResultChan[p], x)}
      /\ \A u \in Target \ {p} : luaCommands'[u] = luaCommands[u] /\ commandResultChan'[u] = commandResultChan[u]
  BY <1>1, <1>2
<1>6. ClientInv'
  BY <1>1 DEF ClientInv
<1>7. \A t \in Target : luaCommands'[t] \in Seq(CommandsTo(t)) /\ commandResultChan'[t] \in Seq(CommandsTo(t))
  <2> TAKE t \in Target
  <2>1. CASE t = p
    BY <1>2, <1>3, <1>4, <1>5, <2>1
  <2>2. CASE t # p
    BY <1>5, <2>2 DEF BufferInv
  <2> QED
    BY <2>1, <2>2
<1>8. BufferInv'
  BY <1>1, <1>5, <1>7 DEF BufferInv, CommandsTo
<1>9. ~disturbed => \A j \in 1..dialed : status'[j] \in {"connecting", "connected"}
  BY <1>1 DEF SerialInv
<1>10. ~Quiet(Net)
  BY <1>1 DEF Quiet, QuietServer, Net
<1>11. ASSUME NEW k \in Client, NEW t \in Target, NEW q \in Commands, InFlight(Net, k, t, q)
       PROVE  InFlight(Net', k, t, q)
  <2>1. p = t
    BY <1>1, <1>11 DEF InFlight, QuietServer, Net
  <2>2. PICK s \in Stage : Way(Net, k, t, q, s)
    BY <1>11 DEF InFlight
  <2>3. s = "lua" /\ luaCommands[t] = <<q>> /\ commandResultChan[t] = << >>
    BY <1>1, <2>1, <2>2 DEF Way, Net
  <2>4. x = q /\ Tail(luaCommands[t]) = << >> /\ Append(commandResultChan[t], x) = <<q>>
    BY <2>1, <2>3 DEF x
  <2>5. luaCommands'[t] = << >> /\ commandResultChan'[t] \in {<< >>, <<q>>}
    BY <1>5, <2>1, <2>3, <2>4
  <2>6. \E r \in Stage : Way(Net', k, t, q, r)
    <3>1. CASE commandResultChan'[t] = << >>
      <4>1. "lost" \in Stage /\ Way(Net', k, t, q, "lost")
        BY <1>1, <2>2, <2>3, <2>5, <3>1 DEF Way, Net, Stage
      <4> QED
        BY <4>1
    <3>2. CASE commandResultChan'[t] = <<q>>
      <4>1. "result" \in Stage /\ Way(Net', k, t, q, "result")
        BY <1>1, <2>2, <2>3, <2>5, <3>2 DEF Way, Net, Stage
      <4> QED
        BY <4>1
    <3> QED
      BY <2>5, <3>1, <3>2
  <2>7. \A j \in Client \ {k} : QuietClient(Net', j)
    BY <1>1, <1>11 DEF InFlight, QuietClient, Net
  <2>8. \A u \in Target \ {t} : QuietServer(Net', u)
    BY <1>1, <1>5, <1>11, <2>1 DEF InFlight, QuietServer, Net
  <2> QED
    BY <2>6, <2>7, <2>8 DEF InFlight
<1>12. SerialInv'
  BY <1>1, <1>9, <1>10, <1>11, SerialMoves
<1> QED
  BY <1>6, <1>8, <1>12

\* A session answers, with a result of its game or with a timeout.
LEMMA SessionWritesBuffers ==
    ASSUME ConnInv, ClientInv, BufferInv, NEW k \in Client, NEW d \in Seq(Commands \cup {none}),
           at[k] # none, SessionWrites(k, d), part' = part
    PROVE  /\ ClientInv'
           /\ DOMAIN at' = Client /\ DOMAIN pipe' = Client
           /\ at'[k] = none /\ \A j \in Client \ {k} : at'[j] = at[j] /\ pipe'[j] = pipe[j]
           /\ pipe'[k] = IF status[k] = "connected" THEN pipe[k] \o d ELSE pipe[k]
           /\ \A j \in Client : /\ pipe'[j] \in Seq(Commands \cup {none})
                                /\ at'[j] # none => at'[j] \in Commands /\ j <= dialed
<1>1. /\ at' = [at EXCEPT ![k] = none]
      /\ pipe' = IF status[k] = "connected" THEN [pipe EXCEPT ![k] = pipe[k] \o d] ELSE pipe
      /\ UNCHANGED <<serverConn, dialed, peer, status, inBuffer, tick>>
  BY DEF SessionWrites, clientVars
<1>2. DOMAIN at = Client /\ DOMAIN pipe = Client /\ pipe[k] \in Seq(Commands \cup {none})
  BY DEF BufferInv
<1>3. pipe[k] \o d \in Seq(Commands \cup {none})
  BY <1>2, ConcatProperties
<1>4. /\ DOMAIN at' = Client /\ DOMAIN pipe' = Client
      /\ at'[k] = none /\ \A j \in Client \ {k} : at'[j] = at[j] /\ pipe'[j] = pipe[j]
      /\ pipe'[k] = IF status[k] = "connected" THEN pipe[k] \o d ELSE pipe[k]
  BY <1>1, <1>2
<1>5. \A j \in Client : /\ pipe'[j] \in Seq(Commands \cup {none})
                        /\ at'[j] # none => at'[j] \in Commands /\ j <= dialed
  <2> TAKE j \in Client
  <2>1. CASE j = k
    BY <1>2, <1>3, <1>4, <2>1
  <2>2. CASE j # k
    BY <1>4, <2>2 DEF BufferInv
  <2> QED
    BY <2>1, <2>2
<1>6. ClientInv'
  BY <1>1 DEF ClientInv
<1> QED
  BY <1>4, <1>5, <1>6

LEMMA SessionTimeoutStep ==
    ASSUME ConnInv, ClientInv, BufferInv, part = "relay", part' = part,
           NEW k \in Client, SessionTimeout(k)
    PROVE  ClientInv' /\ BufferInv' /\ SerialInv'
<1>1. /\ at[k] # none /\ disturbed' /\ SessionWrites(k, <<none>>) /\ UNCHANGED commandResultChan
      /\ UNCHANGED <<session, luaCommands, serverConn, dialed, peer, status, outBuffer, inBuffer, tick, answers>>
      /\ requests' = requests /\ Commands' = Commands
  BY ConnFrame DEF SessionTimeout, SessionWrites, clientVars
<1>2. <<none>> \in Seq(Commands \cup {none})
  OBVIOUS
<1>3. /\ ClientInv' /\ DOMAIN at' = Client /\ DOMAIN pipe' = Client
      /\ \A j \in Client : /\ pipe'[j] \in Seq(Commands \cup {none})
                           /\ at'[j] # none => at'[j] \in Commands /\ j <= dialed
  BY <1>1, <1>2, SessionWritesBuffers
<1>4. BufferInv'
  BY <1>1, <1>3 DEF BufferInv, CommandsTo
<1> QED
  BY <1>1, <1>3, <1>4 DEF SerialInv

LEMMA SessionAnswerStep ==
    ASSUME ConnInv, ClientInv, BufferInv, SerialInv, part = "relay", part' = part,
           NEW k \in Client, SessionAnswer(k)
    PROVE  ClientInv' /\ BufferInv' /\ SerialInv'
<1> DEFINE p == peer[k]
           x == Head(commandResultChan[p])
<1>1. /\ at[k] # none /\ commandResultChan[p] # << >>
      /\ commandResultChan' = [commandResultChan EXCEPT ![p] = Tail(commandResultChan[p])]
      /\ SessionWrites(k, Result(x))
      /\ UNCHANGED <<session, luaCommands, serverConn, dialed, peer, status, outBuffer, inBuffer, tick,
                     answers, disturbed>>
      /\ doing' = doing /\ requests' = requests /\ Commands' = Commands
  BY ConnFrame DEF SessionAnswer, SessionWrites, clientVars
<1>2. k <= dialed /\ p \in Target
  BY <1>1 DEF BufferInv, ClientInv
<1>3. commandResultChan[p] \in Seq(CommandsTo(p)) /\ DOMAIN commandResultChan = Target
  BY <1>2 DEF BufferInv
<1>4. x \in CommandsTo(p) /\ Tail(commandResultChan[p]) \in Seq(CommandsTo(p)) /\ x \in Commands
  <2>1. x \in CommandsTo(p) /\ Tail(commandResultChan[p]) \in Seq(CommandsTo(p))
    BY <1>1, <1>3, HeadTailProperties
  <2> QED
    BY <1>2, <2>1 DEF CommandsTo, Commands
<1> HIDE DEF x
<1>4a. Result(x) \in Seq(Commands) /\ Result(x) \in Seq(Commands \cup {none})
  BY <1>4, ResultFacts, SeqMonotonic
<1>5. /\ ClientInv' /\ DOMAIN at' = Client /\ DOMAIN pipe' = Client
      /\ at'[k] = none /\ \A j \in Client \ {k} : at'[j] = at[j] /\ pipe'[j] = pipe[j]
      /\ pipe'[k] = IF status[k] = "connected" THEN pipe[k] \o Result(x) ELSE pipe[k]
      /\ \A j \in Client : /\ pipe'[j] \in Seq(Commands \cup {none})
                           /\ at'[j] # none => at'[j] \in Commands /\ j <= dialed
  BY <1>1, <1>4a, SessionWritesBuffers
<1>6. /\ DOMAIN commandResultChan' = Target /\ commandResultChan'[p] = Tail(commandResultChan[p])
      /\ \A u \in Target \ {p} : commandResultChan'[u] = commandResultChan[u]
  BY <1>1, <1>2, <1>3
<1>7. \A t \in Target : commandResultChan'[t] \in Seq(CommandsTo(t))
  <2> TAKE t \in Target
  <2>1. CASE t = p
    BY <1>4, <1>6, <2>1
  <2>2. CASE t # p
    BY <1>6, <2>2 DEF BufferInv
  <2> QED
    BY <2>1, <2>2
<1>8. BufferInv'
  BY <1>1, <1>5, <1>6, <1>7 DEF BufferInv, CommandsTo
<1>9. ~disturbed => \A j \in 1..dialed : status'[j] \in {"connecting", "connected"}
  BY <1>1 DEF SerialInv
<1>10. ~Quiet(Net)
  BY <1>1 DEF Quiet, QuietClient, Net
<1>11. ASSUME NEW c \in Client, NEW t \in Target, NEW q \in Commands, InFlight(Net, c, t, q), peer[c] = t
       PROVE  InFlight(Net', c, t, q)
  <2>1. c = k /\ p = t
    BY <1>1, <1>11 DEF InFlight, QuietClient, Net
  <2>2. PICK s \in Stage : Way(Net, k, t, q, s)
    BY <1>11, <2>1 DEF InFlight
  <2>3. /\ s = "result" /\ commandResultChan[t] = <<q>> /\ status[k] = "connected"
        /\ inBuffer[k] = << >> /\ pipe[k] = << >>
    BY <1>1, <2>1, <2>2 DEF Way, Net
  <2>4. x = q /\ Tail(commandResultChan[t]) = << >> /\ << >> \o Result(q) = Result(q)
    <3>1. Result(q) \in Seq(Commands)
      BY ResultFacts
    <3> QED
      BY <2>1, <2>3, <3>1, ConcatEmptySeq DEF x
  <2>5. /\ commandResultChan'[t] = << >> /\ at'[k] = none /\ pipe'[k] = Result(q)
        /\ inBuffer'[k] = << >>
    BY <1>1, <1>5, <1>6, <2>1, <2>3, <2>4
  <2>6. "in" \in Stage /\ Way(Net', k, t, q, "in")
    <3>1. Landed(inBuffer'[k], pipe'[k], q)
      <4>1. << >> = Copies(q, 0) /\ pipe'[k] = Copies(q, Pieces[q[1]]) /\ Pieces[q[1]] \in Nat
        BY <2>5, ResultFacts, CopiesFacts
      <4>2. 0 + Pieces[q[1]] = Pieces[q[1]] /\ 0 \in Nat
        BY <4>1
      <4> QED
        BY <2>5, <4>1, <4>2 DEF Landed
    <3> QED
      BY <1>1, <2>2, <2>3, <2>5, <3>1 DEF Way, Net, Stage
  <2>7. \A j \in Client \ {k} : QuietClient(Net', j)
    BY <1>1, <1>5, <1>11, <2>1 DEF InFlight, QuietClient, Net
  <2>8. \A u \in Target \ {t} : QuietServer(Net', u)
    BY <1>1, <1>6, <1>11, <2>1 DEF InFlight, QuietServer, Net
  <2> QED
    BY <2>1, <2>6, <2>7, <2>8 DEF InFlight
<1>12. SerialInv'
  BY <1>1, <1>9, <1>10, <1>11, SerialMoves
<1> QED
  BY <1>5, <1>8, <1>12

\* receive takes the next block.
LEMMA ReceiveStep ==
    ASSUME ConnInv, ClientInv, BufferInv, SerialInv, part = "relay", part' = part,
           NEW k \in Client, Receive(k)
    PROVE  ClientInv' /\ BufferInv' /\ SerialInv'
<1> DEFINE x == Head(pipe[k])
<1>1. /\ status[k] = "connected" /\ pipe[k] # << >> /\ Receives(k)
      /\ inBuffer' = [inBuffer EXCEPT ![k] = Append(inBuffer[k], x)]
      /\ pipe' = [pipe EXCEPT ![k] = Tail(pipe[k])]
      /\ UNCHANGED <<serverConn, dialed, peer, status, outBuffer, tick, session, at, luaCommands,
                     commandResultChan, answers, disturbed>>
      /\ doing' = doing /\ requests' = requests /\ Commands' = Commands
  BY ConnFrame DEF Receive
<1>2. /\ DOMAIN inBuffer = Client /\ DOMAIN pipe = Client
      /\ inBuffer[k] \in Seq(Commands \cup {none}) /\ pipe[k] \in Seq(Commands \cup {none})
  BY DEF BufferInv
<1>3. x \in Commands \cup {none} /\ Tail(pipe[k]) \in Seq(Commands \cup {none})
  BY <1>1, <1>2, HeadTailProperties
<1> HIDE DEF x
<1>4. Append(inBuffer[k], x) \in Seq(Commands \cup {none})
  BY <1>2, <1>3, AppendProperties
<1>5. /\ DOMAIN inBuffer' = Client /\ inBuffer'[k] = Append(inBuffer[k], x)
      /\ DOMAIN pipe' = Client /\ pipe'[k] = Tail(pipe[k])
      /\ \A j \in Client \ {k} : inBuffer'[j] = inBuffer[j] /\ pipe'[j] = pipe[j]
  BY <1>1, <1>2
<1>6. \A j \in Client : inBuffer'[j] \in Seq(Commands \cup {none}) /\ pipe'[j] \in Seq(Commands \cup {none})
  <2> TAKE j \in Client
  <2>1. CASE j = k
    BY <1>3, <1>4, <1>5, <2>1
  <2>2. CASE j # k
    BY <1>5, <2>2 DEF BufferInv
  <2> QED
    BY <2>1, <2>2
<1>7. BufferInv'
  BY <1>1, <1>5, <1>6 DEF BufferInv, CommandsTo
<1>8. ClientInv'
  <2>1. tick.step = "message" => tick.client \in Client \ {k}
    <3>1. NoTick.step # "message"
      BY DEF NoTick
    <3> QED
      BY <1>1, <3>1 DEF ClientInv, Receives
  <2>2. tick.step = "message" => inBuffer'[tick.client] # << >>
    BY <1>5, <2>1 DEF ClientInv
  <2> QED
    BY <1>1, <2>2 DEF ClientInv
<1>9. ~disturbed => \A j \in 1..dialed : status'[j] \in {"connecting", "connected"}
  BY <1>1 DEF SerialInv
<1>10. ~Quiet(Net)
  BY <1>1 DEF Quiet, QuietClient, Net
<1>11. ASSUME NEW c \in Client, NEW t \in Target, NEW q \in Commands, InFlight(Net, c, t, q)
       PROVE  InFlight(Net', c, t, q)
  <2>1. c = k
    BY <1>1, <1>11 DEF InFlight, QuietClient, Net
  <2>2. PICK s \in Stage : Way(Net, k, t, q, s)
    BY <1>11, <2>1 DEF InFlight
  <2>3. s = "in" /\ Landed(inBuffer[k], pipe[k], q)
    BY <1>1, <2>2 DEF Way, Net
  <2>4. Landed(inBuffer'[k], pipe'[k], q)
    <3>1. PICK i, j \in Nat : i + j = Pieces[q[1]] /\ inBuffer[k] = Copies(q, i) /\ pipe[k] = Copies(q, j)
      BY <2>3 DEF Landed
    <3>2. j # 0 /\ x = q /\ Tail(pipe[k]) = Copies(q, j - 1)
      BY <1>1, <3>1, CopiesFacts DEF x
    <3>3. Append(inBuffer[k], x) = Copies(q, i + 1)
      BY <3>1, <3>2, CopiesFacts
    <3>4. i + 1 \in Nat /\ j - 1 \in Nat /\ (i + 1) + (j - 1) = Pieces[q[1]]
      BY <3>1, <3>2
    <3> QED
      BY <1>5, <3>2, <3>3, <3>4 DEF Landed
  <2>5. Way(Net', k, t, q, "in")
    BY <1>1, <2>2, <2>3, <2>4 DEF Way, Net
  <2>6. \A j \in Client \ {k} : QuietClient(Net', j)
    BY <1>1, <1>5, <1>11, <2>1 DEF InFlight, QuietClient, Net
  <2>7. \A u \in Target \ {t} : QuietServer(Net', u)
    BY <1>1, <1>11 DEF InFlight, QuietServer, Net
  <2> QED
    BY <2>1, <2>3, <2>5, <2>6, <2>7 DEF InFlight
<1>12. SerialInv'
  BY <1>1, <1>9, <1>10, <1>11, SerialMoves
<1> QED
  BY <1>7, <1>8, <1>12

\* The crash of the admin server changes nothing else.
LEMMA TickPanicsStep ==
    ASSUME ConnInv, ClientInv, BufferInv, SerialInv, part = "relay", part' = part,
           NEW k \in Client, TickPanics(k)
    PROVE  ConnInv' /\ requests' = requests /\ ClientInv' /\ BufferInv' /\ SerialInv' /\ crashed'
<1>1. UNCHANGED <<clientVars, gameVars, answers, disturbed, connVars>> /\ crashed'
  BY DEF TickPanics
<1>2. ConnInv' /\ doing' = doing /\ requests' = requests
  BY <1>1, ConnFrame
<1>3. ClientInv' /\ BufferInv'
  BY <1>1, <1>2, ConnNumbers, RelayGrows
<1>4. UNCHANGED <<serverConn, dialed, peer, status>> /\ Net' = Net
  BY <1>1 DEF clientVars, gameVars, Net
<1>5. ~disturbed => \A j \in 1..dialed : status'[j] \in {"connecting", "connected"}
  BY <1>4 DEF SerialInv
<1>6. SerialInv'
  BY <1>1, <1>2, <1>4, <1>5, SerialMoves
<1> QED
  BY <1>1, <1>2, <1>3, <1>6

(***************************************************************************)
(* The relay: the handlers                                                 *)
(***************************************************************************)

\* A step of a handler to another step of the same command.
LEMMA StepsOn ==
    ASSUME ConnInv, NEW c \in Conn, doing[c].step \in Relayed, NEW s \in Relayed,
           Proceed(c, [doing[c] EXCEPT !.step = s]), part' = part
    PROVE  /\ ConnInv' /\ requests' = requests /\ Commands' = Commands
           /\ doing'[c].step = s /\ doing'[c].id = doing[c].id /\ doing'[c].todo = doing[c].todo
           /\ Current(c)' = Current(c) /\ \A d \in Conn \ {c} : doing'[d] = doing[d]
<1> DEFINE m == [doing[c] EXCEPT !.step = s]
<1>1. doing[c] \in Req /\ Good(doing[c], requests, part) /\ part = "relay"
  BY RelayedHas
<1>2. m \in Req /\ Good(m, requests, part) /\ m.step = s /\ m.id = doing[c].id /\ m.todo = doing[c].todo
  BY <1>1 DEF Req, Good, Steps, Relayed, Filed
<1>3. Proceed(c, m)
  OBVIOUS
<1> HIDE DEF m
<1>4. ConnInv' /\ requests' = requests /\ doing' = [doing EXCEPT ![c] = m]
  BY <1>2, <1>3, ProceedConn
<1>5. doing'[c] = m /\ \A d \in Conn \ {c} : doing'[d] = doing[d]
  BY <1>4 DEF ConnInv
<1> QED
  BY <1>2, <1>4, <1>5 DEF Commands, Current

\* A quiet relay, and a command just written to the client of its server.
Departed(n, o, k, q) ==
    /\ o.out[k] = <<q>> /\ \A j \in Client \ {k} : o.out[j] = n.out[j]
    /\ o.session = n.session /\ o.at = n.at /\ o.lua = n.lua /\ o.result = n.result
    /\ o.pipe = n.pipe /\ o.in = n.in

LEMMA Departs ==
    ASSUME NEW n, NEW o, NEW k \in Client, NEW t \in Target, NEW q, Quiet(n), Departed(n, o, k, q)
    PROVE  InFlight(o, k, t, q)
<1>1. Way(o, k, t, q, "out") /\ "out" \in Stage
  BY DEF Departed, Quiet, QuietClient, QuietServer, Way, Stage
<1> QED
  BY <1>1 DEF Departed, InFlight, Quiet, QuietClient, QuietServer

LEMMA LoadMissesStep ==
    ASSUME ConnInv, ClientInv, BufferInv, SerialInv, part' = part, NEW c \in Conn, LoadMisses(c)
    PROVE  ConnInv' /\ requests' = requests /\ ClientInv' /\ BufferInv' /\ SerialInv'
<1>1. /\ doing[c].step \in Relayed /\ "dial" \in Relayed /\ Proceed(c, [doing[c] EXCEPT !.step = "dial"])
      /\ serverConn[Current(c)] = 0 /\ UNCHANGED <<clientVars, gameVars, answers, disturbed>>
      /\ doing[c].step = "load"
  BY DEF LoadMisses, Relayed
<1>2. /\ ConnInv' /\ requests' = requests /\ doing'[c].step = "dial" /\ doing'[c].id = doing[c].id
      /\ Current(c)' = Current(c) /\ \A d \in Conn \ {c} : doing'[d] = doing[d]
  BY <1>1, StepsOn
<1>3. ClientInv' /\ BufferInv'
  BY <1>1, <1>2, ConnNumbers, RelayGrows
<1>4. SerialInv'
  <2> SUFFICES ASSUME ~disturbed, part = "relay" PROVE SerialInv'
    BY <1>1 DEF SerialInv
  <2>1. \A d \in Conn \ {c} : doing[d].id = 0 /\ doing[d].step \notin Relayed
    BY <1>1, HandlerAlone
  <2>2. Waiting = {} /\ Waiting' = {}
    BY <1>1, <1>2, <2>1 DEF Waiting, Relayed
  <2>3. /\ \A d, e \in Conn : doing'[d].id # 0 /\ doing'[e].id # 0 => d = e
        /\ \A d \in Conn : doing'[d].step = "dial" => d = c
    BY <1>2, <2>1 DEF Relayed
  <2>4. Net' = Net /\ UNCHANGED <<serverConn, dialed, peer, status, answers>>
    BY <1>1 DEF Net, clientVars, gameVars
  <2>5. /\ Quiet(Net) /\ \A a \in answers : a.data = Result(a.of)
        /\ \A k \in 1..dialed : serverConn[peer[k]] = k /\ status[k] \in {"connecting", "connected"}
    BY <2>2 DEF SerialInv
  <2>6. \A d \in Conn : doing'[d].step = "dial" => serverConn'[Current(d)'] = 0
    BY <1>1, <1>2, <2>3, <2>4
  <2> QED
    BY <2>2, <2>3, <2>4, <2>5, <2>6 DEF SerialInv
<1> QED
  BY <1>2, <1>3, <1>4

LEMMA LoadFindsStep ==
    ASSUME ConnInv, ClientInv, BufferInv, SerialInv, part' = part, NEW c \in Conn, LoadFinds(c)
    PROVE  ConnInv' /\ requests' = requests /\ ClientInv' /\ BufferInv' /\ SerialInv'
<1> DEFINE t == Current(c)
           k == serverConn[t]
           q == <<doing[c].id, t>>
<1>1. /\ doing[c].step \in Relayed /\ "wait" \in Relayed /\ Proceed(c, [doing[c] EXCEPT !.step = "wait"])
      /\ k # 0 /\ outBuffer' = [outBuffer EXCEPT ![k] = Append(outBuffer[k], q)]
      /\ UNCHANGED <<serverConn, dialed, peer, status, inBuffer, tick, session, at, pipe, luaCommands,
                     commandResultChan, answers, disturbed>>
      /\ doing[c].step = "load"
  BY DEF LoadFinds, WriteBuf, Relayed, gameVars
<1>2. /\ ConnInv' /\ requests' = requests /\ Commands' = Commands /\ doing'[c].step = "wait"
      /\ doing'[c].id = doing[c].id /\ Current(c)' = t /\ \A d \in Conn \ {c} : doing'[d] = doing[d]
  BY <1>1, StepsOn
<1>3. t \in Target /\ q \in Commands /\ k \in 1..dialed /\ k \in Client /\ peer[k] = t /\ q \in CommandsTo(t)
  <2>1. t \in Target /\ q \in Commands /\ doing[c].id \in 1..requests
    BY <1>1, RelayedHas
  <2>2. k \in 1..dialed /\ k \in Client /\ peer[k] = t
    BY <1>1, <2>1, ClientNumbers DEF ClientInv
  <2> QED
    BY <2>1, <2>2 DEF CommandsTo
<1> HIDE DEF k, q, t
<1>4. /\ DOMAIN outBuffer' = Client /\ outBuffer'[k] = Append(outBuffer[k], q)
      /\ \A j \in Client \ {k} : outBuffer'[j] = outBuffer[j]
  BY <1>1, <1>3 DEF BufferInv
<1>5. ClientInv'
  BY <1>1 DEF ClientInv
<1>6. \A j \in Client : outBuffer'[j] \in Seq(CommandsTo(peer[j])) /\ (j > dialed => outBuffer'[j] = << >>)
  <2> TAKE j \in Client
  <2>1. CASE j = k
    <3>1. outBuffer[k] \in Seq(CommandsTo(t))
      BY <1>3 DEF BufferInv
    <3>2. outBuffer'[k] \in Seq(CommandsTo(t))
      BY <1>3, <1>4, <3>1, AppendProperties
    <3>3. ~(k > dialed)
      BY <1>3, ClientNumbers
    <3> QED
      BY <1>3, <2>1, <3>2, <3>3
  <2>2. CASE j # k
    BY <1>4, <2>2 DEF BufferInv
  <2> QED
    BY <2>1, <2>2
<1>7. BufferInv'
  BY <1>1, <1>2, <1>4, <1>6 DEF BufferInv, CommandsTo
<1>8. SerialInv'
  <2> SUFFICES ASSUME ~disturbed, part = "relay" PROVE SerialInv'
    BY <1>1 DEF SerialInv
  <2>1. \A d \in Conn \ {c} : doing[d].id = 0 /\ doing[d].step \notin Relayed
    BY <1>1, HandlerAlone
  <2>2. Waiting = {} /\ Waiting' = {c}
    BY <1>1, <1>2, <2>1 DEF Waiting, Relayed
  <2>3. /\ \A d, e \in Conn : doing'[d].id # 0 /\ doing'[e].id # 0 => d = e
        /\ \A d \in Conn : doing'[d].step # "dial"
    BY <1>2, <2>1 DEF Relayed
  <2>4. /\ Quiet(Net) /\ \A a \in answers : a.data = Result(a.of)
        /\ \A j \in 1..dialed : serverConn[peer[j]] = j /\ status[j] \in {"connecting", "connected"}
    BY <2>2 DEF SerialInv
  <2>5. outBuffer'[k] = <<q>>
    <3>1. outBuffer[k] = << >>
      BY <1>3, <2>4 DEF Quiet, QuietClient, Net
    <3> QED
      BY <1>4, <3>1
  <2>6. InFlight(Net', k, t, q)
    <3>1. Departed(Net, Net', k, q)
      BY <1>1, <1>4, <2>5 DEF Net, Departed
    <3> QED
      BY <1>3, <2>4, <3>1, Departs
  <2>7. \A d \in Waiting' :
           /\ serverConn'[Current(d)'] # 0
           /\ InFlight(Net', serverConn'[Current(d)'], Current(d)', <<doing'[d].id, Current(d)'>>)
    <3> SUFFICES /\ serverConn'[Current(c)'] # 0
                 /\ InFlight(Net', serverConn'[Current(c)'], Current(c)', <<doing'[c].id, Current(c)'>>)
      BY <2>2
    <3>1. Current(c)' = t /\ serverConn'[t] = k /\ <<doing'[c].id, t>> = q
      BY <1>1, <1>2 DEF k, q
    <3> QED
      BY <1>1, <2>6, <3>1
  <2> QED
    BY <1>1, <2>2, <2>3, <2>4, <2>7 DEF SerialInv
<1> QED
  BY <1>2, <1>5, <1>7, <1>8

LEMMA DialStep ==
    ASSUME ConnInv, ClientInv, BufferInv, SerialInv, part' = part, NEW c \in Conn, Dial(c)
    PROVE  ConnInv' /\ requests' = requests /\ ClientInv' /\ BufferInv' /\ SerialInv'
<1> DEFINE t == Current(c)
           k == dialed + 1
           q == <<doing[c].id, t>>
<1>1. /\ doing[c].step \in Relayed /\ "wait" \in Relayed /\ Proceed(c, [doing[c] EXCEPT !.step = "wait"])
      /\ dialed < MaxDial /\ dialed' = k
      /\ peer' = [peer EXCEPT ![k] = t] /\ status' = [status EXCEPT ![k] = "connecting"]
      /\ serverConn' = [serverConn EXCEPT ![t] = k]
      /\ outBuffer' = [outBuffer EXCEPT ![k] = Append(outBuffer[k], q)]
      /\ UNCHANGED <<inBuffer, tick, session, at, pipe, luaCommands, commandResultChan, answers, disturbed>>
      /\ doing[c].step = "dial"
  BY DEF Dial, WriteBuf, Relayed, gameVars
<1>2. /\ ConnInv' /\ requests' = requests /\ Commands' = Commands /\ doing'[c].step = "wait"
      /\ doing'[c].id = doing[c].id /\ Current(c)' = t /\ \A d \in Conn \ {c} : doing'[d] = doing[d]
  BY <1>1, StepsOn
<1>3. t \in Target /\ q \in Commands /\ q \in CommandsTo(t)
  <2>1. t \in Target /\ q \in Commands /\ doing[c].id \in 1..requests
    BY <1>1, RelayedHas
  <2> QED
    BY <2>1 DEF CommandsTo
<1>4. /\ k \in Nat \ {0} /\ k \in Client /\ k > dialed /\ k \in 0..MaxDial /\ dialed \in Nat
      /\ \A j \in Client : j \in Nat /\ (j <= k <=> j = k \/ j <= dialed) /\ (j > k => j > dialed)
  BY <1>1, ClientNumbers DEF Client
<1>5. \A j \in 1..k : j = k \/ j \in 1..dialed
  BY <1>4
<1> HIDE DEF k, q, t
<1>6. /\ DOMAIN outBuffer' = Client /\ DOMAIN peer' = Client /\ DOMAIN status' = Client /\ DOMAIN serverConn' = Target
      /\ peer'[k] = t /\ status'[k] = "connecting" /\ serverConn'[t] = k /\ outBuffer'[k] = Append(outBuffer[k], q)
      /\ \A j \in Client \ {k} : peer'[j] = peer[j] /\ status'[j] = status[j] /\ outBuffer'[j] = outBuffer[j]
      /\ \A u \in Target \ {t} : serverConn'[u] = serverConn[u]
  BY <1>1, <1>3, <1>4 DEF BufferInv, ClientInv
<1>7. outBuffer[k] = << >> /\ session[k] = << >> /\ outBuffer'[k] = <<q>>
  <2>1. outBuffer[k] = << >> /\ session[k] = << >>
    BY <1>4 DEF BufferInv
  <2> QED
    BY <1>6, <2>1
<1>8. ClientInv'
  <2>1. \A u \in Target : serverConn'[u] \in 0..dialed'
    BY <1>1, <1>3, <1>4, <1>6 DEF ClientInv
  <2>2. \A j \in Client : j <= dialed' <=> peer'[j] \in Target
    BY <1>1, <1>3, <1>4, <1>6 DEF ClientInv
  <2>3. \A u \in Target : serverConn'[u] # 0 => peer'[serverConn'[u]] = u
    <3> TAKE u \in Target
    <3>1. CASE u = t
      BY <1>6, <3>1
    <3>2. CASE u # t
      <4>1. serverConn[u] # 0 => serverConn[u] \in Client \ {k} /\ peer[serverConn[u]] = u
        BY <1>4, ClientNumbers DEF ClientInv
      <4> QED
        BY <1>6, <3>2, <4>1
    <3> QED
      BY <3>1, <3>2
  <2>4. \A j \in Client : status'[j] \in {"connecting", "connected", "broken"} => j <= dialed'
    BY <1>1, <1>4, <1>6 DEF ClientInv
  <2> QED
    BY <1>1, <1>4, <1>6, <2>1, <2>2, <2>3, <2>4 DEF ClientInv
<1>9. \A j \in Client :
          /\ outBuffer'[j] \in Seq(CommandsTo(peer'[j])) /\ session[j] \in Seq(CommandsTo(peer'[j]))
          /\ j > k => outBuffer'[j] = << >> /\ session[j] = << >>
          /\ at[j] # none => at[j] \in Commands /\ j <= k
          /\ inBuffer[j] \in Seq(Commands \cup {none}) /\ pipe[j] \in Seq(Commands \cup {none})
  <2> TAKE j \in Client
  <2>1. at[j] # none => at[j] \in Commands /\ j <= k
    BY <1>4 DEF BufferInv
  <2>2. CASE j = k
    <3>1. << >> \in Seq(CommandsTo(t)) /\ <<q>> \in Seq(CommandsTo(t))
      BY <1>3
    <3>2. ~(k > k)
      BY <1>4
    <3> QED
      BY <1>6, <1>7, <2>1, <2>2, <3>1, <3>2 DEF BufferInv
  <2>3. CASE j # k
    BY <1>4, <1>6, <2>1, <2>3 DEF BufferInv
  <2> QED
    BY <2>2, <2>3
<1>10. BufferInv'
  BY <1>1, <1>2, <1>6, <1>9 DEF BufferInv, CommandsTo
<1>11. SerialInv'
  <2> SUFFICES ASSUME ~disturbed, part = "relay" PROVE SerialInv'
    BY <1>1 DEF SerialInv
  <2>1. \A d \in Conn \ {c} : doing[d].id = 0 /\ doing[d].step \notin Relayed
    BY <1>1, HandlerAlone
  <2>2. Waiting = {} /\ Waiting' = {c}
    BY <1>1, <1>2, <2>1 DEF Waiting, Relayed
  <2>3. /\ \A d, e \in Conn : doing'[d].id # 0 /\ doing'[e].id # 0 => d = e
        /\ \A d \in Conn : doing'[d].step # "dial"
    BY <1>2, <2>1 DEF Relayed
  <2>4. /\ Quiet(Net) /\ (\A a \in answers : a.data = Result(a.of)) /\ serverConn[t] = 0
        /\ \A j \in 1..dialed : serverConn[peer[j]] = j /\ status[j] \in {"connecting", "connected"}
    BY <1>1, <2>2 DEF SerialInv, t
  <2>5. \A j \in 1..dialed' : serverConn'[peer'[j]] = j /\ status'[j] \in {"connecting", "connected"}
    <3> TAKE j \in 1..dialed'
    <3>1. CASE j = k
      BY <1>6, <3>1
    <3>2. CASE j # k
      <4>1. j \in 1..dialed /\ j \in Client \ {k} /\ j # 0
        BY <1>1, <1>5, <3>2, ClientNumbers
      <4>2. peer[j] \in Target /\ peer[j] # t
        BY <2>4, <4>1 DEF ClientInv
      <4> QED
        BY <1>6, <2>4, <4>1, <4>2
    <3> QED
      BY <3>1, <3>2
  <2>6. InFlight(Net', k, t, q)
    <3>1. Departed(Net, Net', k, q)
      BY <1>1, <1>6, <1>7 DEF Net, Departed
    <3> QED
      BY <1>3, <1>4, <2>4, <3>1, Departs
  <2>7. \A d \in Waiting' :
           /\ serverConn'[Current(d)'] # 0
           /\ InFlight(Net', serverConn'[Current(d)'], Current(d)', <<doing'[d].id, Current(d)'>>)
    <3> SUFFICES /\ serverConn'[Current(c)'] # 0
                 /\ InFlight(Net', serverConn'[Current(c)'], Current(c)', <<doing'[c].id, Current(c)'>>)
      BY <2>2
    <3>1. Current(c)' = t /\ serverConn'[t] = k /\ <<doing'[c].id, t>> = q
      BY <1>2, <1>6 DEF q
    <3> QED
      BY <1>4, <2>6, <3>1
  <2> QED
    BY <1>1, <2>2, <2>3, <2>4, <2>5, <2>7 DEF SerialInv
<1> QED
  BY <1>2, <1>8, <1>10, <1>11

\* An answer: the handler goes on to the next server, or is done.
LEMMA AnswerConn ==
    ASSUME ConnInv, NEW c \in Conn, doing[c].step = "wait", NEW data, Answer(c, data), part' = part
    PROVE  /\ ConnInv' /\ requests' = requests /\ Commands' = Commands
           /\ answers' = answers \cup {[of |-> <<doing[c].id, Current(c)>>, data |-> data]}
           /\ doing'[c].step \in {"load", "idle"} /\ \A d \in Conn \ {c} : doing'[d] = doing[d]
<1> DEFINE left == Tail(doing[c].todo)
           m == IF left = << >> THEN Idle ELSE [doing[c] EXCEPT !.step = "load", !.todo = left]
<1>1. /\ doing[c] \in Req /\ Good(doing[c], requests, part) /\ part = "relay"
      /\ doing[c].todo \in Seq(Target) /\ doing[c].todo # << >> /\ doing[c].id # 0
  BY RelayedHas DEF Relayed
<1>2. left \in Seq(Target)
  BY <1>1, HeadTailProperties
<1>3. Proceed(c, m) /\ answers' = answers \cup {[of |-> <<doing[c].id, Current(c)>>, data |-> data]}
  BY DEF Answer
<1> HIDE DEF left
<1>4. m \in Req /\ Good(m, requests, part) /\ m.step \in {"load", "idle"}
  <2>1. CASE left = << >>
    <3>1. m = Idle /\ Idle.step = "idle"
      BY <2>1 DEF Idle
    <3> QED
      BY <3>1, IdleIsGood
  <2>2. CASE left # << >>
    <3> DEFINE w == [doing[c] EXCEPT !.step = "load", !.todo = left]
    <3>1. w \in Req /\ w.step = "load" /\ w.todo = left /\ w.id = doing[c].id
      BY <1>1, <1>2 DEF Req, Steps, Relayed
    <3>2. m = w
      BY <2>2
    <3> HIDE DEF w, m
    <3>3. doing[c].id <= requests /\ doing[c].id > 0
      BY <1>1 DEF Good, Relayed
    <3>4. Good(w, requests, part)
      BY <1>1, <2>2, <3>1, <3>3 DEF Good, Relayed, Filed
    <3> QED
      BY <3>1, <3>2, <3>4
  <2> QED
    BY <2>1, <2>2
<1> HIDE DEF m
<1>5. ConnInv' /\ requests' = requests /\ doing' = [doing EXCEPT ![c] = m]
  BY <1>3, <1>4, ProceedConn
<1>6. doing'[c] = m /\ \A d \in Conn \ {c} : doing'[d] = doing[d]
  BY <1>5 DEF ConnInv
<1> QED
  BY <1>3, <1>4, <1>5, <1>6 DEF Commands

LEMMA TimeoutStep ==
    ASSUME ConnInv, ClientInv, BufferInv, part' = part, NEW c \in Conn, Timeout(c)
    PROVE  ConnInv' /\ requests' = requests /\ ClientInv' /\ BufferInv' /\ SerialInv'
<1>1. doing[c].step = "wait" /\ Answer(c, << >>) /\ disturbed' /\ UNCHANGED <<clientVars, gameVars>>
  BY DEF Timeout
<1>2. /\ ConnInv' /\ requests' = requests /\ Commands' = Commands
      /\ answers' = answers \cup {[of |-> <<doing[c].id, Current(c)>>, data |-> << >>]}
  BY <1>1, AnswerConn
<1>3. <<doing[c].id, Current(c)>> \in Commands /\ << >> \in Seq(Commands \cup {none})
  BY <1>1, RelayedHas, EmptySeq DEF Relayed
<1>4. \A a \in answers' : a.of \in Commands /\ a.data \in Seq(Commands \cup {none})
  <2> TAKE a \in answers'
  <2>1. CASE a \in answers
    BY <2>1 DEF BufferInv
  <2>2. CASE a = [of |-> <<doing[c].id, Current(c)>>, data |-> << >>]
    <3>1. a.of = <<doing[c].id, Current(c)>> /\ a.data = << >>
      BY <2>2
    <3> QED
      BY <1>3, <3>1
  <2> QED
    BY <1>2, <2>1, <2>2
<1>5. ClientInv'
  BY <1>1 DEF ClientInv, clientVars
<1>6. BufferInv'
  BY <1>1, <1>2, <1>4 DEF BufferInv, clientVars, gameVars, CommandsTo
<1> QED
  BY <1>1, <1>2, <1>5, <1>6 DEF SerialInv

LEMMA OnMessageStep ==
    ASSUME ConnInv, ClientInv, BufferInv, SerialInv, part' = part, NEW c \in Conn, OnMessage(c)
    PROVE  ConnInv' /\ requests' = requests /\ ClientInv' /\ BufferInv' /\ SerialInv'
<1> DEFINE j == tick.client
           t == Current(c)
           k == serverConn[t]
           q == <<doing[c].id, t>>
<1>1. /\ tick.step = "message" /\ doing[c].step = "wait" /\ Answer(c, inBuffer[j])
      /\ inBuffer' = [inBuffer EXCEPT ![j] = << >>] /\ tick' = [tick EXCEPT !.step = "flush"]
      /\ UNCHANGED <<serverConn, dialed, peer, status, outBuffer, session, at, pipe, luaCommands,
                     commandResultChan>>
      /\ disturbed' = (disturbed \/ pipe[j] # << >>)
  BY DEF OnMessage, gameVars
<1>2. /\ ConnInv' /\ requests' = requests /\ Commands' = Commands
      /\ answers' = answers \cup {[of |-> q, data |-> inBuffer[j]]}
      /\ doing'[c].step \in {"load", "idle"} /\ \A d \in Conn \ {c} : doing'[d] = doing[d]
  BY <1>1, AnswerConn
<1>3. t \in Target /\ q \in Commands /\ part = "relay" /\ doing[c].step \in Relayed
  BY <1>1, RelayedHas DEF Relayed
<1>4. j \in Client /\ tick \in [client : Client, step : {"message", "flush"}] /\ inBuffer[j] # << >>
  <2>1. tick # NoTick
    BY <1>1 DEF NoTick
  <2> QED
    BY <1>1, <2>1 DEF ClientInv
<1>5. tick' \in [client : Client, step : {"message", "flush"}] /\ tick'.step # "message"
  BY <1>1, <1>4
<1> HIDE DEF j, q, k
<1>6. ClientInv'
  BY <1>1, <1>5 DEF ClientInv
<1>7. /\ inBuffer[j] \in Seq(Commands \cup {none}) /\ << >> \in Seq(Commands \cup {none})
      /\ DOMAIN inBuffer' = Client /\ inBuffer'[j] = << >> /\ \A i \in Client \ {j} : inBuffer'[i] = inBuffer[i]
  BY <1>1, <1>4, EmptySeq DEF BufferInv
<1>8. \A a \in answers' : a.of \in Commands /\ a.data \in Seq(Commands \cup {none})
  BY <1>2, <1>3, <1>7 DEF BufferInv
<1>9. \A i \in Client : inBuffer'[i] \in Seq(Commands \cup {none})
  BY <1>7 DEF BufferInv
<1>10. BufferInv'
  BY <1>1, <1>2, <1>7, <1>8, <1>9 DEF BufferInv, CommandsTo
<1>11. SerialInv'
  <2> SUFFICES ASSUME ~disturbed, pipe[j] = << >> PROVE SerialInv'
    BY <1>1 DEF SerialInv
  <2>1. \A d \in Conn \ {c} : doing[d].id = 0 /\ doing[d].step \notin Relayed
    BY <1>3, HandlerAlone
  <2>2. c \in Waiting /\ Waiting' = {}
    BY <1>1, <1>2, <2>1 DEF Waiting, Relayed
  <2>3. /\ \A d, e \in Conn : doing'[d].id # 0 /\ doing'[e].id # 0 => d = e
        /\ \A d \in Conn : doing'[d].step # "dial"
    BY <1>2, <2>1 DEF Relayed
  <2>4. /\ InFlight(Net, k, t, q) /\ \A a \in answers : a.data = Result(a.of)
        /\ \A i \in 1..dialed : serverConn[peer[i]] = i /\ status[i] \in {"connecting", "connected"}
    BY <1>3, <2>2 DEF SerialInv, k, q
  <2>5. j = k
    BY <1>4, <2>4 DEF InFlight, QuietClient, Net
  <2>6. PICK s \in Stage : Way(Net, k, t, q, s)
    BY <2>4 DEF InFlight
  <2>7. s = "in" /\ inBuffer[j] = Result(q)
    <3>1. s = "in" /\ Landed(inBuffer[k], << >>, q)
      BY <1>4, <2>5, <2>6 DEF Way, Net
    <3>2. PICK i, m \in Nat : i + m = Pieces[q[1]] /\ inBuffer[k] = Copies(q, i) /\ << >> = Copies(q, m)
      BY <3>1 DEF Landed
    <3>3. m = 0 /\ Pieces[q[1]] \in Nat /\ Result(q) = Copies(q, Pieces[q[1]])
      BY <1>3, <3>2, CopiesFacts, ResultFacts
    <3>4. i = Pieces[q[1]]
      BY <3>2, <3>3
    <3> QED
      BY <2>5, <3>1, <3>2, <3>3, <3>4
  <2>8. /\ outBuffer[k] = << >> /\ session[k] = << >> /\ at[k] = none
        /\ luaCommands[t] = << >> /\ commandResultChan[t] = << >>
    BY <2>6, <2>7 DEF Way, Net
  <2>9. Quiet(Net')
    BY <1>1, <1>7, <2>4, <2>5, <2>8 DEF InFlight, Quiet, QuietClient, QuietServer, Net
  <2>10. \A a \in answers' : a.data = Result(a.of)
    BY <1>2, <2>4, <2>7
  <2> QED
    BY <1>1, <2>2, <2>3, <2>4, <2>9, <2>10 DEF SerialInv
<1> QED
  BY <1>2, <1>6, <1>10, <1>11

\* Pages come and go and send commands.
LEMMA PageRelayStep ==
    ASSUME ConnInv, ClientInv, BufferInv, SerialInv, part = "relay", part' = part, NEW b \in Browser,
           RelayOpened(b) \/ RelayClosed(b) \/ Command(b)
    PROVE  /\ ConnInv' /\ requests' \in Nat /\ requests <= requests'
           /\ ClientInv' /\ BufferInv' /\ SerialInv'
<1>1. ConnInv' /\ doing' = doing /\ requests' \in Nat /\ requests <= requests'
  <2>0. requests \in Nat
    BY ConnNumbers
  <2>1. CASE RelayOpened(b)
    <3>1. << >> \in Seq(Req) /\ DOMAIN << >> = {}
      BY EmptySeq
    <3>2. \A i \in DOMAIN << >> : Good(<< >>[i], requests, part) /\ << >>[i].step \in Sent
      BY <3>1
    <3>3. ConnInv' /\ doing' = doing /\ requests' = requests
      BY <2>1, <3>1, <3>2, OpenConn DEF RelayOpened
    <3> QED
      BY <2>0, <3>3
  <2>2. CASE RelayClosed(b)
    BY <2>0, <2>2, CloseConn DEF RelayClosed
  <2>3. CASE Command(b)
    <3>1. "load" \in Sent /\ Targets \in Seq(Target)
      BY TargetsAssumption DEF Sent
    <3>2. \E todo \in Seq(Target) : todo # << >> /\ Request(b, "load", todo)
      <4>1. CASE \E t \in Target : Request(b, "load", <<t>>)
        <5>1. PICK t \in Target : Request(b, "load", <<t>>)
          BY <4>1
        <5>2. <<t>> \in Seq(Target) /\ <<t>> # << >>
          OBVIOUS
        <5> QED
          BY <5>1, <5>2
      <4>2. CASE Len(Targets) > 1 /\ Request(b, "load", Targets)
        <5>1. Targets # << >>
          BY <4>2
        <5> QED
          BY <3>1, <4>2, <5>1
      <4> QED
        BY <2>3, <4>1, <4>2 DEF Command
    <3> QED
      BY <3>1, <3>2, RequestConn
  <2> QED
    BY <2>1, <2>2, <2>3
<1>2. UNCHANGED <<clientVars, gameVars, answers, disturbed>>
  BY DEF RelayOpened, RelayClosed, Command
<1>3. ClientInv' /\ BufferInv'
  BY <1>1, <1>2, RelayGrows
<1>4. UNCHANGED <<serverConn, dialed, peer, status>> /\ Net' = Net
  BY <1>2 DEF clientVars, gameVars, Net
<1>5. ~disturbed => \A k \in 1..dialed : status'[k] \in {"connecting", "connected"}
  BY <1>4 DEF SerialInv
<1>6. SerialInv'
  BY <1>1, <1>2, <1>4, <1>5, SerialMoves
<1> QED
  BY <1>1, <1>3, <1>6

\* The goroutine of a closed connection ends; a request is taken from the queue.
LEMMA EndsOrTakesStep ==
    ASSUME ConnInv, ClientInv, BufferInv, SerialInv, part = "relay", part' = part, NEW c \in Conn,
           (LoopEnds(c) /\ UNCHANGED <<clientVars, gameVars, answers, disturbed>>) \/ RelayTake(c)
    PROVE  ConnInv' /\ requests' = requests /\ ClientInv' /\ BufferInv' /\ SerialInv'
<1>1. /\ UNCHANGED <<clientVars, gameVars, answers>>
      /\ ~disturbed' => ~disturbed
      /\ doing[c] = Idle /\ doing[c].step = "idle" /\ doing[c].id = 0
  <2>1. Idle.step = "idle" /\ Idle.id = 0
    BY DEF Idle
  <2>2. doing[c] = Idle /\ UNCHANGED <<clientVars, gameVars, answers>>
    BY DEF LoopEnds, RelayTake, Take
  <2>3. ~disturbed' => ~disturbed
    BY Zenon DEF RelayTake
  <2> QED
    BY <2>1, <2>2, <2>3
<1>2. PICK next \in Req :
         /\ ConnInv' /\ requests' = requests /\ doing' = [doing EXCEPT ![c] = next]
         /\ next.step \notin {"dial", "wait"}
         /\ ~disturbed' => (next.id = 0 \/ \A d \in Conn : doing[d].id = 0)
  <2>1. CASE LoopEnds(c)
    <3>1. ConnInv' /\ requests' = requests /\ doing' = [doing EXCEPT ![c] = Over]
      BY <2>1, LoopEndsConn
    <3>2. Over \in Req /\ Over.step \notin {"dial", "wait"} /\ Over.id = 0
      BY IdleIsReq DEF Over, Idle
    <3> QED
      BY <3>1, <3>2
  <2>2. CASE RelayTake(c)
    <3>1. /\ ConnInv' /\ requests' = requests /\ doing' = [doing EXCEPT ![c] = Head(inChan[c])]
          /\ Head(inChan[c]) \in Req /\ Head(inChan[c]).step \in Sent
      BY <2>2, TakeConn DEF RelayTake
    <3>2. ~disturbed' => \A d \in Conn : doing[d].id = 0
      BY <2>2 DEF RelayTake
    <3> QED
      BY <3>1, <3>2 DEF Sent
  <2> QED
    BY <2>1, <2>2
<1>3. ClientInv' /\ BufferInv'
  BY <1>1, <1>2, ConnNumbers, RelayGrows
<1>4. doing'[c] = next /\ \A d \in Conn \ {c} : doing'[d] = doing[d]
  BY <1>2 DEF ConnInv
<1>5. SerialInv'
  <2> SUFFICES ASSUME ~disturbed' PROVE SerialInv'
    BY DEF SerialInv
  <2>1. ~disturbed
    BY <1>1
  <2>2. Net' = Net /\ UNCHANGED <<serverConn, dialed, peer, status, answers>>
    BY <1>1 DEF clientVars, gameVars, Net
  <2>3. Waiting' = Waiting /\ c \notin Waiting
    BY <1>1, <1>2, <1>4 DEF Waiting
  <2>4. \A d, e \in Conn : doing'[d].id # 0 /\ doing'[e].id # 0 => d = e
    BY <1>2, <1>4, <2>1 DEF SerialInv
  <2>5. \A d \in Conn \ {c} : Current(d)' = Current(d)
    BY <1>4 DEF Current
  <2>6. \A d \in Conn : doing'[d].step = "dial" => serverConn'[Current(d)'] = 0
    BY <1>2, <1>4, <2>1, <2>2, <2>5 DEF SerialInv
  <2>7. \A d \in Waiting' :
           /\ serverConn'[Current(d)'] # 0
           /\ InFlight(Net', serverConn'[Current(d)'], Current(d)', <<doing'[d].id, Current(d)'>>)
    <3> TAKE d \in Waiting'
    <3>1. d \in Waiting /\ d \in Conn \ {c}
      BY <2>3 DEF Waiting
    <3>2. /\ serverConn[Current(d)] # 0
          /\ InFlight(Net, serverConn[Current(d)], Current(d), <<doing[d].id, Current(d)>>)
      BY <2>1, <3>1 DEF SerialInv
    <3>3. Current(d)' = Current(d) /\ doing'[d] = doing[d]
      BY <1>4, <2>5, <3>1
    <3> QED
      BY <2>2, <3>2, <3>3
  <2>8. /\ Waiting = {} => Quiet(Net)
        /\ \A a \in answers : a.data = Result(a.of)
        /\ \A k \in 1..dialed : serverConn[peer[k]] = k /\ status[k] \in {"connecting", "connected"}
    BY <2>1 DEF SerialInv
  <2> QED
    BY <2>2, <2>3, <2>4, <2>6, <2>7, <2>8 DEF SerialInv
<1> QED
  BY <1>2, <1>3, <1>5

LEMMA RelayStep ==
    ASSUME Inv, part = "relay", RelayNext, UNCHANGED <<configVars, part>>
    PROVE  Inv'
<1>1. ConnInv /\ ClientInv /\ BufferInv /\ SerialInv /\ requests \in Nat
  BY ConnNumbers DEF Inv
<1>2. ConnInv' /\ requests' \in Nat /\ requests <= requests' /\ ClientInv' /\ BufferInv' /\ SerialInv'
  <2>1. ASSUME NEW b \in Browser, RelayOpened(b) \/ RelayClosed(b) \/ Command(b)
        PROVE  ConnInv' /\ requests' \in Nat /\ requests <= requests' /\ ClientInv' /\ BufferInv' /\ SerialInv'
    BY <1>1, <2>1, PageRelayStep
  <2>2. ASSUME NEW c \in Conn,
               \/ LoopEnds(c) /\ UNCHANGED <<clientVars, gameVars, answers, disturbed>>
               \/ RelayTake(c) \/ LoadFinds(c) \/ LoadMisses(c) \/ Dial(c) \/ Timeout(c) \/ OnMessage(c)
        PROVE  ConnInv' /\ requests' \in Nat /\ requests <= requests' /\ ClientInv' /\ BufferInv' /\ SerialInv'
    <3>1. ConnInv' /\ requests' = requests /\ ClientInv' /\ BufferInv' /\ SerialInv'
      BY <1>1, <2>2, EndsOrTakesStep, LoadFindsStep, LoadMissesStep, DialStep, TimeoutStep, OnMessageStep
    <3> QED
      BY <1>1, <3>1
  <2>3. ASSUME NEW k \in Client,
               \/ Dialled(k) \/ Break(k) \/ TickReads(k) \/ TickRest(k) \/ Receive(k)
               \/ SessionRead(k) \/ SessionAnswer(k) \/ SessionTimeout(k)
        PROVE  ConnInv' /\ requests' \in Nat /\ requests <= requests' /\ ClientInv' /\ BufferInv' /\ SerialInv'
    <3>1. UNCHANGED connVars
      BY <2>3 DEF Dialled, Break, TickReads, TickRest, Receive, SessionRead, SessionAnswer,
         SessionTimeout, SessionWrites
    <3>2. ConnInv' /\ requests' = requests
      BY <1>1, <3>1, ConnFrame
    <3>3. ClientInv' /\ BufferInv' /\ SerialInv'
      BY <1>1, <2>3, DialledStep, BreakStep, TickReadsStep, TickRestStep, ReceiveStep, SessionReadStep,
         SessionAnswerStep, SessionTimeoutStep
    <3> QED
      BY <1>1, <3>2, <3>3
  <2>4. ASSUME NEW t \in Target, Run(t)
        PROVE  ConnInv' /\ requests' \in Nat /\ requests <= requests' /\ ClientInv' /\ BufferInv' /\ SerialInv'
    <3>1. UNCHANGED connVars
      BY <2>4 DEF Run
    <3>2. ConnInv' /\ requests' = requests
      BY <1>1, <3>1, ConnFrame
    <3> QED
      BY <1>1, <2>4, <3>2, RunStep
  <2>5. ASSUME NEW k \in Client, TickPanics(k)
        PROVE  ConnInv' /\ requests' \in Nat /\ requests <= requests' /\ ClientInv' /\ BufferInv' /\ SerialInv'
    BY <1>1, <2>5, TickPanicsStep
  <2> QED
    BY <2>1, <2>2, <2>3, <2>4, <2>5 DEF RelayNext, RelayMoves
<1>3. ConfigInv' /\ FileInv'
  BY <1>2, ConfigFrame DEF Inv
<1>4. NoCommands' /\ ServerInv'
  BY DEF Inv, NoCommands, ServerInv, RelayNext, TickPanics
<1> QED
  BY <1>2, <1>3, <1>4 DEF Inv

(***************************************************************************)
(* The theorems                                                            *)
(***************************************************************************)

LEMMA InitInv == Init => Inv
<1> SUFFICES ASSUME Init PROVE Inv
  OBVIOUS
<1>1. ConnInv
  <2>1. MaxConn \in Nat /\ MaxRequest \in Nat
    BY ConnAssumption
  <2>2. << >> \in Seq(Req) /\ DOMAIN << >> = {}
    BY EmptySeq
  <2>3. Idle \in Req /\ Good(Idle, 0, part)
    BY IdleIsReq DEF Good, Idle, Relayed, Filed
  <2> QED
    BY <2>1, <2>2, <2>3 DEF Init, ConnInit, ConnInv
<1>2. ConfigInv
  <2>1. << >> \in Seq(1..requests)
    BY EmptySeq
  <2>2. 0 \in 0..requests
    BY DEF Init, ConnInit
  <2>3. /\ config = [b \in Browser |-> none] /\ dialog = {} /\ lines = [b \in Browser |-> << >>]
        /\ sheet = [b \in Browser |-> none] /\ file = << >> /\ stored = 0 /\ overlapped = FALSE
    BY DEF Init, ConfigInit
  <2> QED
    BY <2>1, <2>2, <2>3 DEF ConfigInv
<1>3. Writing = {} /\ Waiting = {} /\ \A c \in Conn : doing[c].step = "idle" /\ doing[c].id = 0
  BY DEF Init, ConnInit, Writing, Waiting, Idle
<1>4. FileInv
  BY <1>3 DEF Init, ConfigInit, FileInv
<1>5. MaxDial \in Nat /\ none \notin Target
  BY TargetsAssumption
<1>6. ClientInv
  <2>1. NoTick.step # "message"
    BY DEF NoTick
  <2>2. \A k \in Client : ~(k <= 0)
    BY <1>5 DEF Client
  <2> QED
    BY <1>5, <2>1, <2>2 DEF Init, RelayInit, ClientInv
<1>7. BufferInv
  <2>1. \A S : << >> \in Seq(S)
    BY EmptySeq
  <2> QED
    BY <2>1 DEF Init, RelayInit, BufferInv
<1>8. SerialInv
  <2>1. Quiet(Net)
    BY DEF Init, RelayInit, Quiet, QuietClient, QuietServer, Net
  <2>2. 1..dialed = {}
    BY DEF Init, RelayInit
  <2>3. answers = {}
    BY DEF Init, RelayInit
  <2> QED
    BY <1>3, <2>1, <2>2, <2>3 DEF SerialInv
<1>9. NoCommands /\ ServerInv
  BY DEF Init, RelayInit, NoCommands, ServerInv
<1> QED
  BY <1>1, <1>2, <1>4, <1>6, <1>7, <1>8, <1>9 DEF Inv

LEMMA StutterInv ==
    ASSUME Inv, UNCHANGED vars
    PROVE  Inv'
<1>1. /\ UNCHANGED <<connVars, client, connected, closed, inChan, doing, requests, config, dialog, lines, sheet,
                     file, stored, overlapped, part, relayVars>>
      /\ UNCHANGED <<serverConn, dialed, peer, status, outBuffer, inBuffer, tick, session, at, pipe, luaCommands,
                     commandResultChan, answers, disturbed>>
  BY DEF vars, connVars, configVars, pageVars, fileVars, relayVars, clientVars, gameVars
<1>2. ConnInv' /\ requests' = requests /\ requests \in Nat
  BY <1>1, ConnFrame, ConnNumbers DEF Inv
<1>3. ConfigInv' /\ FileInv'
  BY <1>1 DEF Inv, ConfigInv, FileInv, Writing
<1>4. ClientInv' /\ BufferInv'
  BY <1>1, <1>2, RelayGrows DEF Inv, relayVars
<1>5. SerialInv'
  <2>1. CASE part = "config"
    BY <1>1, <2>1 DEF SerialInv
  <2>2. CASE part = "relay"
    <3>1. Net' = Net
      BY <1>1 DEF Net
    <3>2. ~disturbed => \A k \in 1..dialed : status'[k] \in {"connecting", "connected"}
      BY <1>1, <2>2 DEF Inv, SerialInv
    <3> QED
      BY <1>1, <2>2, <3>1, <3>2, SerialMoves DEF Inv
  <2> QED
    BY <2>1, <2>2 DEF Inv, ConnInv
<1>6. NoCommands' /\ ServerInv'
  BY <1>1 DEF Inv, NoCommands, ServerInv, relayVars
<1> QED
  BY <1>2, <1>3, <1>4, <1>5, <1>6 DEF Inv

LEMMA Invariance == Spec => []Inv
<1>1. Inv /\ [Next]_vars => Inv'
  BY ConfigStep, RelayStep, StutterInv DEF Next
<1> QED
  BY InitInv, <1>1, PTL DEF Spec

\* Every page's connection is one of those made and not thrown away, every handler works for a
\* request that was made, every client belongs to the server it was dialled for, a game's results
\* are of commands sent to it, and what the pages show and the file holds was submitted.
THEOREM TypeCorrect == Spec => []TypeOK
<1>1. Inv => TypeOK
  <2> SUFFICES ASSUME Inv PROVE TypeOK
    OBVIOUS
  <2>1. /\ \A b \in Browser : client[b] = none \/ client[b] \in 1..connected
        /\ closed \subseteq 1..connected /\ requests \in 0..MaxRequest
    BY DEF Inv, ConnInv
  <2>2. \A c \in Conn : doing[c].id \in 0..requests
    <3> TAKE c \in Conn
    <3>1. doing[c].id \in Nat /\ doing[c].id <= requests
      BY DEF Inv, ConnInv, Req, Good
    <3> QED
      BY <3>1, ConnNumbers DEF Inv
  <2>3. RelayTypeOK
    <3>1. tick.client = 0 <=> tick = NoTick
      <4>1. NoTick.client = 0 /\ 0 \notin Client
        BY DEF NoTick, Client
      <4> QED
        BY <4>1 DEF Inv, ClientInv
    <3>2. \A t \in Target : \A k \in DOMAIN commandResultChan[t] : commandResultChan[t][k] \in (1..requests) \X {t}
      <4> TAKE t \in Target
      <4>1. commandResultChan[t] \in Seq((1..requests) \X {t})
        BY DEF Inv, BufferInv, CommandsTo
      <4> QED
        BY <4>1
    <3>3. \A a \in answers : a.of \in Commands /\ \A k \in DOMAIN a.data : a.data[k] \in Commands \cup {none}
      <4> TAKE a \in answers
      <4>1. a.of \in Commands /\ a.data \in Seq(Commands \cup {none})
        BY DEF Inv, BufferInv
      <4> QED
        BY <4>1
    <3>4. /\ \A k \in Client : at[k] = none \/ at[k] \in Commands
          /\ \A k \in Client : \A i \in DOMAIN pipe[k] : pipe[k][i] \in Commands \cup {none}
          /\ crashed \in BOOLEAN
      BY DEF Inv, BufferInv, ServerInv
    <3>5. (\A t \in Target : serverConn[t] \in 0..dialed) /\ (\A k \in Client : k <= dialed <=> peer[k] \in Target)
      BY DEF Inv, ClientInv
    <3> QED
      BY <3>1, <3>2, <3>3, <3>4, <3>5 DEF RelayTypeOK
  <2>4. ConfigTypeOK
    <3>1. \A b \in Browser : \A k \in DOMAIN lines[b] : lines[b][k] \in 1..requests
      <4> TAKE b \in Browser
      <4>1. lines[b] \in Seq(1..requests)
        BY DEF Inv, ConfigInv
      <4> QED
        BY <4>1, ElementOfSeq, LenProperties
    <3>2. \A k \in DOMAIN file : file[k] \in 1..requests
      <4>1. file \in Seq(1..requests)
        BY DEF Inv, ConfigInv
      <4> QED
        BY <4>1, ElementOfSeq, LenProperties
    <3> QED
      BY <3>1, <3>2 DEF Inv, ConfigInv, ConfigTypeOK
  <2> QED
    BY <2>1, <2>2, <2>3, <2>4 DEF TypeOK
<1> QED
  BY Invariance, <1>1, PTL

\* The file of the admin server holds the configuration written last, in full and with
\* nothing of an older and longer one behind it, whenever no submit is between its truncation
\* and its write, unless two submits were there at the same time or that write failed.  The
\* handlers, which read it once, get that configuration if their buffer is large enough, and
\* none if it is not.
THEOREM SubmitIsKept == Spec => []LastSubmitKept
<1>1. Inv => LastSubmitKept
  <2> DEFINE n == Size[stored]
  <2> SUFFICES ASSUME Inv, ~overlapped, stored # 0, Writing = {}
               PROVE  file = Whole(stored) /\ ReadConfig = IF n <= ReadSize THEN stored ELSE 0
    BY DEF LastSubmitKept
  <2>1. file = Whole(stored)
    BY DEF Inv, FileInv
  <2>2. n \in Nat \ {0} /\ ReadSize \in Nat
    <3>1. stored \in 1..MaxRequest
      BY ConnNumbers DEF Inv, ConfigInv, ConnInv
    <3> QED
      BY <3>1, SizeAssumption
  <2>3. DOMAIN file = 1..n /\ Len(file) = n /\ 1 \in 1..n /\ \A k \in 1..n : file[k] = stored
    BY <2>1, <2>2 DEF Whole
  <2>4. file[1] = stored /\ file # << >>
    <3>1. DOMAIN << >> = {}
      BY EmptySeq
    <3> QED
      BY <2>3, <3>1
  <2> HIDE DEF n
  <2>5. CASE n <= ReadSize
    <3>1. Len(file) <= ReadSize
      BY <2>3, <2>5
    <3> QED
      BY <2>1, <2>3, <2>4, <2>5, <3>1 DEF ReadConfig, n
  <2>6. CASE ~(n <= ReadSize)
    <3>1. ~(Len(file) <= ReadSize) /\ ReadSize # n
      BY <2>2, <2>3, <2>6
    <3> QED
      BY <2>1, <2>4, <2>6, <3>1 DEF ReadConfig, n
  <2> QED
    BY <2>5, <2>6
<1> QED
  BY Invariance, <1>1, PTL

\* Although nothing on the way names the command an answer belongs to, every command is answered
\* with the whole of its own result and nothing else, on any number of connections and servers and
\* in any number of blocks, as long as no command was handled beside another one, nothing timed
\* out, no connection broke and no tick found only a part of a result.
THEOREM AnswersAreOwn == Spec => []OwnAnswer
<1>1. Inv => OwnAnswer
  <2>1. CASE part = "relay"
    BY <2>1 DEF Inv, SerialInv, OwnAnswer
  <2>2. CASE part = "config"
    BY <2>2 DEF Inv, NoCommands, OwnAnswer
  <2> QED
    BY <2>1, <2>2 DEF Inv, ConnInv
<1> QED
  BY Invariance, <1>1, PTL
=============================================================================
