--------------------------- MODULE AppShellProofs ---------------------------
(***************************************************************************)
(* Proofs about the two single page applications: the pages, the header    *)
(* and the clean-up after a service worker.                                *)
(***************************************************************************)
EXTENDS AppShell, SequenceTheorems, FiniteSetTheorems, TLAPS

-----------------------------------------------------------------------------
(* The clean-up.  A page of this build has a promise left, or what it was   *)
(* for is done: no worker can be registered again, and no step stores the  *)
(* precache again.                                                         *)

CleanInv ==
    \A t \in Tab : (https /\ page[t] = "new") =>
        /\ "registrations" \in promised[t] \/ ~registered
        /\ "keys" \in promised[t] \/ "precache" \notin caches \/ "precache" \in deleting

LEMMA CleanStart == WorkerInit => WorkerTypeOK /\ CleanInv
  BY DEF WorkerInit, WorkerTypeOK, CleanInv, Cache

LEMMA CleanStep ==
    ASSUME WorkerTypeOK, CleanInv, [WorkerNext]_workerVars PROVE WorkerTypeOK' /\ CleanInv'
<1>1. ASSUME NEW t \in Tab, NEW forced \in BOOLEAN, Load(t, forced) PROVE WorkerTypeOK' /\ CleanInv'
  <2>1. Served(registered /\ ~forced) \in {"old", "new"}
    BY DEF Served
  <2>2. StartPromises \subseteq {"registrations", "keys"}
    BY DEF StartPromises
  <2>3. https => StartPromises = {"registrations", "keys"}
    BY DEF StartPromises, Pwa
  <2> QED
    BY <1>1, <2>1, <2>2, <2>3 DEF Load, WorkerTypeOK, CleanInv
<1>2. ASSUME NEW t \in Tab, CloseTab(t) PROVE WorkerTypeOK' /\ CleanInv'
  BY <1>2 DEF CloseTab, WorkerTypeOK, CleanInv
<1>3. ASSUME NEW t \in Tab, Unregister(t) PROVE WorkerTypeOK' /\ CleanInv'
  BY <1>3 DEF Unregister, WorkerTypeOK, CleanInv
<1>4. ASSUME NEW t \in Tab, ClearCache(t) PROVE WorkerTypeOK' /\ CleanInv'
  BY <1>4 DEF ClearCache, WorkerTypeOK, CleanInv
<1>5. ASSUME NEW t \in Tab, Fetch(t) PROVE WorkerTypeOK' /\ CleanInv'
  BY <1>5 DEF Fetch, WorkerTypeOK, CleanInv, Cache
<1>6. ASSUME NEW c \in Cache, Delete(c) PROVE WorkerTypeOK' /\ CleanInv'
  BY <1>6 DEF Delete, WorkerTypeOK, CleanInv
<1>7. CASE UNCHANGED workerVars
  BY <1>7 DEF workerVars, WorkerTypeOK, CleanInv
<1> QED
  BY <1>1, <1>2, <1>3, <1>4, <1>5, <1>6, <1>7 DEF WorkerNext

LEMMA CleanAlways == FairSpec => [](WorkerTypeOK /\ CleanInv)
<1>1. Init => WorkerTypeOK /\ CleanInv
  BY CleanStart DEF Init
<1>2. ASSUME WorkerTypeOK, CleanInv, [Next]_vars PROVE WorkerTypeOK' /\ CleanInv'
  <2>1. [WorkerNext]_workerVars
    BY <1>2 DEF Next, vars, workerVars
  <2> QED
    BY <1>2, <2>1, CleanStep
<1> QED
  BY <1>1, <1>2, PTL DEF FairSpec

\* When a page of this build has had its promises and the deletions are done, no
\* worker and no precache of an earlier build is left, for any number of tabs.
THEOREM CleanUpWorks == FairSpec => []CleanedUp
<1>1. WorkerTypeOK /\ CleanInv => CleanedUp
  BY DEF WorkerTypeOK, CleanInv, CleanedUp, Cache
<1> QED
  BY <1>1, CleanAlways, PTL

-----------------------------------------------------------------------------
(* The header. *)

HeaderInv ==
    /\ request \in {"pending", "ok", "failed"}
    /\ notices \subseteq Notice /\ read \subseteq notices /\ tab \in TabKeys
    /\ searchMode \in BOOLEAN /\ reported \in BOOLEAN \cup {none}
    /\ path \in Page \cup {"/user/login"} /\ redirect \in Page \cup {"/user/login", none}

LEMMA HeaderStart == HeaderInit => HeaderInv
  BY DEF HeaderInit, HeaderInv, TabKeys

LEMMA HeaderStep ==
    ASSUME HeaderInv, NoticeNext \/ SearchNext \/ AvatarNext PROVE HeaderInv'
<1>1. CASE NoticeNext
  BY <1>1 DEF NoticeNext, NoticesArrive, NoticesFail, SetVisible, ClearReadState, ChangeTab,
              ChangeReadState, ListShown, NoticeData, searchVars, avatarVars, HeaderInv
<1>2. CASE SearchNext
  BY <1>2 DEF SearchNext, ClickSearch, Blur, TransitionEnd, PressEnter, ChangeValue,
              SetSearchMode, noticeVars, avatarVars, HeaderInv
<1>3. CASE AvatarNext
  BY <1>3 DEF AvatarNext, ClickLogout, LogoutDone, LogoutFails, Push, noticeVars, searchVars, HeaderInv
<1> QED
  BY <1>1, <1>2, <1>3

LEMMA HeaderAlways == FairSpec => []HeaderInv
<1>1. Init => HeaderInv
  BY HeaderStart DEF Init
<1>2. ASSUME HeaderInv, [Next]_vars PROVE HeaderInv'
  <2>1. CASE NoticeNext \/ SearchNext \/ AvatarNext
    BY <1>2, <2>1, HeaderStep
  <2>2. CASE UNCHANGED headerVars
    BY <1>2, <2>2 DEF headerVars, noticeVars, searchVars, avatarVars, HeaderInv
  <2> QED
    BY <1>2, <2>1, <2>2 DEF Next, vars
<1> QED
  BY <1>1, <1>2, PTL DEF FairSpec
-----------------------------------------------------------------------------
(* The sockets: what travels on them, whose they are, and how many.        *)

Ids == 1..MaxSend
AllPages == {"debug", "gm", "exportTable"}
States == {"connecting", "open", "closing", "closed"}
To == Server \cup GmCommand \cup {nil} \cup Nat
Lists == SUBSET (Server \cup GmCommand)
Types ==
    {"servers", "message", "reload", "gmList", "timeout", "gmCommand",
     "tableConfig", "setTableConfig", "exportTable", "findSheet", "error"}
Message == [type : Types, to : To, id : 0..MaxSend, list : Lists]
Socket == [page : AllPages, owner : Nat, st : States, up : Seq(Message), got : SUBSET Message]

\* the requests of page p, and the answers to them
Asked(p, m) ==
    \/ p = "debug" /\ m.type = "servers" /\ m.id = 0
    \/ p = "debug" /\ m.type = "message" /\ m.id # 0 /\ m.to \in Server /\ m.list = {}
    \/ p = "debug" /\ m.type = "reload" /\ m.id # 0 /\ m.to = nil /\ m.list = {}
    \/ p = "gm" /\ m.type = "gmList"
    \/ p = "gm" /\ m.type = "gmCommand" /\ m.id # 0 /\ m.to \in GmCommand \cup {nil}
    \/ p = "exportTable" /\ m.type \in {"tableConfig", "setTableConfig", "exportTable", "findSheet"}

Replied(p, m) ==
    \/ p = "debug" /\ m.type = "servers" /\ m.id = 0 /\ m.list \subseteq Server
    \/ p = "debug" /\ m.type \in {"message", "reload"} /\ m.id # 0 /\ m.to \in Server /\ m.list = {}
    \/ p = "gm" /\ m.type = "gmList" /\ m.list \in {{}, GmCommand}
    \/ p = "gm" /\ m.type = "timeout"
    \/ p = "gm" /\ m.type = "gmCommand" /\ m.id # 0 /\ m.to \in GmCommand \cup {nil}
    \/ p = "exportTable"
       /\ m.type \in {"tableConfig", "setTableConfig", "exportTable", "findSheet", "error"}

Carries(s) ==
    /\ \A k \in DOMAIN s.up : Asked(s.page, s.up[k])
    /\ \A m \in s.got : Replied(s.page, m)

\* socket s in the m-th mounted page, which is r, of application a
Owned(s, m, r, a) ==
    s.owner \in 1..m /\ s.page \in Pages(a) /\ (s.owner = m => s.page = r)

\* of the sockets one mount of a page opened, one is not closed
OneOpen(ss) ==
    \A i, j \in DOMAIN ss :
        ss[i].owner = ss[j].owner =>
            /\ ss[i].page = ss[j].page
            /\ ss[i].page # "gm" /\ ss[i].st # "closed" /\ ss[j].st # "closed" => i = j

PlaceInv ==
    /\ app \in {"web", "xls2lua"} /\ route \in Pages(app) \cup {"404"}
    /\ mount \in 1..MaxMount /\ sent \in 0..MaxSend /\ closes \in 0..MaxClose

SocketsOK(ss, m, r, a) ==
    /\ ss \in Seq(Socket) /\ Len(ss) >= 1
    /\ \A i \in DOMAIN ss : Carries(ss[i]) /\ Owned(ss[i], m, r, a)
    /\ OneOpen(ss)

SocketsInv == PlaceInv /\ SocketsOK(sock, mount, route, app)

\* c is nil or the client of the mounted page p
IsClient(c, p, ss, m) ==
    c # nil => /\ c \in DOMAIN ss /\ ss[c].page = p /\ ss[c].owner = m
               /\ ss[c].st \in {"open", "closing"}

ClientsInv ==
    /\ IsClient(cClient, "debug", sock, mount) /\ IsClient(gClient, "gm", sock, mount)
    /\ IsClient(eClient, "exportTable", sock, mount)

\* what else refers to a socket: the dialog and the timers
IsDialog(c, ss) ==
    c # <<>> => /\ c = <<c[1]>>
                /\ c[1] # nil => c[1] \in DOMAIN ss /\ ss[c[1]].page = "debug"
AreTimers(ts, ss) ==
    \A t \in ts : t.sock \in DOMAIN ss /\ ss[t.sock].page = "gm" /\ t.id \in 1..MaxSend

RefsInv == IsDialog(confirm, sock) /\ AreTimers(timers, sock)

GmInv ==
    /\ gmData \in {{}, GmCommand} /\ gmCommandProps \in GmCommand \cup {nil}
    /\ response \in [GmCommand -> (1..MaxSend) \cup {nil}]
    /\ formValue \in [GmCommand -> 0..1] /\ field \in 0..1 /\ initial \in 0..1

ScreenInv == gmCommandProps # nil => shown = response[gmCommandProps]

ExportInv ==
    configVisible \in BOOLEAN /\ exportConfig \in (0..MaxSend) \cup {nil} /\ config \in 0..MaxSend

\* every line under way, and every request for lines, is of a current export
LinesOf(s, c) ==
    /\ \A k \in DOMAIN s.up : s.up[k].type = "exportTable" => s.up[k].id \in c
    /\ \A m \in s.got : m.type = "exportTable" => m.id \in c
LinesInv ==
    /\ \A i \in DOMAIN sock : LinesOf(sock[i], current)
    /\ resultData \in Seq(current) /\ tempMsg \in Seq(current)

Closing(ss) == {i \in DOMAIN ss : ss[i].st = "closing"}
CountInv == Len(sock) + Cardinality(Closing(sock)) <= mount + closes + sent

Entry == [action : {"SEND", "RECV"}, id : 1..MaxSend]
ConsoleInv ==
    /\ serverPanes \subseteq Server /\ activePane \in DOMAIN panes \cup {nil}
    /\ DOMAIN panes \subseteq serverPanes /\ DOMAIN due = DOMAIN panes
    /\ \A s \in DOMAIN panes : panes[s] \in Seq(Entry)
    /\ consoleResponse # nil => consoleResponse \in [to : Server, id : 1..MaxSend]

\* message m, a request or an answer, will bring server s the answer n
Brings(m, s, n) == m.id = n /\ (m.to = s \/ (m.to = nil /\ m.type = "reload"))
\* the answer n of server s is still to come
Pending(ss, s, n) ==
    \E i \in DOMAIN ss :
        /\ ss[i].page = "debug"
        /\ \/ \E m \in ss[i].got : Brings(m, s, n)
           \/ \E k \in DOMAIN ss[i].up : Brings(ss[i].up[k], s, n)
\* the debug socket i has id n among its answers (k = 0) or as its request k
At(ss, i, k, n) ==
    /\ ss[i].page = "debug"
    /\ \/ k = 0 /\ \E m \in ss[i].got : m.id = n
       \/ k \in DOMAIN ss[i].up /\ ss[i].up[k].id = n
OnePlace(ss) ==
    \A i, j \in DOMAIN ss : \A k, l \in Nat : \A n \in Ids :
        At(ss, i, k, n) /\ At(ss, j, l, n) => i = j /\ k = l
OneType(ss) ==
    \A i \in DOMAIN ss : ss[i].page = "debug" =>
        \A m, x \in ss[i].got : m.id = x.id => m.type = x.type
Upto(ss, n) == \A i \in DOMAIN ss : \A k \in Nat : \A x \in Ids : At(ss, i, k, x) => x <= n

Has(pane, action, n) == \E k \in DOMAIN pane : pane[k].action = action /\ pane[k].id = n
\* no answer is twice in the pane
Once(pane) ==
    \A j, k \in DOMAIN pane :
        pane[j].action = "RECV" /\ pane[k].action = "RECV" /\ pane[j].id = pane[k].id => j = k

WireInv == OnePlace(sock) /\ OneType(sock) /\ Upto(sock, sent)

\* pane of server s, with the answers ids it is due and last the last request
PaneOK(pane, ids, s, ss, last) ==
    /\ \A n \in ids : Has(pane, "RECV", n)
    /\ Once(pane)
    /\ \A n \in Ids : \A action \in {"SEND", "RECV"} : Has(pane, action, n) => n <= last
    /\ \A n \in Ids : Pending(ss, s, n) => ~Has(pane, "RECV", n)
\* a command sent from one pane is answered in no other
Apart(ps, ss) ==
    \A s \in Server, t \in DOMAIN ps : \A n \in Ids :
        Has(ps[t], "SEND", n) /\ s # t =>
            /\ ~Pending(ss, s, n)
            /\ s \in DOMAIN ps => ~Has(ps[s], "RECV", n)
ResponseOK(r, ps, ss, last) ==
    r # nil =>
        /\ r.id <= last /\ ~Pending(ss, r.to, r.id)
        /\ \A t \in DOMAIN ps : t # r.to => ~Has(ps[t], "SEND", r.id)

PanesOK(ps, ids, r, ss, last) ==
    /\ \A s \in DOMAIN ps : PaneOK(ps[s], ids[s], s, ss, last)
    /\ Apart(ps, ss) /\ ResponseOK(r, ps, ss, last)

PanesInv == PanesOK(panes, due, consoleResponse, sock, sent)

-----------------------------------------------------------------------------
(* The ways in which a step changes the sockets.                           *)

\* socket i with another state, requests and answers
Rec(p, o, st, up, got) == [page |-> p, owner |-> o, st |-> st, up |-> up, got |-> got]
Put(ss, i, st, up, got) == [ss EXCEPT ![i] = Rec(ss[i].page, ss[i].owner, st, up, got)]

\* the forms the steps of PageSocket have
PutSt(ss, i, st) == [ss EXCEPT ![i].st = st]
PutUp(ss, i, up) == [ss EXCEPT ![i].up = up]
PutGot(ss, i, got) == [ss EXCEPT ![i].got = got]
PutAnswered(ss, i, up, got) == [ss EXCEPT ![i].up = up, ![i].got = got]
PutDropped(ss, i, st, up, got) == [ss EXCEPT ![i].st = st, ![i].up = up, ![i].got = got]

Quiet == UNCHANGED <<sock, mount, closes>> /\ sent' \in {sent, sent + 1} /\ sent' <= MaxSend

Opening(i) ==
    /\ sock[i].st = "connecting" /\ UNCHANGED <<mount, sent, closes>>
    /\ \E up \in Seq(Message) :
          /\ sock' = Put(sock, i, "open", up, sock[i].got)
          /\ \/ up = sock[i].up
             \/ \E r \in Message : /\ Asked(sock[i].page, r) /\ r.id = 0 /\ r.type # "exportTable"
                                   /\ up = Append(sock[i].up, r)

Sending(i) ==
    /\ sock[i].st = "open" /\ UNCHANGED <<mount, closes>>
    /\ \E r \in Message :
          /\ Asked(sock[i].page, r)
          /\ sock' = Put(sock, i, "open", Append(sock[i].up, r), sock[i].got)
          /\ r.type = "exportTable" => r.id \in current'
          /\ \/ sent' = sent + 1 /\ sent' <= MaxSend /\ r.id = sent'
             \/ sent' = sent /\ sock[i].page = "gm"

Dropping(i) ==
    /\ sock[i].st \in {"connecting", "open"} /\ closes' = closes + 1 /\ closes' <= MaxClose
    /\ UNCHANGED <<mount, sent>>
    /\ \E a \in SUBSET sock[i].got : sock' = Put(sock, i, "closing", <<>>, a)

\* r is answered with m
Fits(p, r, m) ==
    /\ m \in Message /\ Replied(p, m)
    /\ p = "debug" => /\ m.id = r.id /\ m.type = r.type
                      /\ m.type # "servers" => r.to \in {nil, m.to} /\ (r.to = nil => r.type = "reload")
    /\ m.type = "exportTable" => r.type = "exportTable" /\ m.id = r.id

Answering(i) ==
    /\ sock[i].st = "open" /\ sock[i].up # <<>> /\ UNCHANGED <<mount, sent, closes>>
    /\ \E a \in SUBSET Message :
          /\ \A m \in a : Fits(sock[i].page, Head(sock[i].up), m)
          /\ sock' = Put(sock, i, "open", Tail(sock[i].up), sock[i].got \cup a)

Decoding(i, m) ==
    /\ m \in sock[i].got /\ UNCHANGED <<mount, sent, closes>>
    /\ sock' = Put(sock, i, sock[i].st, sock[i].up, sock[i].got \ {m})

Ending(i) ==
    /\ sock[i].st = "closing" /\ UNCHANGED <<mount, sent, closes>>
    /\ sock' = Put(sock, i, "closed", sock[i].up, sock[i].got)

Reopening(i) ==
    /\ sock[i].st = "closing" /\ UNCHANGED <<mount, sent, closes>>
    /\ sock' = Append(Put(sock, i, "closed", sock[i].up, sock[i].got),
                      NewSocket(sock[i].page, sock[i].owner))

Adding ==
    /\ route = "gm" /\ sent' = sent + 1 /\ sent' <= MaxSend /\ UNCHANGED <<mount, closes>>
    /\ sock' = Append(sock, NewSocket("gm", mount))

\* no close event, and any step but those that leave the page
Mild(i) ==
    \/ Opening(i) \/ Sending(i) \/ Dropping(i) \/ Answering(i)
    \/ \E m \in sock[i].got : Decoding(i, m)

Gentle == Quiet \/ Adding \/ \E i \in DOMAIN sock : Mild(i)

Touched == Gentle \/ \E i \in DOMAIN sock : Ending(i) \/ Reopening(i)

-----------------------------------------------------------------------------
LEMMA SocketParts ==
    ASSUME NEW ss \in Seq(Socket), NEW i \in DOMAIN ss
    PROVE  /\ ss[i] \in Socket /\ i \in Nat /\ i # nil
           /\ ss[i].page \in AllPages /\ ss[i].owner \in Nat /\ ss[i].st \in States
           /\ ss[i].up \in Seq(Message) /\ ss[i].got \in SUBSET Message
<1>1. ss[i] \in Socket /\ i \in Nat
  BY ElementOfSeq, LenProperties
<1> QED
  BY <1>1, SocketAssumption DEF Socket

LEMMA RecForms ==
    ASSUME NEW s, NEW p, NEW o, NEW a, NEW u, NEW g, NEW st, NEW up, NEW got, s = Rec(p, o, a, u, g)
    PROVE  /\ [s EXCEPT !.st = st] = Rec(p, o, st, u, g)
           /\ [s EXCEPT !.up = up] = Rec(p, o, a, up, g)
           /\ [s EXCEPT !.got = got] = Rec(p, o, a, u, got)
           /\ s.page = p /\ s.owner = o /\ s.st = a /\ s.up = u /\ s.got = g
<1>1. [s EXCEPT !.st = st] = Rec(p, o, st, u, g)
  BY DEF Rec
<1>2. [s EXCEPT !.up = up] = Rec(p, o, a, up, g)
  BY DEF Rec
<1>3. [s EXCEPT !.got = got] = Rec(p, o, a, u, got)
  BY DEF Rec
<1>4. s.page = p /\ s.owner = o /\ s.st = a /\ s.up = u /\ s.got = g
  BY DEF Rec
<1> QED
  BY <1>1, <1>2, <1>3, <1>4

LEMMA IsRec == ASSUME NEW s \in Socket PROVE s = Rec(s.page, s.owner, s.st, s.up, s.got)
  BY DEF Socket, Rec

\* The five forms in which the steps are written.
LEMMA StForm ==
    ASSUME NEW ss \in Seq(Socket), NEW i \in DOMAIN ss, NEW st
    PROVE  PutSt(ss, i, st) = Put(ss, i, st, ss[i].up, ss[i].got)
<1> DEFINE s == ss[i]
<1>1. s = Rec(s.page, s.owner, s.st, s.up, s.got)
  BY IsRec, SocketParts
<1>2. [s EXCEPT !.st = st] = Rec(s.page, s.owner, st, s.up, s.got)
  BY <1>1, RecForms
<1> QED
  BY <1>2 DEF Put, PutSt

LEMMA UpForm ==
    ASSUME NEW ss \in Seq(Socket), NEW i \in DOMAIN ss, NEW up
    PROVE  PutUp(ss, i, up) = Put(ss, i, ss[i].st, up, ss[i].got)
<1> DEFINE s == ss[i]
<1>1. s = Rec(s.page, s.owner, s.st, s.up, s.got)
  BY IsRec, SocketParts
<1>2. [s EXCEPT !.up = up] = Rec(s.page, s.owner, s.st, up, s.got)
  BY <1>1, RecForms
<1> QED
  BY <1>2 DEF Put, PutUp

LEMMA GotForm ==
    ASSUME NEW ss \in Seq(Socket), NEW i \in DOMAIN ss, NEW got
    PROVE  PutGot(ss, i, got) = Put(ss, i, ss[i].st, ss[i].up, got)
<1> DEFINE s == ss[i]
<1>1. s = Rec(s.page, s.owner, s.st, s.up, s.got)
  BY IsRec, SocketParts
<1>2. [s EXCEPT !.got = got] = Rec(s.page, s.owner, s.st, s.up, got)
  BY <1>1, RecForms
<1> QED
  BY <1>2 DEF Put, PutGot

LEMMA AnswerForm ==
    ASSUME NEW ss \in Seq(Socket), NEW i \in DOMAIN ss, NEW up, NEW got
    PROVE  PutAnswered(ss, i, up, got) = Put(ss, i, ss[i].st, up, got)
<1> DEFINE s == ss[i]
<1>1. s = Rec(s.page, s.owner, s.st, s.up, s.got)
  BY IsRec, SocketParts
<1> DEFINE s1 == [s EXCEPT !.up = up]
<1>2. s1 = Rec(s.page, s.owner, s.st, up, s.got)
  BY <1>1, RecForms
<1> HIDE DEF s1
<1>3. [s1 EXCEPT !.got = got] = Rec(s.page, s.owner, s.st, up, got)
  BY <1>2, RecForms
<1> USE DEF s1
<1>4. [[ss EXCEPT ![i] = s1] EXCEPT ![i] = [s1 EXCEPT !.got = got]] = [ss EXCEPT ![i] = [s1 EXCEPT !.got = got]]
  OBVIOUS
<1> QED
  BY <1>3, <1>4 DEF Put, PutAnswered

LEMMA DropForm ==
    ASSUME NEW ss \in Seq(Socket), NEW i \in DOMAIN ss, NEW st, NEW up, NEW got
    PROVE  PutDropped(ss, i, st, up, got) = Put(ss, i, st, up, got)
<1> DEFINE s == ss[i]
<1>1. s = Rec(s.page, s.owner, s.st, s.up, s.got)
  BY IsRec, SocketParts
<1> DEFINE s1 == [s EXCEPT !.st = st]
           s2 == [s1 EXCEPT !.up = up]
<1>2. s1 = Rec(s.page, s.owner, st, s.up, s.got)
  BY <1>1, RecForms
<1> HIDE DEF s1
<1>3. s2 = Rec(s.page, s.owner, st, up, s.got)
  BY <1>2, RecForms
<1> HIDE DEF s2
<1>4. [s2 EXCEPT !.got = got] = Rec(s.page, s.owner, st, up, got)
  BY <1>3, RecForms
<1> USE DEF s1, s2
<1> QED
  BY <1>4 DEF Put, PutDropped

LEMMA PutFacts ==
    ASSUME NEW ss \in Seq(Socket), NEW i \in DOMAIN ss, NEW st \in States,
           NEW up \in Seq(Message), NEW got \in SUBSET Message
    PROVE  LET tt == Put(ss, i, st, up, got)
           IN  /\ tt \in Seq(Socket) /\ Len(tt) = Len(ss) /\ DOMAIN tt = DOMAIN ss
               /\ \A j \in DOMAIN ss : j # i => tt[j] = ss[j]
               /\ tt[i].page = ss[i].page /\ tt[i].owner = ss[i].owner
               /\ tt[i].st = st /\ tt[i].up = up /\ tt[i].got = got
<1> DEFINE s == Rec(ss[i].page, ss[i].owner, st, up, got)
           tt == [ss EXCEPT ![i] = s]
<1>1. s \in Socket
  BY SocketParts DEF Socket, Rec
<1>2. tt \in Seq(Socket) /\ Len(tt) = Len(ss)
  BY <1>1, ExceptSeq
<1>3. /\ DOMAIN tt = DOMAIN ss /\ tt[i] = s /\ \A j \in DOMAIN ss : j # i => tt[j] = ss[j]
  OBVIOUS
<1>4. /\ s.page = ss[i].page /\ s.owner = ss[i].owner /\ s.st = st /\ s.up = up /\ s.got = got
  BY RecForms
<1> HIDE DEF s
<1> QED
  BY <1>2, <1>3, <1>4 DEF Put, s

LEMMA MsgFacts ==
    ASSUME NEW type \in Types, NEW to \in To, NEW id \in 0..MaxSend, NEW list \in Lists
    PROVE  /\ Msg(type, to, id, list) \in Message
           /\ Msg(type, to, id, list).type = type /\ Msg(type, to, id, list).to = to
           /\ Msg(type, to, id, list).id = id /\ Msg(type, to, id, list).list = list
  BY DEF Msg, Message

LEMMA MessageParts ==
    ASSUME NEW m \in Message
    PROVE  /\ m.type \in Types /\ m.to \in To
           /\ m.id \in 0..MaxSend /\ m.list \in Lists
           /\ m = Msg(m.type, m.to, m.id, m.list)
  BY DEF Msg, Message

LEMMA Everywhere == nil \in To /\ {} \in Lists /\ GmCommand \in Lists
  BY DEF To, Lists

LEMMA PutTwice ==
    ASSUME NEW ss \in Seq(Socket), NEW i \in DOMAIN ss, NEW st \in States,
           NEW up \in Seq(Message), NEW got \in SUBSET Message, NEW st2, NEW up2, NEW got2
    PROVE  Put(Put(ss, i, st, up, got), i, st2, up2, got2) = Put(ss, i, st2, up2, got2)
<1> DEFINE tt == Put(ss, i, st, up, got)
           rec == Rec(ss[i].page, ss[i].owner, st2, up2, got2)
<1>1. tt[i].page = ss[i].page /\ tt[i].owner = ss[i].owner
  BY PutFacts
<1>2. Put(tt, i, st2, up2, got2) = [tt EXCEPT ![i] = rec]
  BY <1>1 DEF Put
<1> HIDE DEF rec
<1>3. [tt EXCEPT ![i] = rec] = [ss EXCEPT ![i] = rec]
  BY DEF Put
<1> QED
  BY <1>2, <1>3 DEF Put, rec

\* A request goes out on an open socket or not at all.
LEMMA SendForm ==
    ASSUME NEW ss \in Seq(Socket), NEW c, c # nil => c \in DOMAIN ss, NEW r \in Message
    PROVE  \/ Send(ss, c, r) = ss
           \/ /\ c \in DOMAIN ss /\ ss[c].st = "open" /\ Append(ss[c].up, r) \in Seq(Message)
              /\ Send(ss, c, r) = Put(ss, c, "open", Append(ss[c].up, r), ss[c].got)
<1>1. CASE c # nil /\ ss[c].st = "open"
  <2>1. c \in DOMAIN ss
    BY <1>1
  <2>2. Append(ss[c].up, r) \in Seq(Message)
    BY <2>1, SocketParts, AppendProperties
  <2>3. PutUp(ss, c, Append(ss[c].up, r)) = Put(ss, c, ss[c].st, Append(ss[c].up, r), ss[c].got)
    BY <2>1, UpForm
  <2>4. Send(ss, c, r) = PutUp(ss, c, Append(ss[c].up, r))
    BY <1>1 DEF Send, PutUp
  <2> QED
    BY <1>1, <2>1, <2>2, <2>3, <2>4
<1>2. CASE ~(c # nil /\ ss[c].st = "open")
  BY <1>2 DEF Send
<1> QED
  BY <1>1, <1>2

LEMMA OpensAs ==
    ASSUME SocketsInv, NEW i \in DOMAIN sock, NEW type \in Types, OpenAndAsk(i, type),
           Asked(sock[i].page, Msg(type, nil, 0, {})), type # "exportTable"
    PROVE  Opening(i)
<1> DEFINE opened == [sock EXCEPT ![i].st = "open"]
           r == Msg(type, nil, 0, {})
<1>1. /\ sock[i].st = "connecting" /\ UNCHANGED <<mount, sent, closes>>
      /\ sock' = IF Mounted(i) THEN Send(opened, i, r) ELSE opened
  BY DEF OpenAndAsk
<1>2. sock \in Seq(Socket) /\ sock[i].up \in Seq(Message) /\ sock[i].got \in SUBSET Message
  BY SocketParts DEF SocketsInv, SocketsOK
<1>3. opened = Put(sock, i, "open", sock[i].up, sock[i].got)
  BY <1>2, StForm DEF PutSt
<1>4. 0 \in 0..MaxSend
  BY SocketAssumption
<1>5. r \in Message /\ r.id = 0 /\ r.type = type
  BY <1>4, MsgFacts, Everywhere
<1>6. "open" \in States
  BY DEF States
<1> HIDE DEF opened, r
<1>7. /\ opened \in Seq(Socket) /\ DOMAIN opened = DOMAIN sock
      /\ opened[i].up = sock[i].up /\ opened[i].got = sock[i].got
  BY <1>2, <1>3, <1>6, PutFacts
<1>8. \/ Send(opened, i, r) = opened
      \/ /\ Append(sock[i].up, r) \in Seq(Message)
         /\ Send(opened, i, r) = Put(opened, i, "open", Append(sock[i].up, r), sock[i].got)
  BY <1>5, <1>7, SendForm
<1>9. Put(opened, i, "open", Append(sock[i].up, r), sock[i].got)
         = Put(sock, i, "open", Append(sock[i].up, r), sock[i].got)
  BY <1>2, <1>3, <1>6, PutTwice
<1>10. \/ sock' = Put(sock, i, "open", sock[i].up, sock[i].got)
       \/ /\ Append(sock[i].up, r) \in Seq(Message)
          /\ sock' = Put(sock, i, "open", Append(sock[i].up, r), sock[i].got)
  BY <1>1, <1>3, <1>8, <1>9
<1>11. Asked(sock[i].page, r)
  BY DEF r
<1> QED
  BY <1>1, <1>2, <1>5, <1>10, <1>11 DEF Opening

\* A request of the user: it takes the next number.
LEMMA SendsAs ==
    ASSUME SocketsInv, NEW c, NEW p \in AllPages, c # nil => c \in DOMAIN sock /\ sock[c].page = p,
           NEW type \in Types, NEW to \in To,
           sent < MaxSend, sent' = sent + 1, UNCHANGED <<mount, closes>>,
           sock' = Send(sock, c, Msg(type, to, sent', {})), Asked(p, Msg(type, to, sent', {})),
           type = "exportTable" => sent' \in current'
    PROVE  \/ Quiet
           \/ c \in DOMAIN sock /\ Sending(c)
<1> DEFINE r == Msg(type, to, sent', {})
<1>1. sent \in 0..MaxSend /\ MaxSend \in Nat /\ sent' \in 0..MaxSend /\ sent' <= MaxSend
  BY SocketAssumption DEF SocketsInv, SocketsOK, PlaceInv
<1>2. r \in Message /\ r.type = type /\ r.id = sent'
  BY <1>1, MsgFacts, Everywhere
<1>3. sock \in Seq(Socket) /\ Asked(p, r) /\ sock' = Send(sock, c, r)
  BY DEF SocketsInv, SocketsOK
<1> HIDE DEF r
<1>4. \/ sock' = sock
      \/ /\ c \in DOMAIN sock /\ sock[c].st = "open"
         /\ sock' = Put(sock, c, "open", Append(sock[c].up, r), sock[c].got)
  BY <1>2, <1>3, SendForm
<1>5. CASE sock' = sock
  BY <1>1, <1>5 DEF Quiet
<1>6. CASE /\ c \in DOMAIN sock /\ sock[c].st = "open"
           /\ sock' = Put(sock, c, "open", Append(sock[c].up, r), sock[c].got)
  <2>1. c # nil /\ sock[c].page = p
    BY <1>3, <1>6, SocketParts
  <2> QED
    BY <1>1, <1>2, <1>3, <1>6, <2>1 DEF Sending
<1> QED
  BY <1>4, <1>5, <1>6

LEMMA EventsAs ==
    ASSUME SocketsInv, NEW i \in DOMAIN sock
    PROVE  /\ /\ sock[i].st = "closing" /\ UNCHANGED <<mount, sent, closes>>
              /\ sock' = [sock EXCEPT ![i].st = "closed"]
              => Ending(i)
           /\ /\ sock[i].st = "closing" /\ UNCHANGED <<mount, sent, closes>>
              /\ sock' = Append([sock EXCEPT ![i].st = "closed"], NewSocket(sock[i].page, sock[i].owner))
              => Reopening(i)
           /\ \A m \in sock[i].got :
                 sock' = Decoded(i, m) /\ UNCHANGED <<mount, sent, closes>> => Decoding(i, m)
           /\ Drop(i) => Dropping(i)
           /\ \A a \in SUBSET Message :
                 Answer(i, a) /\ (\A m \in a : Fits(sock[i].page, Head(sock[i].up), m)) => Answering(i)
<1>0. sock \in Seq(Socket) /\ closes \in 0..MaxClose /\ MaxClose \in Nat
  BY SocketAssumption DEF SocketsInv, SocketsOK, PlaceInv
<1>1. [sock EXCEPT ![i].st = "closed"] = Put(sock, i, "closed", sock[i].up, sock[i].got)
  BY <1>0, StForm DEF PutSt
<1>2. ASSUME NEW m \in sock[i].got, sock' = Decoded(i, m), UNCHANGED <<mount, sent, closes>>
      PROVE  Decoding(i, m)
  <2>1. Decoded(i, m) = Put(sock, i, sock[i].st, sock[i].up, sock[i].got \ {m})
    BY <1>0, GotForm DEF Decoded, PutGot
  <2> QED
    BY <1>2, <2>1 DEF Decoding
<1>3. ASSUME Drop(i) PROVE Dropping(i)
  <2>1. PICK a \in SUBSET sock[i].got :
           sock' = [sock EXCEPT ![i].st = "closing", ![i].up = <<>>, ![i].got = a]
    BY <1>3 DEF Drop
  <2>2. sock' = PutDropped(sock, i, "closing", <<>>, a)
    BY <2>1 DEF PutDropped
  <2>5. sock' = Put(sock, i, "closing", <<>>, a)
    BY <1>0, <2>2, DropForm
  <2>3. closes' = closes + 1 /\ closes < MaxClose
    BY <1>3 DEF Drop
  <2>4. closes' <= MaxClose
    BY <1>0, <2>3
  <2> QED
    BY <1>3, <2>5, <2>3, <2>4 DEF Drop, Dropping
<1>4. ASSUME NEW a \in SUBSET Message, Answer(i, a),
             \A m \in a : Fits(sock[i].page, Head(sock[i].up), m)
      PROVE  Answering(i)
  <2>1. PutAnswered(sock, i, Tail(sock[i].up), sock[i].got \cup a)
           = Put(sock, i, sock[i].st, Tail(sock[i].up), sock[i].got \cup a)
    BY <1>0, AnswerForm
  <2>2. sock' = PutAnswered(sock, i, Tail(sock[i].up), sock[i].got \cup a)
    BY <1>0, <1>4 DEF Answer, PutAnswered
  <2>3. sock' = Put(sock, i, "open", Tail(sock[i].up), sock[i].got \cup a)
    BY <1>4, <2>1, <2>2 DEF Answer
  <2> QED
    BY <1>4, <2>3 DEF Answer, Answering
<1>5. /\ sock[i].st = "closing" /\ UNCHANGED <<mount, sent, closes>>
      /\ sock' = [sock EXCEPT ![i].st = "closed"]
      => Ending(i)
  BY <1>1 DEF Ending
<1>6. /\ sock[i].st = "closing" /\ UNCHANGED <<mount, sent, closes>>
      /\ sock' = Append([sock EXCEPT ![i].st = "closed"], NewSocket(sock[i].page, sock[i].owner))
      => Reopening(i)
  BY <1>1 DEF Reopening
<1> QED
  BY <1>2, <1>3, <1>4, <1>5, <1>6

\* The oldest request of a socket is one of its page.
LEMMA HeadAsked ==
    ASSUME SocketsInv, NEW i \in DOMAIN sock, sock[i].up # <<>>
    PROVE  /\ Head(sock[i].up) \in Message /\ Asked(sock[i].page, Head(sock[i].up))
           /\ Head(sock[i].up) = sock[i].up[1] /\ 1 \in DOMAIN sock[i].up
<1>1. sock[i].up \in Seq(Message) /\ Carries(sock[i])
  BY SocketParts DEF SocketsInv, SocketsOK
<1>2. /\ Head(sock[i].up) = sock[i].up[1] /\ 1 \in DOMAIN sock[i].up
      /\ Head(sock[i].up) \in Message
  BY <1>1, EmptySeq, HeadTailProperties
<1> QED
  BY <1>1, <1>2 DEF Carries

LEMMA ConsoleAnswerAs ==
    ASSUME SocketsInv, NEW i \in DOMAIN sock, ConsoleAnswer(i) PROVE Answering(i)
<1> DEFINE r == Head(sock[i].up)
<1>1. sock[i].page = "debug" /\ r \in Message /\ Asked("debug", r)
  BY HeadAsked DEF ConsoleAnswer
<1>2. PICK a \in ConsoleAnswers(r) : Answer(i, a)
  BY DEF ConsoleAnswer
<1> HIDE DEF r
<1>3. 0 \in 0..MaxSend /\ r.id \in 0..MaxSend
  BY <1>1, SocketAssumption, MessageParts
<1>4. a \in SUBSET Message /\ \A m \in a : Fits("debug", r, m)
  <2>1. CASE r.type = "servers"
    <3>1. PICK l \in ServerLists : a = {Msg("servers", nil, 0, l)}
      BY <1>2, <2>1 DEF ConsoleAnswers
    <3>2. l \in Lists /\ l \subseteq Server
      BY ServerAssumption DEF Lists
    <3> DEFINE m == Msg("servers", nil, 0, l)
    <3>3. m \in Message /\ m.type = "servers" /\ m.id = 0 /\ m.list = l
      BY <1>3, <3>2, MsgFacts, Everywhere DEF Types
    <3> HIDE DEF m
    <3>4. r.id = 0
      BY <1>1, <2>1 DEF Asked
    <3> QED
      BY <2>1, <3>1, <3>2, <3>3, <3>4 DEF Fits, Replied, m
  <2>2. CASE r.type = "message"
    <3>1. a = {r}
      BY <1>2, <2>2 DEF ConsoleAnswers
    <3> QED
      BY <1>1, <2>2, <3>1, ServerAssumption DEF Fits, Replied, Asked
  <2>3. CASE r.type = "reload"
    <3>1. PICK l \in ServerLists : a = {Msg("reload", s, r.id, {}) : s \in l}
      BY <1>2, <2>3 DEF ConsoleAnswers
    <3>2. r.id # 0 /\ r.to = nil
      BY <1>1, <2>3 DEF Asked
    <3>3. ASSUME NEW m \in a PROVE m \in Message /\ Fits("debug", r, m)
      <4>1. PICK s \in l : m = Msg("reload", s, r.id, {})
        BY <3>1
      <4>2. s \in Server /\ s \in To
        BY ServerAssumption DEF To
      <4>3. /\ m \in Message /\ m.type = "reload" /\ m.to = s /\ m.id = r.id /\ m.list = {}
        BY <1>3, <4>1, <4>2, MsgFacts, Everywhere DEF Types
      <4> QED
        BY <2>3, <3>2, <4>2, <4>3 DEF Fits, Replied
    <3> QED
      BY <3>3
  <2> QED
    BY <1>1, <2>1, <2>2, <2>3 DEF Asked
<1> QED
  BY <1>1, <1>2, <1>4, EventsAs DEF r

LEMMA GmAnswerAs ==
    ASSUME SocketsInv, NEW i \in DOMAIN sock, GmAnswer(i) PROVE Answering(i)
<1> DEFINE r == Head(sock[i].up)
<1>1. sock[i].page = "gm" /\ r \in Message /\ Asked("gm", r)
  BY HeadAsked DEF GmAnswer
<1>2. PICK a \in GmAnswers(r) : Answer(i, a)
  BY DEF GmAnswer
<1> HIDE DEF r
<1>3. 0 \in 0..MaxSend
  BY SocketAssumption
<1>4. \E m \in Message : a = {m} /\ Replied("gm", m) /\ m.type # "exportTable"
  <2>1. CASE r.type = "gmList"
    <3>1. ASSUME NEW type \in {"gmList", "timeout"}, NEW l \in {{}, GmCommand}, a = {Msg(type, nil, 0, l)}
          PROVE  \E m \in Message : a = {m} /\ Replied("gm", m) /\ m.type # "exportTable"
      <4> DEFINE m == Msg(type, nil, 0, l)
      <4>1. m \in Message /\ m.type = type /\ m.list = l
        <5>1. type \in Types /\ l \in Lists
          BY Everywhere DEF Types
        <5> QED
          BY <1>3, <5>1, MsgFacts, Everywhere
      <4> HIDE DEF m
      <4>2. Replied("gm", m) /\ m.type # "exportTable"
        BY <4>1 DEF Replied
      <4> QED
        BY <3>1, <4>1, <4>2 DEF m
    <3> QED
      BY <1>2, <2>1, <3>1 DEF GmAnswers
  <2>2. CASE r.type # "gmList"
    <3>1. a = {r} /\ Replied("gm", r) /\ r.type # "exportTable"
      BY <1>1, <1>2, <2>2 DEF GmAnswers, Replied, Asked
    <3> QED
      BY <1>1, <3>1
  <2> QED
    BY <2>1, <2>2
<1>5. a \in SUBSET Message /\ \A m \in a : Fits("gm", r, m)
  BY <1>4 DEF Fits
<1> QED
  BY <1>1, <1>2, <1>5, EventsAs DEF r

LEMMA ExportAnswerAs ==
    ASSUME SocketsInv, ExportInv, NEW i \in DOMAIN sock, ExportAnswer(i)
    PROVE  Answering(i) /\ config' \in 0..MaxSend
<1> DEFINE r == Head(sock[i].up)
           fits(a) == a \in SUBSET Message /\ \A m \in a : Fits("exportTable", r, m)
           lines(n) == {Msg("exportTable", k, r.id, {}) : k \in 0..n}
<1>1. sock[i].page = "exportTable" /\ r \in Message /\ Asked("exportTable", r)
  BY HeadAsked DEF ExportAnswer
<1>2. r.type \in Types /\ r.to \in To /\ r.id \in 0..MaxSend /\ r.list \in Lists
  BY <1>1, MessageParts
<1>3. config \in 0..MaxSend
  BY DEF ExportInv
<1>4. \/ Answer(i, {[r EXCEPT !.id = config]}) /\ r.type = "tableConfig" /\ UNCHANGED config
      \/ Answer(i, {r}) /\ config' \in {config, r.id}
      \/ r.type = "exportTable" /\ (\E n \in 0..MaxLine : Answer(i, lines(n))) /\ UNCHANGED config
      \/ Answer(i, {Msg("error", nil, r.id, {})}) /\ UNCHANGED config
  BY DEF ExportAnswer
<1>5. config' \in 0..MaxSend
  BY <1>2, <1>3, <1>4
<1> HIDE DEF r
<1>6. fits({r})
  BY <1>1 DEF Fits, Replied, Asked
<1>7. fits({Msg("error", nil, r.id, {})})
  <2>1. /\ Msg("error", nil, r.id, {}) \in Message /\ Msg("error", nil, r.id, {}).type = "error"
    BY <1>2, MsgFacts, Everywhere DEF Types
  <2> QED
    BY <2>1 DEF Fits, Replied
<1>8. ASSUME r.type = "tableConfig" PROVE fits({[r EXCEPT !.id = config]})
  <2>1. [r EXCEPT !.id = config] \in Message /\ [r EXCEPT !.id = config].type = "tableConfig"
    BY <1>1, <1>3, <1>8 DEF Message
  <2> QED
    BY <2>1 DEF Fits, Replied
<1>9. ASSUME NEW n \in 0..MaxLine, r.type = "exportTable" PROVE fits(lines(n))
  <2>1. ASSUME NEW m \in lines(n) PROVE m \in Message /\ Fits("exportTable", r, m)
    <3>1. PICK k \in 0..n : m = Msg("exportTable", k, r.id, {})
      OBVIOUS
    <3>2. k \in To
      BY LineAssumption DEF To
    <3>3. m \in Message /\ m.type = "exportTable" /\ m.id = r.id
      BY <1>2, <3>1, <3>2, MsgFacts, Everywhere DEF Types
    <3> QED
      BY <1>9, <3>3 DEF Fits, Replied
  <2> QED
    BY <2>1
<1>10. \E a \in SUBSET Message : Answer(i, a) /\ \A m \in a : Fits("exportTable", r, m)
  BY <1>4, <1>6, <1>7, <1>8, <1>9
<1> QED
  BY <1>1, <1>5, <1>10, EventsAs DEF r

LEMMA OpenedAs ==
    ASSUME SocketsInv, NEW i \in DOMAIN sock, ConsoleOpened(i) \/ GmOpened(i) \/ ExportOpened(i)
    PROVE  Opening(i)
<1>0. 0 \in 0..MaxSend
  BY SocketAssumption
<1>1. CASE ConsoleOpened(i)
  <2>1. "servers" \in Types /\ Asked(sock[i].page, Msg("servers", nil, 0, {}))
    BY <1>0, <1>1, MsgFacts, Everywhere DEF Types, Asked, ConsoleOpened
  <2> QED
    BY <1>1, <2>1, OpensAs DEF ConsoleOpened
<1>2. CASE GmOpened(i)
  <2>1. "gmList" \in Types /\ Asked(sock[i].page, Msg("gmList", nil, 0, {}))
    BY <1>0, <1>2, MsgFacts, Everywhere DEF Types, Asked, GmOpened
  <2> QED
    BY <1>2, <2>1, OpensAs DEF GmOpened
<1>3. CASE ExportOpened(i)
  <2>1. "tableConfig" \in Types /\ Asked(sock[i].page, Msg("tableConfig", nil, 0, {}))
    BY <1>0, <1>3, MsgFacts, Everywhere DEF Types, Asked, ExportOpened
  <2> QED
    BY <1>3, <2>1, OpensAs DEF ExportOpened
<1> QED
  BY <1>1, <1>2, <1>3

\* One step of the console page, the GM page and the export page.
LEMMA ConsoleTouches ==
    ASSUME SocketsInv, ClientsInv, RefsInv, ConsoleInv, ConsoleStep
    PROVE  Gentle \/ \E i \in DOMAIN sock : ConsoleClosed(i) /\ Reopening(i)
<1>0. PlaceInv /\ sent \in 0..MaxSend /\ MaxSend \in Nat /\ sock \in Seq(Socket)
  BY SocketAssumption DEF SocketsInv, SocketsOK, PlaceInv
<1>1. CASE OnClickClearListButton \/ OnHotfix \/ HotfixCancel \/ \E s \in Server : SelectPane(s)
  BY <1>0, <1>1 DEF OnClickClearListButton, OnHotfix, HotfixCancel, SelectPane, socketVars, Gentle, Quiet
<1>2. CASE OnSubmitCommand
  <2>1. activePane \in Server /\ activePane \in To
    BY <1>2 DEF OnSubmitCommand, PaneControls, ConsoleInv, To
  <2>2. sent' # 0 /\ sent' \in 0..MaxSend
    BY <1>0, <1>2 DEF OnSubmitCommand
  <2>3. Asked("debug", Msg("message", activePane, sent', {}))
    BY <2>1, <2>2, MsgFacts, Everywhere DEF Types, Asked
  <2>4. cClient # nil => cClient \in DOMAIN sock /\ sock[cClient].page = "debug"
    BY DEF ClientsInv, IsClient
  <2>5. /\ sent < MaxSend /\ sent' = sent + 1 /\ UNCHANGED <<mount, closes>>
        /\ sock' = Send(sock, cClient, Msg("message", activePane, sent', {}))
    BY <1>2 DEF OnSubmitCommand, OnConsoleCommand
  <2> QED
    BY <2>1, <2>3, <2>4, <2>5, SendsAs DEF Types, AllPages, Gentle, Mild
<1>3. CASE HotfixOk
  <2>1. nil \in To /\ sent' # 0 /\ sent' \in 0..MaxSend
    BY <1>0, <1>3, Everywhere DEF HotfixOk
  <2>2. Asked("debug", Msg("reload", nil, sent', {}))
    BY <2>1, MsgFacts, Everywhere DEF Types, Asked
  <2>3. confirm[1] # nil => confirm[1] \in DOMAIN sock /\ sock[confirm[1]].page = "debug"
    BY <1>3 DEF HotfixOk, RefsInv, IsDialog
  <2>4. /\ sent < MaxSend /\ sent' = sent + 1 /\ UNCHANGED <<mount, closes>>
        /\ sock' = Send(sock, confirm[1], Msg("reload", nil, sent', {}))
    BY <1>3 DEF HotfixOk
  <2> QED
    BY <2>1, <2>2, <2>3, <2>4, SendsAs DEF Types, AllPages, Gentle, Mild
<1>4. ASSUME NEW i \in DOMAIN sock, ConsoleOpened(i) PROVE Gentle
  BY <1>4, OpenedAs DEF Gentle, Mild
<1>5. ASSUME NEW i \in DOMAIN sock, ConsoleClosed(i) PROVE Reopening(i)
  BY <1>5, EventsAs DEF ConsoleClosed
<1>6. ASSUME NEW i \in DOMAIN sock, NEW m \in sock[i].got, ConsoleMessage(i, m) PROVE Gentle
  BY <1>6, EventsAs DEF ConsoleMessage, Gentle, Mild
<1>7. ASSUME NEW i \in DOMAIN sock, ConsoleAnswer(i) PROVE Gentle
  BY <1>7, ConsoleAnswerAs DEF Gentle, Mild
<1> QED
  BY <1>1, <1>2, <1>3, <1>4, <1>5, <1>6, <1>7 DEF ConsoleStep, ConsoleUser, ConsoleEvent

LEMMA GmTouches ==
    ASSUME SocketsInv, ClientsInv, RefsInv, GmInv, GmStep
    PROVE  Gentle \/ \E i \in DOMAIN sock : GmClosed(i) /\ Ending(i)
<1>0. PlaceInv /\ sent \in 0..MaxSend /\ MaxSend \in Nat /\ sock \in Seq(Socket)
  BY SocketAssumption DEF SocketsInv, SocketsOK, PlaceInv
<1>1. CASE \/ \E c \in GmCommand : OnClickGmCommand(c)
           \/ \E c \in GmCommand \cup {nil} : OnCommandSelected(c)
           \/ OnReset \/ \E v \in 0..1 : OnValuesChange(v)
  BY <1>0, <1>1 DEF OnClickGmCommand, OnCommandSelected, OnReset, OnValuesChange, socketVars, Gentle, Quiet
<1>2. CASE route = "gm" /\ OnSubmitGMCommand
  <2>1. gmCommandProps \in GmCommand /\ gmCommandProps \in To
    BY <1>2 DEF OnSubmitGMCommand, FormShown, GmInv, To
  <2>2. /\ sent < MaxSend /\ sent' = sent + 1 /\ UNCHANGED <<mount, closes>>
    BY <1>2 DEF OnSubmitGMCommand
  <2>3. sent' # 0 /\ sent' \in 0..MaxSend
    BY <1>0, <2>2
  <2>4. CASE sock' = Send(sock, gClient, Msg("gmCommand", gmCommandProps, sent', {}))
    <3>1. Asked("gm", Msg("gmCommand", gmCommandProps, sent', {}))
      BY <2>1, <2>3, MsgFacts, Everywhere DEF Types, Asked
    <3>2. gClient # nil => gClient \in DOMAIN sock /\ sock[gClient].page = "gm"
      BY DEF ClientsInv, IsClient
    <3> QED
      BY <2>1, <2>2, <2>4, <3>1, <3>2, SendsAs DEF Types, AllPages, Gentle, Mild
  <2>5. CASE sock' = Append(sock, NewSocket("gm", mount))
    BY <1>0, <1>2, <2>2, <2>3, <2>5 DEF Gentle, Adding
  <2> QED
    BY <1>2, <2>4, <2>5 DEF OnSubmitGMCommand
<1>3. ASSUME NEW t \in timers, DelayedSend(t) PROVE Gentle
  <2> DEFINE r == Msg("gmCommand", nil, t.id, {})
  <2>1. t.sock \in DOMAIN sock /\ sock[t.sock].page = "gm" /\ t.id \in 1..MaxSend
    BY DEF RefsInv, AreTimers
  <2>2. t.id \in 0..MaxSend /\ t.id # 0
    BY <1>0, <2>1
  <2>3. r \in Message /\ r.type = "gmCommand" /\ r.id # 0 /\ r.to = nil
    BY <2>2, MsgFacts, Everywhere DEF Types
  <2>4. sock' = Send(sock, t.sock, r) /\ UNCHANGED <<mount, sent, closes>>
    BY <1>3 DEF DelayedSend
  <2> HIDE DEF r
  <2>5. \/ sock' = sock
        \/ /\ sock[t.sock].st = "open"
           /\ sock' = Put(sock, t.sock, "open", Append(sock[t.sock].up, r), sock[t.sock].got)
    BY <1>0, <2>1, <2>3, <2>4, SendForm
  <2>6. Asked("gm", r)
    BY <2>3 DEF Asked
  <2>7. CASE sock' = sock
    BY <1>0, <2>4, <2>7 DEF Gentle, Quiet
  <2>8. CASE sock' # sock
    <3>1. Sending(t.sock)
      BY <2>1, <2>3, <2>4, <2>5, <2>6, <2>8 DEF Sending
    <3> QED
      BY <2>1, <3>1 DEF Gentle, Mild
  <2> QED
    BY <2>7, <2>8
<1>4. ASSUME NEW i \in DOMAIN sock, GmOpened(i) PROVE Gentle
  BY <1>4, OpenedAs DEF Gentle, Mild
<1>5. ASSUME NEW i \in DOMAIN sock, GmClosed(i) PROVE Ending(i)
  BY <1>5, EventsAs DEF GmClosed
<1>6. ASSUME NEW i \in DOMAIN sock, NEW m \in sock[i].got, GmMessage(i, m) PROVE Gentle
  BY <1>6, EventsAs DEF GmMessage, Gentle, Mild
<1>7. ASSUME NEW i \in DOMAIN sock, GmAnswer(i) PROVE Gentle
  BY <1>7, GmAnswerAs DEF Gentle, Mild
<1> QED
  BY <1>1, <1>2, <1>3, <1>4, <1>5, <1>6, <1>7 DEF GmStep, GmUser, GmEvent

LEMMA ExportTouches ==
    ASSUME SocketsInv, ClientsInv, RefsInv, ExportInv, ExportStep
    PROVE  Gentle \/ \E i \in DOMAIN sock : ExportClosed(i) /\ Reopening(i)
<1>0. PlaceInv /\ sent \in 0..MaxSend /\ MaxSend \in Nat /\ sock \in Seq(Socket)
  BY SocketAssumption DEF SocketsInv, SocketsOK, PlaceInv
<1>1. CASE ToggleConfig
  BY <1>0, <1>1 DEF ToggleConfig, socketVars, Gentle, Quiet
<1>2. ASSUME NEW type \in {"setTableConfig", "exportTable", "findSheet"},
             sent < MaxSend, sent' = sent + 1, UNCHANGED <<mount, closes>>,
             sock' = Send(sock, eClient, Msg(type, nil, sent', {})),
             type = "exportTable" => sent' \in current'
      PROVE  Gentle
  <2>1. type \in Types /\ sent' \in 0..MaxSend
    BY <1>0, <1>2 DEF Types
  <2>2. Asked("exportTable", Msg(type, nil, sent', {}))
    BY <2>1, MsgFacts, Everywhere DEF Asked
  <2>3. eClient # nil => eClient \in DOMAIN sock /\ sock[eClient].page = "exportTable"
    BY DEF ClientsInv, IsClient
  <2> QED
    BY <1>2, <2>1, <2>2, <2>3, SendsAs, Everywhere DEF AllPages, Gentle, Mild
<1>3. CASE OnSubmitConfig
  BY <1>2, <1>3 DEF OnSubmitConfig
<1>4. CASE DoExportTable
  <2>1. sent' \in current'
    BY <1>4 DEF DoExportTable
  <2> QED
    BY <1>2, <1>4, <2>1 DEF DoExportTable
<1>5. CASE DoFindSheet
  BY <1>2, <1>5 DEF DoFindSheet
<1>6. ASSUME NEW i \in DOMAIN sock, ExportOpened(i) PROVE Gentle
  BY <1>6, OpenedAs DEF Gentle, Mild
<1>7. ASSUME NEW i \in DOMAIN sock, ExportClosed(i) PROVE Reopening(i)
  BY <1>7, EventsAs DEF ExportClosed
<1>8. ASSUME NEW i \in DOMAIN sock, NEW m \in sock[i].got, ExportMessage(i, m) PROVE Gentle
  BY <1>8, EventsAs DEF ExportMessage, Gentle, Mild
<1>9. ASSUME NEW i \in DOMAIN sock, ExportAnswer(i) PROVE Gentle
  BY <1>9, ExportAnswerAs DEF Gentle, Mild
<1> QED
  BY <1>1, <1>3, <1>4, <1>5, <1>6, <1>7, <1>8, <1>9 DEF ExportStep, ExportUser, ExportEvent

-----------------------------------------------------------------------------
(* What a step of the sockets preserves.                                   *)

LEMMA PutKeeps ==
    ASSUME NEW ss, NEW n, NEW r, NEW a, SocketsOK(ss, n, r, a), NEW i \in DOMAIN ss,
           NEW st \in States, NEW up \in Seq(Message), NEW got \in SUBSET Message,
           \A k \in DOMAIN up : Asked(ss[i].page, up[k]),
           \A m \in got : Replied(ss[i].page, m),
           st # "closed" => ss[i].st # "closed"
    PROVE  SocketsOK(Put(ss, i, st, up, got), n, r, a)
<1> DEFINE tt == Put(ss, i, st, up, got)
<1>1. /\ ss \in Seq(Socket) /\ Len(ss) >= 1 /\ OneOpen(ss)
      /\ \A j \in DOMAIN ss : Carries(ss[j]) /\ Owned(ss[j], n, r, a)
  BY DEF SocketsOK
<1>2. /\ tt \in Seq(Socket) /\ Len(tt) = Len(ss) /\ DOMAIN tt = DOMAIN ss
      /\ \A j \in DOMAIN ss : j # i => tt[j] = ss[j]
      /\ tt[i].page = ss[i].page /\ tt[i].owner = ss[i].owner
      /\ tt[i].st = st /\ tt[i].up = up /\ tt[i].got = got
  BY <1>1, PutFacts
<1> HIDE DEF tt
<1>3. ASSUME NEW j \in DOMAIN tt PROVE Carries(tt[j]) /\ Owned(tt[j], n, r, a)
  <2>1. CASE j = i
    BY <1>1, <1>2, <2>1 DEF Carries, Owned
  <2>2. CASE j # i
    BY <1>1, <1>2, <2>2
  <2> QED
    BY <2>1, <2>2
<1>4. OneOpen(tt)
  <2>1. \A j \in DOMAIN ss : /\ tt[j].page = ss[j].page /\ tt[j].owner = ss[j].owner
                             /\ tt[j].st # "closed" => ss[j].st # "closed"
    BY <1>2
  <2> QED
    BY <1>1, <1>2, <2>1 DEF OneOpen
<1> QED
  BY <1>1, <1>2, <1>3, <1>4 DEF SocketsOK, tt

LEMMA NewFacts ==
    ASSUME NEW p \in AllPages, NEW o \in Nat
    PROVE  LET s == NewSocket(p, o)
           IN  /\ s \in Socket /\ s.page = p /\ s.owner = o /\ s.st = "connecting"
               /\ s.up = <<>> /\ s.got = {} /\ Carries(s)
<1> DEFINE s == NewSocket(p, o)
<1>1. /\ s.page = p /\ s.owner = o /\ s.st = "connecting" /\ s.up = <<>> /\ s.got = {}
  BY DEF NewSocket
<1>2. <<>> \in Seq(Message) /\ DOMAIN <<>> = {}
  BY EmptySeq
<1>3. s \in Socket
  BY <1>2 DEF NewSocket, Socket, States
<1> HIDE DEF s
<1>4. Carries(s)
  BY <1>1, <1>2 DEF Carries
<1> QED
  BY <1>1, <1>3, <1>4 DEF s

LEMMA AppendKeeps ==
    ASSUME NEW ss, NEW n, NEW r, NEW a, SocketsOK(ss, n, r, a), NEW p \in AllPages, NEW o \in Nat,
           o \in 1..n, p \in Pages(a), o = n => p = r,
           \A j \in DOMAIN ss : ss[j].owner = o => ss[j].page = p /\ (p # "gm" => ss[j].st = "closed")
    PROVE  SocketsOK(Append(ss, NewSocket(p, o)), n, r, a)
<1> DEFINE s == NewSocket(p, o)
           tt == Append(ss, s)
           l == Len(ss) + 1
<1>1. /\ ss \in Seq(Socket) /\ Len(ss) >= 1 /\ OneOpen(ss) /\ Len(ss) \in Nat
      /\ \A j \in DOMAIN ss : Carries(ss[j]) /\ Owned(ss[j], n, r, a)
  BY LenProperties DEF SocketsOK
<1>2. s \in Socket /\ s.page = p /\ s.owner = o /\ s.st = "connecting" /\ Carries(s)
  BY NewFacts
<1> HIDE DEF s
<1>3. /\ tt \in Seq(Socket) /\ Len(tt) = l /\ DOMAIN tt = DOMAIN ss \cup {l} /\ l \notin DOMAIN ss
      /\ tt[l] = s /\ \A j \in DOMAIN ss : tt[j] = ss[j]
  BY <1>1, <1>2, AppendProperties
<1> HIDE DEF tt, l
<1>4. Len(tt) >= 1
  BY <1>1, <1>3 DEF l
<1>5. ASSUME NEW j \in DOMAIN tt PROVE Carries(tt[j]) /\ Owned(tt[j], n, r, a)
  <2>1. Owned(s, n, r, a)
    BY <1>2 DEF Owned
  <2> QED
    BY <1>1, <1>2, <1>3, <2>1
<1>6. OneOpen(tt)
  <2> SUFFICES ASSUME NEW i \in DOMAIN tt, NEW j \in DOMAIN tt, tt[i].owner = tt[j].owner
               PROVE  /\ tt[i].page = tt[j].page
                      /\ tt[i].page # "gm" /\ tt[i].st # "closed" /\ tt[j].st # "closed" => i = j
    BY DEF OneOpen
  <2>1. CASE i = l /\ j = l
    BY <2>1
  <2>2. CASE i = l /\ j # l
    BY <1>2, <1>3, <2>2
  <2>3. CASE i # l /\ j = l
    BY <1>2, <1>3, <2>3
  <2>4. CASE i # l /\ j # l
    BY <1>1, <1>3, <2>4 DEF OneOpen
  <2> QED
    BY <2>1, <2>2, <2>3, <2>4
<1> QED
  BY <1>3, <1>4, <1>5, <1>6 DEF SocketsOK, tt, s

\* Every socket may lose what it carries and be closed: a page that is left.
Emptied(ss, tt) ==
    /\ DOMAIN tt = DOMAIN ss
    /\ \A i \in DOMAIN ss :
          /\ tt[i] \in Socket /\ tt[i].page = ss[i].page /\ tt[i].owner = ss[i].owner
          /\ tt[i].st \in {ss[i].st, "closed"}
          /\ \/ tt[i].up = ss[i].up /\ tt[i].got = ss[i].got
             \/ tt[i].up = <<>> /\ tt[i].got = {}

LEMMA EmptiedKeeps ==
    ASSUME NEW ss, NEW n \in Nat, NEW r, NEW a, SocketsOK(ss, n, r, a), NEW tt, Emptied(ss, tt),
           tt = [i \in DOMAIN ss |-> tt[i]], NEW q
    PROVE  SocketsOK(tt, n + 1, q, a) /\ Len(tt) = Len(ss) /\ \A i \in DOMAIN tt : tt[i].owner # n + 1
<1>1. /\ ss \in Seq(Socket) /\ Len(ss) >= 1 /\ OneOpen(ss) /\ Len(ss) \in Nat /\ DOMAIN ss = 1..Len(ss)
      /\ \A j \in DOMAIN ss : Carries(ss[j]) /\ Owned(ss[j], n, r, a)
  BY LenProperties DEF SocketsOK
<1>2. tt \in Seq(Socket) /\ Len(tt) = Len(ss)
  <2>1. tt = [i \in 1..Len(ss) |-> tt[i]] /\ \A i \in 1..Len(ss) : tt[i] \in Socket
    BY <1>1 DEF Emptied
  <2> QED
    BY <1>1, <2>1, IsASeq
<1>3. ASSUME NEW j \in DOMAIN tt PROVE Carries(tt[j]) /\ Owned(tt[j], n + 1, q, a) /\ tt[j].owner # n + 1
  <2>1. j \in DOMAIN ss /\ Carries(ss[j]) /\ Owned(ss[j], n, r, a)
    BY <1>1 DEF Emptied
  <2>2. tt[j].page = ss[j].page /\ tt[j].owner = ss[j].owner
    BY <2>1 DEF Emptied
  <2>3. Owned(tt[j], n + 1, q, a) /\ tt[j].owner # n + 1
    BY <2>1, <2>2 DEF Owned
  <2>4. Carries(tt[j])
    <3>1. DOMAIN <<>> = {}
      OBVIOUS
    <3> QED
      BY <2>1, <2>2, <3>1 DEF Emptied, Carries
  <2> QED
    BY <2>3, <2>4
<1>4. OneOpen(tt)
  BY <1>1 DEF Emptied, OneOpen
<1> QED
  BY <1>1, <1>2, <1>3, <1>4 DEF SocketsOK

LEMMA AskedMore ==
    ASSUME NEW p, NEW up \in Seq(Message), \A k \in DOMAIN up : Asked(p, up[k])
    PROVE  /\ \A r \in Message : Asked(p, r) =>
                 /\ Append(up, r) \in Seq(Message)
                 /\ \A k \in DOMAIN Append(up, r) : Asked(p, Append(up, r)[k])
           /\ up # <<>> => /\ Tail(up) \in Seq(Message)
                           /\ \A k \in DOMAIN Tail(up) : Asked(p, Tail(up)[k])
<1>1. ASSUME NEW r \in Message, Asked(p, r)
      PROVE  /\ Append(up, r) \in Seq(Message)
             /\ \A k \in DOMAIN Append(up, r) : Asked(p, Append(up, r)[k])
  <2> DEFINE u == Append(up, r)
  <2>1. /\ u \in Seq(Message) /\ Len(u) = Len(up) + 1 /\ u[Len(u)] = r
        /\ \A k \in 1..Len(up) : u[k] = up[k]
    BY AppendProperties
  <2> HIDE DEF u
  <2>2. DOMAIN u = 1..Len(u) /\ DOMAIN up = 1..Len(up) /\ Len(up) \in Nat
    BY <2>1, LenProperties
  <2> QED
    BY <1>1, <2>1, <2>2 DEF u
<1>2. ASSUME up # <<>>
      PROVE  /\ Tail(up) \in Seq(Message)
             /\ \A k \in DOMAIN Tail(up) : Asked(p, Tail(up)[k])
  <2> DEFINE u == Tail(up)
  <2>1. /\ u \in Seq(Message) /\ Len(u) = Len(up) - 1 /\ Len(up) \in Nat \ {0}
        /\ \A k \in 1..Len(u) : u[k] = up[k + 1]
    BY <1>2, EmptySeq, HeadTailProperties
  <2> HIDE DEF u
  <2>2. DOMAIN u = 1..Len(u) /\ DOMAIN up = 1..Len(up)
    BY <2>1, LenProperties
  <2>3. ASSUME NEW k \in 1..Len(u) PROVE Asked(p, u[k])
    <3>1. k + 1 \in 1..Len(up)
      BY <2>1
    <3> QED
      BY <2>1, <2>2, <3>1
  <2> QED
    BY <2>1, <2>2, <2>3 DEF u
<1> QED
  BY <1>1, <1>2

\* A step of one socket keeps the sockets in order.
LEMMA OneSocketKeeps ==
    ASSUME SocketsInv, NEW i \in DOMAIN sock, Mild(i) \/ Ending(i) \/ Reopening(i)
    PROVE  SocketsOK(sock', mount, route, app)
<1> DEFINE s == sock[i]
<1>0. /\ SocketsOK(sock, mount, route, app) /\ sock \in Seq(Socket) /\ OneOpen(sock)
      /\ \A j \in DOMAIN sock : Carries(sock[j]) /\ Owned(sock[j], mount, route, app)
  BY DEF SocketsInv, SocketsOK
<1>1. /\ s.page \in AllPages /\ s.owner \in Nat /\ s.st \in States /\ s.up \in Seq(Message)
      /\ s.got \in SUBSET Message
      /\ \A k \in DOMAIN s.up : Asked(s.page, s.up[k])
      /\ \A m \in s.got : Replied(s.page, m)
  BY <1>0, SocketParts DEF Carries
<1>2. {"open", "closing", "closed"} \subseteq States
  BY DEF States
<1>3. CASE Opening(i)
  <2>1. PICK up \in Seq(Message) :
           /\ sock' = Put(sock, i, "open", up, s.got)
           /\ \/ up = s.up
              \/ \E r \in Message : Asked(s.page, r) /\ up = Append(s.up, r)
    BY <1>3 DEF Opening
  <2>2. \A k \in DOMAIN up : Asked(s.page, up[k])
    BY <1>1, <2>1, AskedMore
  <2>3. s.st # "closed"
    BY <1>3 DEF Opening
  <2> QED
    BY <1>0, <1>1, <1>2, <2>1, <2>2, <2>3, PutKeeps
<1>4. CASE Sending(i)
  <2>1. PICK r \in Message :
           Asked(s.page, r) /\ sock' = Put(sock, i, "open", Append(s.up, r), s.got)
    BY <1>4 DEF Sending
  <2>2. /\ Append(s.up, r) \in Seq(Message)
        /\ \A k \in DOMAIN Append(s.up, r) : Asked(s.page, Append(s.up, r)[k])
    BY <1>1, <2>1, AskedMore
  <2>3. s.st # "closed"
    BY <1>4 DEF Sending
  <2> QED
    BY <1>0, <1>1, <1>2, <2>1, <2>2, <2>3, PutKeeps
<1>5. CASE Dropping(i)
  <2>1. PICK a \in SUBSET s.got : sock' = Put(sock, i, "closing", <<>>, a)
    BY <1>5 DEF Dropping
  <2>2. /\ <<>> \in Seq(Message) /\ a \in SUBSET Message
        /\ \A k \in DOMAIN <<>> : Asked(s.page, <<>>[k])
        /\ \A m \in a : Replied(s.page, m)
    BY <1>1, EmptySeq
  <2>3. s.st # "closed"
    BY <1>5 DEF Dropping
  <2> QED
    BY <1>0, <1>2, <2>1, <2>2, <2>3, PutKeeps
<1>6. CASE Answering(i)
  <2>1. PICK a \in SUBSET Message :
           /\ \A m \in a : Fits(s.page, Head(s.up), m)
           /\ sock' = Put(sock, i, "open", Tail(s.up), s.got \cup a)
    BY <1>6 DEF Answering
  <2>2. s.up # <<>> /\ s.st # "closed"
    BY <1>6 DEF Answering
  <2>3. /\ Tail(s.up) \in Seq(Message)
        /\ \A k \in DOMAIN Tail(s.up) : Asked(s.page, Tail(s.up)[k])
    BY <1>1, <2>2, AskedMore
  <2>4. s.got \cup a \in SUBSET Message /\ \A m \in s.got \cup a : Replied(s.page, m)
    BY <1>1, <2>1 DEF Fits
  <2> QED
    BY <1>0, <1>2, <2>1, <2>2, <2>3, <2>4, PutKeeps
<1>7. ASSUME NEW m \in s.got, Decoding(i, m) PROVE SocketsOK(sock', mount, route, app)
  <2>1. sock' = Put(sock, i, s.st, s.up, s.got \ {m}) /\ s.got \ {m} \in SUBSET Message
    BY <1>1, <1>7 DEF Decoding
  <2>2. \A x \in s.got \ {m} : Replied(s.page, x)
    BY <1>1
  <2> QED
    BY <1>0, <1>1, <2>1, <2>2, PutKeeps
<1>8. s.st = "closing" => SocketsOK(Put(sock, i, "closed", s.up, s.got), mount, route, app)
  BY <1>0, <1>1, <1>2, PutKeeps
<1>9. CASE Ending(i)
  BY <1>8, <1>9 DEF Ending
<1>10. CASE Reopening(i)
  <2> DEFINE tt == Put(sock, i, "closed", s.up, s.got)
  <2>1. s.st = "closing" /\ sock' = Append(tt, NewSocket(s.page, s.owner))
    BY <1>10 DEF Reopening
  <2>2. /\ SocketsOK(tt, mount, route, app) /\ DOMAIN tt = DOMAIN sock
        /\ \A j \in DOMAIN sock : j # i => tt[j] = sock[j]
        /\ tt[i].page = s.page /\ tt[i].owner = s.owner /\ tt[i].st = "closed"
    BY <1>0, <1>1, <1>2, <1>8, <2>1, PutFacts
  <2> HIDE DEF tt
  <2>3. s.owner \in 1..mount /\ s.page \in Pages(app) /\ (s.owner = mount => s.page = route)
    BY <1>0 DEF Owned
  <2>4. ASSUME NEW j \in DOMAIN tt, tt[j].owner = s.owner
        PROVE  tt[j].page = s.page /\ (s.page # "gm" => tt[j].st = "closed")
    <3>1. CASE j = i
      BY <2>2, <3>1
    <3>2. CASE j # i
      BY <1>0, <2>1, <2>2, <2>4, <3>2 DEF OneOpen
    <3> QED
      BY <3>1, <3>2
  <2> QED
    BY <1>1, <2>1, <2>2, <2>3, <2>4, AppendKeeps
<1> QED
  BY <1>3, <1>4, <1>5, <1>6, <1>7, <1>9, <1>10 DEF Mild

LEMMA TouchedKeeps ==
    ASSUME SocketsInv, Touched, UNCHANGED <<app, route>> PROVE SocketsInv'
<1>0. PlaceInv /\ SocketsOK(sock, mount, route, app)
  BY DEF SocketsInv
<1>1. UNCHANGED mount /\ PlaceInv'
  <2>1. /\ UNCHANGED mount /\ closes' \in {closes, closes + 1} /\ closes' \in {closes} \cup 0..MaxClose
        /\ sent' \in {sent, sent + 1} /\ sent' \in {sent} \cup 0..MaxSend
    <3>1. sent \in Nat /\ closes \in Nat /\ MaxSend \in Nat /\ MaxClose \in Nat
      BY <1>0, SocketAssumption DEF PlaceInv
    <3>2. CASE Quiet
      BY <3>1, <3>2 DEF Quiet
    <3>3. CASE Adding
      BY <3>1, <3>3 DEF Adding
    <3>4. ASSUME NEW i \in DOMAIN sock, Dropping(i) \/ Sending(i)
          PROVE  /\ UNCHANGED mount /\ closes' \in {closes, closes + 1} /\ closes' \in {closes} \cup 0..MaxClose
                 /\ sent' \in {sent, sent + 1} /\ sent' \in {sent} \cup 0..MaxSend
      <4>1. CASE Dropping(i)
        BY <3>1, <4>1 DEF Dropping
      <4>2. CASE Sending(i)
        <5>1. /\ UNCHANGED <<mount, closes>>
              /\ \/ sent' = sent + 1 /\ sent' <= MaxSend
                 \/ sent' = sent
          BY <4>2 DEF Sending
        <5> QED
          BY <3>1, <5>1
      <4> QED
        BY <3>4, <4>1, <4>2
    <3>5. ASSUME NEW i \in DOMAIN sock,
                 Opening(i) \/ Answering(i) \/ Ending(i) \/ Reopening(i) \/ \E m \in sock[i].got : Decoding(i, m)
          PROVE  UNCHANGED <<mount, sent, closes>>
      BY <3>5 DEF Opening, Answering, Ending, Reopening, Decoding
    <3> QED
      BY <3>2, <3>3, <3>4, <3>5 DEF Touched, Gentle, Mild
  <2> QED
    BY <1>0, <2>1 DEF PlaceInv
<1>2. SocketsOK(sock', mount, route, app)
  <2>1. CASE Quiet
    BY <1>0, <2>1 DEF Quiet
  <2>2. CASE Adding
    <3>1. route = "gm" /\ sock' = Append(sock, NewSocket("gm", mount))
      BY <2>2 DEF Adding
    <3>2. /\ mount \in 1..mount /\ mount \in Nat /\ "gm" \in AllPages /\ "gm" \in Pages(app)
      BY <1>0, <3>1 DEF PlaceInv, AllPages
    <3>3. \A j \in DOMAIN sock : sock[j].owner = mount => sock[j].page = "gm"
      BY <1>0, <3>1 DEF SocketsOK, Owned
    <3> QED
      BY <1>0, <3>1, <3>2, <3>3, AppendKeeps
  <2>3. ASSUME NEW i \in DOMAIN sock, Mild(i) \/ Ending(i) \/ Reopening(i)
        PROVE  SocketsOK(sock', mount, route, app)
    BY <2>3, OneSocketKeeps
  <2> QED
    BY <2>1, <2>2, <2>3 DEF Touched, Gentle
<1> QED
  BY <1>1, <1>2 DEF SocketsInv

\* Leaving a page: what the sockets of the console and the GM page carry is
\* gone, and the next page may have a socket of its own.
Moving ==
    /\ mount' = mount + 1 /\ mount' <= MaxMount /\ UNCHANGED <<sent, closes, app>>
    /\ route' \in Pages(app) \cup {"404"}
    /\ \E tt \in Seq(Socket) :
          /\ Emptied(sock, tt) /\ SocketsOK(tt, mount', route', app) /\ Len(tt) = Len(sock)
          /\ \A i \in DOMAIN tt : tt[i].owner # mount'
          /\ \A i \in DOMAIN tt : tt[i].page # "exportTable" => tt[i].up = <<>> /\ tt[i].got = {}
          /\ \/ sock' = tt
             \/ route' # "404" /\ sock' = Append(tt, NewSocket(route', mount'))

PutBoth(s, up, got) == [s EXCEPT !.up = up, !.got = got]
PutThree(s, st, up, got) == [s EXCEPT !.st = st, !.up = up, !.got = got]

LEMMA BothForm ==
    ASSUME NEW s \in Socket, NEW up, NEW got
    PROVE  PutBoth(s, up, got) = Rec(s.page, s.owner, s.st, up, got)
<1> DEFINE a == [s EXCEPT !.up = up]
<1>1. a = Rec(s.page, s.owner, s.st, up, s.got)
  BY IsRec, RecForms
<1> HIDE DEF a
<1>2. [a EXCEPT !.got = got] = Rec(s.page, s.owner, s.st, up, got)
  BY <1>1, RecForms
<1> QED
  BY <1>2 DEF a, PutBoth

LEMMA ThreeForm ==
    ASSUME NEW s \in Socket, NEW st, NEW up, NEW got
    PROVE  PutThree(s, st, up, got) = Rec(s.page, s.owner, st, up, got)
<1> DEFINE b == [s EXCEPT !.st = st]
           c == [b EXCEPT !.up = up]
<1>1. b = Rec(s.page, s.owner, st, s.up, s.got)
  BY IsRec, RecForms
<1> HIDE DEF b
<1>2. c = Rec(s.page, s.owner, st, up, s.got)
  BY <1>1, RecForms
<1> HIDE DEF c
<1>3. [c EXCEPT !.got = got] = Rec(s.page, s.owner, st, up, got)
  BY <1>2, RecForms
<1> QED
  BY <1>3 DEF b, c, PutThree

\* s, emptied
IsEmptied(s, e, st) ==
    /\ e \in Socket /\ e.page = s.page /\ e.owner = s.owner /\ e.st = st
    /\ e.up = <<>> /\ e.got = {}

LEMMA EmptyRec ==
    ASSUME NEW s \in Socket, NEW st \in States
    PROVE  IsEmptied(s, Rec(s.page, s.owner, st, <<>>, {}), st)
<1>1. <<>> \in Seq(Message)
  BY EmptySeq
<1> QED
  BY <1>1 DEF Rec, Socket, IsEmptied

LEMMA LeftFacts ==
    ASSUME NEW s \in Socket
    PROVE  \/ s.page = "exportTable" /\ Left(s) = s
           \/ s.page # "exportTable" /\ IsEmptied(s, Left(s), s.st)
<1>1. CASE s.page = "exportTable"
  BY <1>1 DEF Left
<1>2. CASE s.page # "exportTable"
  <2>1. Left(s) = PutBoth(s, <<>>, {})
    BY <1>2 DEF Left, PutBoth
  <2>2. Left(s) = Rec(s.page, s.owner, s.st, <<>>, {})
    BY <2>1, BothForm
  <2>3. s.st \in States
    BY DEF Socket
  <2> QED
    BY <1>2, <2>2, <2>3, EmptyRec
<1> QED
  BY <1>1, <1>2

LEMMA GoToMoves ==
    ASSUME SocketsInv, NEW r \in Pages(app) \cup {"404"}, GoTo(r) PROVE Moving
<1> DEFINE tt == [i \in DOMAIN sock |-> Left(sock[i])]
<1>1. /\ SocketsOK(sock, mount, route, app) /\ sock \in Seq(Socket) /\ mount \in Nat /\ MaxMount \in Nat
  BY SocketAssumption DEF SocketsInv, SocketsOK, PlaceInv
<1>2. /\ mount' = mount + 1 /\ mount' <= MaxMount /\ route' = r /\ UNCHANGED <<sent, closes, app>>
      /\ sock' = IF r = "404" THEN tt ELSE Append(tt, NewSocket(r, mount'))
  BY <1>1 DEF GoTo
<1>3. ASSUME NEW i \in DOMAIN sock
      PROVE  /\ Left(sock[i]) \in Socket /\ Left(sock[i]).page = sock[i].page
             /\ Left(sock[i]).owner = sock[i].owner /\ Left(sock[i]).st = sock[i].st
             /\ \/ Left(sock[i]).up = sock[i].up /\ Left(sock[i]).got = sock[i].got
                \/ Left(sock[i]).up = <<>> /\ Left(sock[i]).got = {}
             /\ sock[i].page # "exportTable" => Left(sock[i]).up = <<>> /\ Left(sock[i]).got = {}
  <2>1. sock[i] \in Socket /\ sock[i].st \in States
    BY <1>1, SocketParts
  <2> QED
    BY <2>1, LeftFacts DEF IsEmptied
<1>4. Emptied(sock, tt) /\ tt = [i \in DOMAIN sock |-> tt[i]]
  BY <1>3 DEF Emptied
<1>5. \A i \in DOMAIN tt : tt[i].page # "exportTable" => tt[i].up = <<>> /\ tt[i].got = {}
  BY <1>3
<1> HIDE DEF tt
<1>6. /\ SocketsOK(tt, mount + 1, r, app) /\ Len(tt) = Len(sock)
      /\ \A i \in DOMAIN tt : tt[i].owner # mount + 1
  BY <1>1, <1>4, EmptiedKeeps
<1>7. tt \in Seq(Socket)
  BY <1>6 DEF SocketsOK
<1>8. \/ sock' = tt
      \/ route' # "404" /\ sock' = Append(tt, NewSocket(route', mount'))
  BY <1>2
<1> QED
  BY <1>2, <1>4, <1>5, <1>6, <1>7, <1>8 DEF Moving

LEMMA RefreshMoves ==
    ASSUME SocketsInv, Refresh PROVE Moving
<1> DEFINE e(s) == [s EXCEPT !.st = "closed", !.up = <<>>, !.got = {}]
           tt == [i \in DOMAIN sock |-> e(sock[i])]
<1>1. /\ SocketsOK(sock, mount, route, app) /\ sock \in Seq(Socket) /\ mount \in Nat /\ MaxMount \in Nat
      /\ route \in Pages(app) \cup {"404"}
  BY SocketAssumption DEF SocketsInv, SocketsOK, PlaceInv
<1>2. /\ mount' = mount + 1 /\ mount' <= MaxMount /\ UNCHANGED <<sent, closes, app, route>>
      /\ route # "404"
  <2>1. mount' = mount + 1 /\ mount < MaxMount /\ UNCHANGED <<sent, closes, app, route>>
    BY DEF Refresh
  <2>2. route # "404"
    BY DEF Refresh
  <2> QED
    BY <1>1, <2>1, <2>2
<1>3. ASSUME NEW i \in DOMAIN sock
      PROVE  /\ e(sock[i]) \in Socket /\ e(sock[i]).page = sock[i].page
             /\ e(sock[i]).owner = sock[i].owner /\ e(sock[i]).st = "closed"
             /\ e(sock[i]).up = <<>> /\ e(sock[i]).got = {}
  <2>1. sock[i] \in Socket /\ "closed" \in States
    BY <1>1, SocketParts DEF States
  <2>2. e(sock[i]) = PutThree(sock[i], "closed", <<>>, {})
    BY DEF PutThree
  <2>3. e(sock[i]) = Rec(sock[i].page, sock[i].owner, "closed", <<>>, {})
    BY <2>1, <2>2, ThreeForm
  <2>4. IsEmptied(sock[i], e(sock[i]), "closed")
    BY <2>1, <2>3, EmptyRec
  <2> QED
    BY <2>4 DEF IsEmptied
<1>4. sock' = Append(tt, NewSocket(route', mount'))
  BY <1>2 DEF Refresh
<1> HIDE DEF e
<1>5. Emptied(sock, tt) /\ tt = [i \in DOMAIN sock |-> tt[i]]
  BY <1>3 DEF Emptied
<1>6. \A i \in DOMAIN tt : tt[i].page # "exportTable" => tt[i].up = <<>> /\ tt[i].got = {}
  BY <1>3
<1> HIDE DEF tt
<1>7. /\ SocketsOK(tt, mount + 1, route, app) /\ Len(tt) = Len(sock)
      /\ \A i \in DOMAIN tt : tt[i].owner # mount + 1
  BY <1>1, <1>5, EmptiedKeeps
<1>8. tt \in Seq(Socket)
  BY <1>7 DEF SocketsOK
<1> QED
  BY <1>1, <1>2, <1>4, <1>5, <1>6, <1>7, <1>8 DEF Moving

LEMMA MovingKeeps == ASSUME SocketsInv, Moving PROVE SocketsInv'
<1>1. PICK tt \in Seq(Socket) :
         /\ SocketsOK(tt, mount', route', app)
         /\ \A i \in DOMAIN tt : tt[i].owner # mount'
         /\ \/ sock' = tt
            \/ route' # "404" /\ sock' = Append(tt, NewSocket(route', mount'))
  BY DEF Moving
<1>2. PlaceInv' /\ mount' \in Nat /\ mount' \in 1..mount' /\ app' = app
  BY SocketAssumption DEF SocketsInv, PlaceInv, Moving
<1>3. CASE sock' = tt
  BY <1>1, <1>2, <1>3 DEF SocketsInv
<1>4. CASE route' # "404" /\ sock' = Append(tt, NewSocket(route', mount'))
  <2>1. route' \in Pages(app) /\ route' \in AllPages
    BY <1>4 DEF Moving, Pages, AllPages
  <2>2. SocketsOK(sock', mount', route', app)
    BY <1>1, <1>2, <1>4, <2>1, AppendKeeps
  <2> QED
    BY <1>2, <2>2 DEF SocketsInv
<1> QED
  BY <1>1, <1>3, <1>4

-----------------------------------------------------------------------------
(* The clients, the dialog and the timers keep their sockets.              *)

LEMMA PutParts ==
    ASSUME NEW ss, NEW i \in DOMAIN ss, NEW st, NEW up, NEW got
    PROVE  LET tt == Put(ss, i, st, up, got)
           IN  /\ DOMAIN tt = DOMAIN ss /\ \A j \in DOMAIN ss : j # i => tt[j] = ss[j]
               /\ tt[i].page = ss[i].page /\ tt[i].owner = ss[i].owner
               /\ tt[i].st = st /\ tt[i].up = up /\ tt[i].got = got
<1> DEFINE s == Rec(ss[i].page, ss[i].owner, st, up, got)
           tt == [ss EXCEPT ![i] = s]
<1>1. /\ DOMAIN tt = DOMAIN ss /\ tt[i] = s /\ \A j \in DOMAIN ss : j # i => tt[j] = ss[j]
  OBVIOUS
<1>2. /\ s.page = ss[i].page /\ s.owner = ss[i].owner /\ s.st = st /\ s.up = up /\ s.got = got
  BY RecForms
<1> HIDE DEF s
<1> QED
  BY <1>1, <1>2 DEF Put, s

LEMMA AppendParts ==
    ASSUME NEW ss \in Seq(Socket), NEW p \in AllPages, NEW o \in Nat
    PROVE  LET tt == Append(ss, NewSocket(p, o))
           IN  /\ tt \in Seq(Socket) /\ Len(tt) = Len(ss) + 1 /\ Len(ss) \in Nat
               /\ DOMAIN tt = DOMAIN ss \cup {Len(ss) + 1} /\ Len(ss) + 1 \notin DOMAIN ss
               /\ \A j \in DOMAIN ss : tt[j] = ss[j]
               /\ tt[Len(ss) + 1] = NewSocket(p, o)
<1>1. NewSocket(p, o) \in Socket
  BY NewFacts
<1>2. Len(ss) \in Nat /\ DOMAIN ss = 1..Len(ss)
  BY LenProperties
<1> DEFINE s == NewSocket(p, o)
<1> HIDE DEF s
<1>3. s \in Socket
  BY <1>1 DEF s
<1>4. LET tt == Append(ss, s)
      IN  /\ tt \in Seq(Socket) /\ Len(tt) = Len(ss) + 1
          /\ DOMAIN tt = DOMAIN ss \cup {Len(ss) + 1} /\ Len(ss) + 1 \notin DOMAIN ss
          /\ \A j \in DOMAIN ss : tt[j] = ss[j]
          /\ tt[Len(ss) + 1] = s
  BY <1>2, <1>3, AppendProperties
<1> QED
  BY <1>2, <1>4 DEF s

\* socket c is still there, and if it was a client's it can still be one
Remains(c, ss, tt) == c \in DOMAIN tt /\ tt[c].page = ss[c].page /\ tt[c].owner = ss[c].owner
Stays(c, ss, tt) ==
    /\ Remains(c, ss, tt)
    /\ ss[c].st \in {"open", "closing"} => tt[c].st \in {"open", "closing"}

LEMMA GentleStays ==
    ASSUME SocketsInv, Gentle
    PROVE  UNCHANGED mount /\ \A c \in DOMAIN sock : Stays(c, sock, sock')
<1>0. sock \in Seq(Socket) /\ mount \in Nat
  BY SocketAssumption DEF SocketsInv, SocketsOK, PlaceInv
<1>1. CASE Quiet
  BY <1>1 DEF Quiet, Stays, Remains
<1>2. CASE Adding
  <2>1. sock' = Append(sock, NewSocket("gm", mount)) /\ UNCHANGED mount
    BY <1>2 DEF Adding
  <2>2. /\ DOMAIN sock \subseteq DOMAIN sock' /\ \A j \in DOMAIN sock : sock'[j] = sock[j]
    BY <1>0, <2>1, AppendParts DEF AllPages
  <2> QED
    BY <2>1, <2>2 DEF Stays, Remains
<1>3. ASSUME NEW i \in DOMAIN sock, Mild(i)
      PROVE  UNCHANGED mount /\ \A c \in DOMAIN sock : Stays(c, sock, sock')
  <2>1. UNCHANGED mount
    BY <1>3 DEF Mild, Opening, Sending, Dropping, Answering, Decoding
  <2>2. ASSUME NEW st, NEW up, NEW got, sock' = Put(sock, i, st, up, got),
               sock[i].st \in {"open", "closing"} => st \in {"open", "closing"}
        PROVE  \A c \in DOMAIN sock : Stays(c, sock, sock')
    <3>1. /\ DOMAIN sock' = DOMAIN sock /\ \A j \in DOMAIN sock : j # i => sock'[j] = sock[j]
          /\ sock'[i].page = sock[i].page /\ sock'[i].owner = sock[i].owner /\ sock'[i].st = st
      BY <2>2, PutParts
    <3> QED
      BY <2>2, <3>1 DEF Stays, Remains
  <2>3. CASE Opening(i)
    BY <2>2, <2>3 DEF Opening
  <2>4. CASE Sending(i)
    BY <2>2, <2>4 DEF Sending
  <2>5. CASE Dropping(i)
    BY <2>2, <2>5 DEF Dropping
  <2>6. CASE Answering(i)
    BY <2>2, <2>6 DEF Answering
  <2>7. ASSUME NEW m \in sock[i].got, Decoding(i, m) PROVE \A c \in DOMAIN sock : Stays(c, sock, sock')
    BY <2>2, <2>7 DEF Decoding
  <2> QED
    BY <1>3, <2>1, <2>3, <2>4, <2>5, <2>6, <2>7 DEF Mild
<1> QED
  BY <1>1, <1>2, <1>3 DEF Gentle

LEMMA ClosedStays ==
    ASSUME SocketsInv, NEW i \in DOMAIN sock, Ending(i) \/ Reopening(i)
    PROVE  /\ UNCHANGED mount /\ \A c \in DOMAIN sock : Remains(c, sock, sock')
           /\ \A c \in DOMAIN sock : c # i => Stays(c, sock, sock')
<1> DEFINE tt == Put(sock, i, "closed", sock[i].up, sock[i].got)
<1>0. sock \in Seq(Socket)
  BY DEF SocketsInv, SocketsOK
<1>1. /\ sock[i].page \in AllPages /\ sock[i].owner \in Nat /\ sock[i].up \in Seq(Message)
      /\ sock[i].got \in SUBSET Message /\ "closed" \in States
  BY <1>0, SocketParts DEF States
<1>2. /\ tt \in Seq(Socket) /\ DOMAIN tt = DOMAIN sock /\ \A j \in DOMAIN sock : j # i => tt[j] = sock[j]
      /\ tt[i].page = sock[i].page /\ tt[i].owner = sock[i].owner
  BY <1>0, <1>1, PutFacts
<1>3. sock' = tt \/ sock' = Append(tt, NewSocket(sock[i].page, sock[i].owner))
  BY DEF Ending, Reopening
<1> HIDE DEF tt
<1>4. DOMAIN tt \subseteq DOMAIN sock' /\ \A j \in DOMAIN tt : sock'[j] = tt[j]
  <2>1. CASE sock' = tt
    BY <2>1
  <2>2. CASE sock' = Append(tt, NewSocket(sock[i].page, sock[i].owner))
    <3>1. LET a == Append(tt, NewSocket(sock[i].page, sock[i].owner))
          IN  DOMAIN a = DOMAIN tt \cup {Len(tt) + 1} /\ \A j \in DOMAIN tt : a[j] = tt[j]
      BY <1>1, <1>2, AppendParts
    <3> QED
      BY <2>2, <3>1
  <2> QED
    BY <1>3, <2>1, <2>2
<1>5. UNCHANGED mount
  BY DEF Ending, Reopening
<1> QED
  BY <1>2, <1>4, <1>5 DEF Stays, Remains

LEMMA ClientStays ==
    ASSUME NEW c, NEW p, NEW n, NEW ss, NEW tt, IsClient(c, p, ss, n), c # nil => Stays(c, ss, tt)
    PROVE  IsClient(c, p, tt, n)
  BY DEF IsClient, Stays, Remains

LEMMA OpeningOpens == ASSUME NEW i \in DOMAIN sock, Opening(i) PROVE sock'[i].st = "open"
<1>1. PICK up \in Seq(Message) : sock' = Put(sock, i, "open", up, sock[i].got)
  BY DEF Opening
<1> QED
  BY <1>1, PutParts

LEMMA ConsoleClients ==
    ASSUME SocketsInv, ClientsInv, RefsInv, ConsoleInv, ConsoleStep PROVE ClientsInv'
<1>0. /\ IsClient(cClient, "debug", sock, mount) /\ IsClient(gClient, "gm", sock, mount)
      /\ IsClient(eClient, "exportTable", sock, mount)
  BY DEF ClientsInv
<1>1. UNCHANGED <<gClient, eClient>>
  BY DEF ConsoleStep, gmVars, exportVars
<1>2. CASE Gentle
  <2>1. UNCHANGED mount /\ \A c \in DOMAIN sock : Stays(c, sock, sock')
    BY <1>2, GentleStays
  <2>2. /\ IsClient(cClient, "debug", sock', mount) /\ IsClient(gClient, "gm", sock', mount)
        /\ IsClient(eClient, "exportTable", sock', mount)
    <3>1. \A c : c # nil /\ c \in {cClient, gClient, eClient} => c \in DOMAIN sock
      BY <1>0 DEF IsClient
    <3> QED
      BY <1>0, <2>1, <3>1, ClientStays
  <2>3. IsClient(cClient', "debug", sock', mount)
    <3>1. CASE cClient' = cClient
      BY <2>2, <3>1
    <3>2. CASE cClient' = nil
      BY <3>2 DEF IsClient
    <3>3. ASSUME NEW i \in DOMAIN sock, ConsoleOpened(i), cClient' = i, Mounted(i)
          PROVE  IsClient(cClient', "debug", sock', mount)
      <4>1. sock'[i].st = "open"
        BY <3>3, OpenedAs, OpeningOpens
      <4>2. sock[i].page = "debug" /\ sock[i].owner = mount
        BY <3>3 DEF ConsoleOpened, Mounted
      <4> QED
        BY <2>1, <3>3, <4>1, <4>2 DEF IsClient, Stays, Remains
    <3>4. \/ cClient' \in {cClient, nil}
          \/ \E i \in DOMAIN sock : ConsoleOpened(i) /\ cClient' = i /\ Mounted(i)
      BY DEF ConsoleStep, ConsoleUser, OnClickClearListButton, OnSubmitCommand, OnHotfix, SelectPane,
             HotfixOk, HotfixCancel, ConsoleEvent, ConsoleOpened, ConsoleClosed, ConsoleMessage,
             SetServerPanes, SetConsoleResponse, ConsoleAnswer, consoleVars
    <3> QED
      BY <3>1, <3>2, <3>3, <3>4
  <2> QED
    BY <1>1, <2>1, <2>2, <2>3 DEF ClientsInv
<1>3. ASSUME NEW i \in DOMAIN sock, ConsoleClosed(i), Reopening(i) PROVE ClientsInv'
  <2>1. UNCHANGED mount /\ \A c \in DOMAIN sock : c # i => Stays(c, sock, sock')
    BY <1>3, ClosedStays
  <2>2. /\ sock[i].page = "debug" /\ cClient' = IF sock[i].owner = mount THEN nil ELSE cClient
    BY <1>3 DEF ConsoleClosed, Mounted
  <2>3. /\ gClient # nil => Stays(gClient, sock, sock')
        /\ eClient # nil => Stays(eClient, sock, sock')
        /\ cClient' # nil => cClient' = cClient /\ Stays(cClient, sock, sock')
    BY <1>0, <2>1, <2>2 DEF IsClient
  <2>4. IsClient(gClient, "gm", sock', mount) /\ IsClient(eClient, "exportTable", sock', mount)
    BY <1>0, <2>3, ClientStays
  <2>5. IsClient(cClient', "debug", sock', mount)
    <3>1. CASE cClient' = nil
      BY <3>1 DEF IsClient
    <3>2. CASE cClient' # nil
      BY <1>0, <2>3, <3>2, ClientStays
    <3> QED
      BY <3>1, <3>2
  <2> QED
    BY <1>1, <2>1, <2>4, <2>5 DEF ClientsInv
<1> QED
  BY <1>2, <1>3, ConsoleTouches

LEMMA GmClients ==
    ASSUME SocketsInv, ClientsInv, RefsInv, GmInv, GmStep PROVE ClientsInv'
<1>0. /\ IsClient(cClient, "debug", sock, mount) /\ IsClient(gClient, "gm", sock, mount)
      /\ IsClient(eClient, "exportTable", sock, mount)
  BY DEF ClientsInv
<1>1. UNCHANGED <<cClient, eClient>>
  BY DEF GmStep, consoleVars, exportVars
<1>2. CASE Gentle
  <2>1. UNCHANGED mount /\ \A c \in DOMAIN sock : Stays(c, sock, sock')
    BY <1>2, GentleStays
  <2>2. /\ IsClient(cClient, "debug", sock', mount) /\ IsClient(gClient, "gm", sock', mount)
        /\ IsClient(eClient, "exportTable", sock', mount)
    <3>1. \A c : c # nil /\ c \in {cClient, gClient, eClient} => c \in DOMAIN sock
      BY <1>0 DEF IsClient
    <3> QED
      BY <1>0, <2>1, <3>1, ClientStays
  <2>3. IsClient(gClient', "gm", sock', mount)
    <3>1. CASE gClient' = gClient
      BY <2>2, <3>1
    <3>2. CASE gClient' = nil
      BY <3>2 DEF IsClient
    <3>3. ASSUME NEW i \in DOMAIN sock, GmOpened(i), gClient' = i, Mounted(i)
          PROVE  IsClient(gClient', "gm", sock', mount)
      <4>1. sock'[i].st = "open"
        BY <3>3, OpenedAs, OpeningOpens
      <4>2. sock[i].page = "gm" /\ sock[i].owner = mount
        BY <3>3 DEF GmOpened, Mounted
      <4> QED
        BY <2>1, <3>3, <4>1, <4>2 DEF IsClient, Stays, Remains
    <3>4. \/ gClient' \in {gClient, nil}
          \/ \E i \in DOMAIN sock : GmOpened(i) /\ gClient' = i /\ Mounted(i)
      BY DEF GmStep, GmUser, OnClickGmCommand, OnCommandSelected, OnReset, OnValuesChange,
             OnSubmitGMCommand, DelayedSend, GmEvent, GmOpened, GmClosed, GmMessage, SetGMData,
             GmAnswer, gmVars
    <3> QED
      BY <3>1, <3>2, <3>3, <3>4
  <2> QED
    BY <1>1, <2>1, <2>2, <2>3 DEF ClientsInv
<1>3. ASSUME NEW i \in DOMAIN sock, GmClosed(i), Ending(i) PROVE ClientsInv'
  <2>1. UNCHANGED mount /\ \A c \in DOMAIN sock : c # i => Stays(c, sock, sock')
    BY <1>3, ClosedStays
  <2>2. /\ sock[i].page = "gm"
        /\ gClient' = IF sock[i].owner = mount /\ gClient # nil THEN nil ELSE gClient
    BY <1>3 DEF GmClosed, Mounted
  <2>3. /\ cClient # nil => Stays(cClient, sock, sock')
        /\ eClient # nil => Stays(eClient, sock, sock')
        /\ gClient' # nil => gClient' = gClient /\ Stays(gClient, sock, sock')
    BY <1>0, <2>1, <2>2 DEF IsClient
  <2>4. IsClient(cClient, "debug", sock', mount) /\ IsClient(eClient, "exportTable", sock', mount)
    BY <1>0, <2>3, ClientStays
  <2>5. IsClient(gClient', "gm", sock', mount)
    <3>1. CASE gClient' = nil
      BY <3>1 DEF IsClient
    <3>2. CASE gClient' # nil
      BY <1>0, <2>3, <3>2, ClientStays
    <3> QED
      BY <3>1, <3>2
  <2> QED
    BY <1>1, <2>1, <2>4, <2>5 DEF ClientsInv
<1> QED
  BY <1>2, <1>3, GmTouches

LEMMA ExportClients ==
    ASSUME SocketsInv, ClientsInv, RefsInv, ExportInv, ExportStep PROVE ClientsInv'
<1>0. /\ IsClient(cClient, "debug", sock, mount) /\ IsClient(gClient, "gm", sock, mount)
      /\ IsClient(eClient, "exportTable", sock, mount)
  BY DEF ClientsInv
<1>1. UNCHANGED <<cClient, gClient>>
  BY DEF ExportStep, consoleVars, gmVars
<1>2. CASE Gentle
  <2>1. UNCHANGED mount /\ \A c \in DOMAIN sock : Stays(c, sock, sock')
    BY <1>2, GentleStays
  <2>2. /\ IsClient(cClient, "debug", sock', mount) /\ IsClient(gClient, "gm", sock', mount)
        /\ IsClient(eClient, "exportTable", sock', mount)
    <3>1. \A c : c # nil /\ c \in {cClient, gClient, eClient} => c \in DOMAIN sock
      BY <1>0 DEF IsClient
    <3> QED
      BY <1>0, <2>1, <3>1, ClientStays
  <2>3. IsClient(eClient', "exportTable", sock', mount)
    <3>1. CASE eClient' = eClient
      BY <2>2, <3>1
    <3>2. CASE eClient' = nil
      BY <3>2 DEF IsClient
    <3>3. ASSUME NEW i \in DOMAIN sock, ExportOpened(i), eClient' = i, Mounted(i)
          PROVE  IsClient(eClient', "exportTable", sock', mount)
      <4>1. sock'[i].st = "open"
        BY <3>3, OpenedAs, OpeningOpens
      <4>2. sock[i].page = "exportTable" /\ sock[i].owner = mount
        BY <3>3 DEF ExportOpened, Mounted
      <4> QED
        BY <2>1, <3>3, <4>1, <4>2 DEF IsClient, Stays, Remains
    <3>4. \/ eClient' \in {eClient, nil}
          \/ \E i \in DOMAIN sock : ExportOpened(i) /\ eClient' = i /\ Mounted(i)
      BY DEF ExportStep, ExportUser, ToggleConfig, OnSubmitConfig, DoExportTable, DoFindSheet,
             ExportEvent, ExportOpened, ExportClosed, ExportMessage, AddLine, ExportAnswer, exportVars
    <3> QED
      BY <3>1, <3>2, <3>3, <3>4
  <2> QED
    BY <1>1, <2>1, <2>2, <2>3 DEF ClientsInv
<1>3. ASSUME NEW i \in DOMAIN sock, ExportClosed(i), Reopening(i) PROVE ClientsInv'
  <2>1. UNCHANGED mount /\ \A c \in DOMAIN sock : c # i => Stays(c, sock, sock')
    BY <1>3, ClosedStays
  <2>2. /\ sock[i].page = "exportTable" /\ eClient' = IF sock[i].owner = mount THEN nil ELSE eClient
    BY <1>3 DEF ExportClosed, Mounted
  <2>3. /\ cClient # nil => Stays(cClient, sock, sock')
        /\ gClient # nil => Stays(gClient, sock, sock')
        /\ eClient' # nil => eClient' = eClient /\ Stays(eClient, sock, sock')
    BY <1>0, <2>1, <2>2 DEF IsClient
  <2>4. IsClient(cClient, "debug", sock', mount) /\ IsClient(gClient, "gm", sock', mount)
    BY <1>0, <2>3, ClientStays
  <2>5. IsClient(eClient', "exportTable", sock', mount)
    <3>1. CASE eClient' = nil
      BY <3>1 DEF IsClient
    <3>2. CASE eClient' # nil
      BY <1>0, <2>3, <3>2, ClientStays
    <3> QED
      BY <3>1, <3>2
  <2> QED
    BY <1>1, <2>1, <2>4, <2>5 DEF ClientsInv
<1> QED
  BY <1>2, <1>3, ExportTouches

LEMMA TouchedRemains ==
    ASSUME SocketsInv, Touched PROVE UNCHANGED mount /\ \A c \in DOMAIN sock : Remains(c, sock, sock')
  BY GentleStays, ClosedStays DEF Touched, Stays

LEMMA RefsStay ==
    ASSUME RefsInv, \A c \in DOMAIN sock : Remains(c, sock, sock')
    PROVE  IsDialog(confirm, sock') /\ AreTimers(timers, sock')
  BY DEF RefsInv, IsDialog, AreTimers, Remains

LEMMA ConsoleRefs ==
    ASSUME SocketsInv, ClientsInv, RefsInv, Touched, ConsoleStep PROVE RefsInv'
<1>1. IsDialog(confirm, sock') /\ AreTimers(timers, sock') /\ UNCHANGED timers
  BY TouchedRemains, RefsStay DEF ConsoleStep, gmVars
<1>2. confirm' \in {confirm, <<>>, <<cClient>>}
  BY DEF ConsoleStep, ConsoleUser, OnClickClearListButton, OnSubmitCommand, OnHotfix, SelectPane,
         HotfixOk, HotfixCancel, ConsoleEvent, ConsoleOpened, ConsoleClosed, ConsoleMessage,
         SetServerPanes, SetConsoleResponse, ConsoleAnswer, consoleVars
<1>3. cClient # nil => cClient \in DOMAIN sock /\ sock[cClient].page = "debug"
  BY DEF ClientsInv, IsClient
<1>4. IsDialog(<<cClient>>, sock')
  BY <1>3, TouchedRemains DEF IsDialog, Remains
<1>5. IsDialog(<<>>, sock')
  BY DEF IsDialog
<1> QED
  BY <1>1, <1>2, <1>4, <1>5 DEF RefsInv

LEMMA GmRefs ==
    ASSUME SocketsInv, RefsInv, Touched, GmStep PROVE RefsInv'
<1>0. sock \in Seq(Socket) /\ mount \in Nat /\ sent \in 0..MaxSend /\ MaxSend \in Nat
  BY SocketAssumption DEF SocketsInv, SocketsOK, PlaceInv
<1>1. IsDialog(confirm, sock') /\ AreTimers(timers, sock') /\ UNCHANGED confirm
  BY TouchedRemains, RefsStay DEF GmStep, consoleVars
<1>2. CASE timers' \subseteq timers
  BY <1>1, <1>2 DEF RefsInv, AreTimers
<1>3. CASE OnSubmitGMCommand /\ gClient = nil
  <2>1. /\ sock' = Append(sock, NewSocket("gm", mount)) /\ sent' \in 1..MaxSend
        /\ timers' = timers \cup {[sock |-> Len(sock) + 1, id |-> sent']}
    BY <1>0, <1>3 DEF OnSubmitGMCommand
  <2>2. Len(sock) + 1 \in DOMAIN sock' /\ sock'[Len(sock) + 1] = NewSocket("gm", mount)
    BY <1>0, <2>1, AppendParts DEF AllPages
  <2>3. sock'[Len(sock) + 1].page = "gm"
    BY <2>2 DEF NewSocket
  <2>4. AreTimers(timers', sock')
    BY <1>1, <2>1, <2>2, <2>3 DEF AreTimers
  <2> QED
    BY <1>1, <2>4 DEF RefsInv
<1>4. timers' \subseteq timers \/ (OnSubmitGMCommand /\ gClient = nil)
  BY DEF GmStep, GmUser, OnClickGmCommand, OnCommandSelected, OnReset, OnValuesChange,
         OnSubmitGMCommand, DelayedSend, GmEvent, GmOpened, GmClosed, GmMessage, SetGMData,
         GmAnswer, gmVars
<1> QED
  BY <1>2, <1>3, <1>4

LEMMA ExportRefs ==
    ASSUME SocketsInv, RefsInv, Touched, ExportStep \/ Lose PROVE RefsInv'
<1>1. IsDialog(confirm, sock') /\ AreTimers(timers, sock') /\ UNCHANGED <<confirm, timers>>
  BY TouchedRemains, RefsStay DEF ExportStep, Lose, consoleVars, gmVars
<1> QED
  BY <1>1 DEF RefsInv

-----------------------------------------------------------------------------
(* The values of the GM page.  The answer on the screen is the stored one. *)

LEMMA OfTyped ==
    ASSUME GmInv
    PROVE  \A c \in GmCommand \cup {nil} : Of(formValue, c, 0) \in 0..1
  BY DEF GmInv, Of

LEMMA RendersAgain == Renders(<<"empty", "info">>)
<1>1. 1 \in DOMAIN <<"empty", "info">> /\ <<"empty", "info">>[1] = "empty"
  OBVIOUS
<1>2. "empty" # IF 1 = 1 THEN "info" ELSE <<"empty", "info">>[1 - 1]
  OBVIOUS
<1> QED
  BY <1>1, <1>2 DEF Renders

LEMMA DrawKeeps ==
    ASSUME GmInv, Draw, UNCHANGED gmData, response' \in [GmCommand -> (1..MaxSend) \cup {nil}]
    PROVE  GmInv' /\ ScreenInv'
<1>1. initial' = Of(formValue, gmCommandProps, 0) /\ initial' \in 0..1
  BY OfTyped DEF Draw, GmInv
<1>2. GmInv'
  BY <1>1 DEF GmInv, Draw
<1>3. ScreenInv'
  BY DEF Draw, ScreenInv, Of
<1> QED
  BY <1>2, <1>3

LEMMA ResponseKeeps ==
    ASSUME GmInv, UNCHANGED gmData, NEW c \in GmCommand, NEW data \in (1..MaxSend) \cup {nil},
           SetCommandResponse(c, data)
    PROVE  GmInv' /\ ScreenInv'
<1>1. Draw /\ response' = [response EXCEPT ![c] = data]
  BY RendersAgain DEF SetCommandResponse
<1>2. response' \in [GmCommand -> (1..MaxSend) \cup {nil}]
  BY <1>1 DEF GmInv
<1> QED
  BY <1>1, <1>2, DrawKeeps

LEMMA CommandKeeps ==
    ASSUME GmInv, UNCHANGED gmData, NEW c \in GmCommand \cup {nil}, DrawCommand(c)
    PROVE  GmInv' /\ ScreenInv'
<1>1. Of(formValue, c, 0) \in 0..1
  BY OfTyped
<1>2. GmInv'
  BY <1>1 DEF GmInv, DrawCommand
<1>3. ScreenInv'
  BY DEF DrawCommand, ScreenInv, Of
<1> QED
  BY <1>2, <1>3

LEMMA ReplyOf ==
    ASSUME SocketsInv, NEW i \in DOMAIN sock, NEW m \in sock[i].got
    PROVE  Replied(sock[i].page, m) /\ m \in Message
<1>1. sock \in Seq(Socket) /\ Carries(sock[i])
  BY DEF SocketsInv, SocketsOK
<1> QED
  BY <1>1, SocketParts DEF Carries

LEMMA GmKeeps == ASSUME SocketsInv, GmInv, ScreenInv, GmStep PROVE GmInv' /\ ScreenInv'
<1>0. response \in [GmCommand -> (1..MaxSend) \cup {nil}] /\ gmCommandProps \in GmCommand \cup {nil}
  BY DEF GmInv
<1>1. ASSUME NEW c \in GmCommand, OnClickGmCommand(c) PROVE GmInv' /\ ScreenInv'
  BY <1>0, <1>1, CommandKeeps DEF OnClickGmCommand
<1>2. ASSUME NEW c \in GmCommand \cup {nil}, OnCommandSelected(c) PROVE GmInv' /\ ScreenInv'
  BY <1>2, CommandKeeps DEF OnCommandSelected
<1>3. CASE OnSubmitGMCommand
  <2>1. gmCommandProps \in GmCommand /\ UNCHANGED gmData /\ SetCommandResponse(gmCommandProps, nil)
    BY <1>0, <1>3 DEF OnSubmitGMCommand, FormShown, gmListVars
  <2> QED
    BY <2>1, ResponseKeeps
<1>4. CASE OnReset
  BY <1>4 DEF OnReset, FormShown, gmListVars, GmInv, ScreenInv
<1>5. ASSUME NEW v \in 0..1, OnValuesChange(v) PROVE GmInv' /\ ScreenInv'
  BY <1>5 DEF OnValuesChange, FormShown, gmListVars, GmInv, ScreenInv
<1>6. CASE UNCHANGED <<gmListVars, formVars, response, shown>>
  BY <1>6 DEF gmListVars, formVars, GmInv, ScreenInv
<1>7. CASE Draw /\ UNCHANGED <<response, gmListVars>>
  BY <1>0, <1>7, DrawKeeps DEF gmListVars
<1>8. ASSUME NEW i \in DOMAIN sock, NEW m \in sock[i].got, GmMessage(i, m) PROVE GmInv' /\ ScreenInv'
  <2>1. Replied("gm", m) /\ m \in Message
    BY <1>8, ReplyOf DEF GmMessage
  <2>2. CASE m.type = "gmList" /\ SetGMData(m.list)
    <3>1. m.list \in {{}, GmCommand}
      BY <2>1, <2>2 DEF Replied
    <3>2. formValue' \in [GmCommand -> 0..1]
      BY <2>2 DEF SetGMData, GmInv, NoValues
    <3>3. initial' \in 0..1
      BY <1>0, <2>2, <3>2 DEF SetGMData, Of
    <3>4. field' \in 0..1
      BY <2>2, <3>3 DEF SetGMData, GmInv
    <3>5. GmInv'
      BY <2>2, <3>1, <3>2, <3>3, <3>4 DEF SetGMData, GmInv
    <3>6. ScreenInv'
      BY <2>2 DEF SetGMData, ScreenInv, Of
    <3> QED
      BY <3>5, <3>6
  <2>3. CASE m.type = "gmCommand" /\ m.to # nil /\ SetCommandResponse(m.to, m.id) /\ UNCHANGED gmListVars
    <3>1. m.to \in GmCommand /\ m.id # 0
      BY <2>1, <2>3 DEF Replied
    <3>2. m.id \in 1..MaxSend
      BY <2>1, <3>1, MessageParts
    <3> QED
      BY <2>3, <3>1, <3>2, ResponseKeeps DEF gmListVars
  <2> QED
    BY <1>6, <1>8, <2>2, <2>3 DEF GmMessage
<1>9. \/ \E c \in GmCommand : OnClickGmCommand(c)
      \/ \E c \in GmCommand \cup {nil} : OnCommandSelected(c)
      \/ OnSubmitGMCommand \/ OnReset \/ \E v \in 0..1 : OnValuesChange(v)
      \/ UNCHANGED <<gmListVars, formVars, response, shown>>
      \/ Draw /\ UNCHANGED <<response, gmListVars>>
      \/ \E i \in DOMAIN sock : \E m \in sock[i].got : GmMessage(i, m)
  BY DEF GmStep, GmUser, DelayedSend, GmEvent, GmOpened, GmClosed, GmAnswer, gmVars, gmListVars, formVars
<1> QED
  BY <1>1, <1>2, <1>3, <1>4, <1>5, <1>6, <1>7, <1>8, <1>9

-----------------------------------------------------------------------------
(* The values of the export page and of the console page.                  *)

LEMMA ExportKeeps == ASSUME SocketsInv, ExportInv, ExportStep PROVE ExportInv'
<1>1. CASE UNCHANGED <<configVisible, exportConfig, config>>
  BY <1>1 DEF ExportInv
<1>2. CASE ToggleConfig
  BY <1>2 DEF ToggleConfig, ExportInv
<1>3. ASSUME NEW i \in DOMAIN sock, NEW m \in sock[i].got, ExportMessage(i, m) PROVE ExportInv'
  <2>1. m.id \in 0..MaxSend
    BY ReplyOf, MessageParts
  <2> QED
    BY <1>3, <2>1 DEF ExportMessage, AddLine, ExportInv
<1>4. ASSUME NEW i \in DOMAIN sock, ExportAnswer(i) PROVE ExportInv'
  <2>1. config' \in 0..MaxSend
    BY <1>4, ExportAnswerAs
  <2>2. UNCHANGED <<configVisible, exportConfig>>
    BY <1>4 DEF ExportAnswer
  <2> QED
    BY <2>1, <2>2 DEF ExportInv
<1> QED
  BY <1>1, <1>2, <1>3, <1>4 DEF ExportStep, ExportUser, OnSubmitConfig, DoExportTable, DoFindSheet,
                                ExportEvent, ExportOpened, ExportClosed, exportVars

LEMMA NewContent ==
    ASSUME NEW pane \in Seq(Entry), NEW action \in {"SEND", "RECV"}, NEW n \in Ids
    PROVE  LET q == AddNewContent(pane, action, n)
           IN  /\ q \in Seq(Entry) /\ Len(q) = Len(pane) + 1 /\ Len(pane) \in Nat
               /\ q[1].action = action /\ q[1].id = n
               /\ \A k \in 1..Len(pane) : q[k + 1] = pane[k]
<1> DEFINE e == [action |-> action, id |-> n]
           q == <<e>> \o pane
<1>1. e \in Entry /\ e.action = action /\ e.id = n
  BY DEF Entry, Ids
<1> HIDE DEF e
<1>2. <<e>> \in Seq(Entry) /\ Len(<<e>>) = 1 /\ <<e>>[1] = e
  BY <1>1
<1>3. /\ q \in Seq(Entry) /\ Len(q) = Len(<<e>>) + Len(pane) /\ Len(pane) \in Nat
      /\ \A k \in 1..(Len(<<e>>) + Len(pane)) :
            q[k] = IF k <= Len(<<e>>) THEN <<e>>[k] ELSE pane[k - Len(<<e>>)]
  BY <1>2, ConcatProperties, LenProperties
<1> HIDE DEF q
<1>4. q[1] = e
  BY <1>2, <1>3
<1>5. ASSUME NEW k \in 1..Len(pane) PROVE q[k + 1] = pane[k]
  <2>1. k + 1 \in 1..(Len(<<e>>) + Len(pane)) /\ ~(k + 1 <= Len(<<e>>)) /\ (k + 1) - Len(<<e>>) = k
    BY <1>2, <1>3
  <2> QED
    BY <1>3, <2>1
<1>6. Len(q) = Len(pane) + 1
  BY <1>2, <1>3
<1> QED
  BY <1>1, <1>3, <1>4, <1>5, <1>6 DEF AddNewContent, q, e

\* v is ps with s mounted
Visited(ps, s, resp, v) ==
    /\ DOMAIN v = DOMAIN ps \cup ({s} \ {nil})
    /\ \A x \in DOMAIN ps : v[x] = ps[x]
    /\ s # nil /\ s \notin DOMAIN ps => v[s] = MountedPane(s, resp)

LEMMA VisitFacts ==
    ASSUME NEW ps, NEW s, NEW resp PROVE Visited(ps, s, resp, Visit(ps, s, resp))
<1>1. CASE s = nil \/ s \in DOMAIN ps
  BY <1>1 DEF Visit, Visited
<1>2. CASE ~(s = nil \/ s \in DOMAIN ps)
  BY <1>2 DEF Visit, Visited
<1> QED
  BY <1>1, <1>2

LEMMA VisitDueFacts ==
    ASSUME NEW d, NEW s
    PROVE  /\ DOMAIN VisitDue(d, s) = DOMAIN d \cup ({s} \ {nil})
           /\ \A x \in DOMAIN d : VisitDue(d, s)[x] = d[x]
           /\ s # nil /\ s \notin DOMAIN d => VisitDue(d, s)[s] = {}
<1>1. CASE s = nil \/ s \in DOMAIN d
  BY <1>1 DEF VisitDue
<1>2. CASE ~(s = nil \/ s \in DOMAIN d)
  BY <1>2 DEF VisitDue
<1> QED
  BY <1>1, <1>2

\* what a pane may be addressed
IsResponse(r) == r # nil => r \in [to : Server, id : 1..MaxSend]

LEMMA ResponseTyped ==
    ASSUME NEW pane \in Seq(Entry), NEW s, NEW r, IsResponse(r)
    PROVE  OnResponse(s, pane, r) \in Seq(Entry)
<1>1. CASE r # nil /\ r.to = s
  <2>1. r.id \in Ids
    BY <1>1 DEF IsResponse, Ids
  <2> QED
    BY <1>1, <2>1, NewContent DEF OnResponse
<1>2. CASE ~(r # nil /\ r.to = s)
  BY <1>2 DEF OnResponse
<1> QED
  BY <1>1, <1>2

LEMMA ConsoleKeeps == ASSUME SocketsInv, ConsoleInv, ConsoleStep PROVE ConsoleInv'
<1>0. /\ serverPanes \subseteq Server /\ activePane \in DOMAIN panes \cup {nil}
      /\ DOMAIN panes \subseteq serverPanes /\ DOMAIN due = DOMAIN panes
      /\ \A s \in DOMAIN panes : panes[s] \in Seq(Entry)
      /\ IsResponse(consoleResponse)
  BY DEF ConsoleInv, IsResponse
<1>1. <<>> \in Seq(Entry) /\ nil \notin Server
  BY EmptySeq, ServerAssumption
<1>2. \A s : MountedPane(s, consoleResponse) \in Seq(Entry)
  BY <1>0, <1>1, ResponseTyped DEF MountedPane
<1>3. CASE UNCHANGED <<serverPanes, activePane, consoleResponse, panes, due>>
  BY <1>3 DEF ConsoleInv
<1>4. CASE OnClickClearListButton
  <2>1. activePane \in DOMAIN panes
    BY <1>0, <1>4 DEF OnClickClearListButton, PaneControls
  <2>2. /\ panes' = [panes EXCEPT ![activePane] = <<>>] /\ due' = [due EXCEPT ![activePane] = {}]
        /\ UNCHANGED <<serverPanes, activePane, consoleResponse>>
    BY <1>4 DEF OnClickClearListButton
  <2>3. DOMAIN panes' = DOMAIN panes /\ DOMAIN due' = DOMAIN panes
    BY <1>0, <2>2
  <2>4. \A s \in DOMAIN panes' : panes'[s] \in Seq(Entry)
    BY <1>0, <1>1, <2>2
  <2> QED
    BY <1>0, <2>2, <2>3, <2>4 DEF ConsoleInv, IsResponse
<1>5. CASE OnSubmitCommand
  <2>1. activePane \in DOMAIN panes
    BY <1>0, <1>5 DEF OnSubmitCommand, PaneControls
  <2>2. /\ panes' = [panes EXCEPT ![activePane] = AddNewContent(panes[activePane], "SEND", sent')]
        /\ UNCHANGED <<serverPanes, activePane, consoleResponse, due>> /\ sent < MaxSend /\ sent' = sent + 1
    BY <1>5 DEF OnSubmitCommand
  <2>3. sent' \in Ids
    BY <2>2, SocketAssumption DEF SocketsInv, PlaceInv, Ids
  <2>4. AddNewContent(panes[activePane], "SEND", sent') \in Seq(Entry)
    BY <1>0, <2>1, <2>3, NewContent
  <2>5. DOMAIN panes' = DOMAIN panes /\ \A s \in DOMAIN panes' : panes'[s] \in Seq(Entry)
    BY <1>0, <2>2, <2>4
  <2> QED
    BY <1>0, <2>2, <2>5 DEF ConsoleInv, IsResponse
<1>6. ASSUME NEW s \in Server, SelectPane(s) PROVE ConsoleInv'
  <2>1. /\ s \in serverPanes /\ activePane' = s /\ panes' = Visit(panes, s, consoleResponse)
        /\ due' = VisitDue(due, s) /\ UNCHANGED <<serverPanes, consoleResponse>> /\ s # nil
    BY <1>1, <1>6 DEF SelectPane
  <2>2. /\ DOMAIN panes' = DOMAIN panes \cup {s} /\ DOMAIN due' = DOMAIN panes \cup {s}
        /\ \A x \in DOMAIN panes : panes'[x] = panes[x]
        /\ s \notin DOMAIN panes => panes'[s] = MountedPane(s, consoleResponse)
    <3>1. /\ DOMAIN panes' = DOMAIN panes \cup ({s} \ {nil})
          /\ \A x \in DOMAIN panes : panes'[x] = panes[x]
          /\ s \notin DOMAIN panes => panes'[s] = MountedPane(s, consoleResponse)
      <4>1. Visited(panes, s, consoleResponse, panes')
        BY <2>1, VisitFacts
      <4> QED
        BY <2>1, <4>1 DEF Visited
    <3>2. DOMAIN due' = DOMAIN due \cup ({s} \ {nil})
      BY <2>1, VisitDueFacts, Zenon
    <3>3. {s} \ {nil} = {s}
      BY <2>1
    <3> QED
      BY <1>0, <3>1, <3>2, <3>3, Zenon
  <2>3. \A x \in DOMAIN panes' : panes'[x] \in Seq(Entry)
    BY <1>0, <1>2, <2>2
  <2> QED
    BY <1>0, <2>1, <2>2, <2>3 DEF ConsoleInv, IsResponse
<1>7. ASSUME NEW list \in SUBSET Server, SetServerPanes(list) PROVE ConsoleInv'
  <2>1. PICK a : /\ a \in IF activePane \in list THEN {activePane}
                          ELSE IF list = {} THEN {nil} ELSE list
                 /\ serverPanes' = list /\ activePane' = a
                 /\ panes' = Visit(Kept(panes, list), a, consoleResponse)
                 /\ due' = VisitDue(Kept(due, list), a) /\ UNCHANGED consoleResponse
    BY <1>7 DEF SetServerPanes
  <2>2. a \in list \/ a = nil
    BY <2>1
  <2> DEFINE kp == Kept(panes, list)
             kd == Kept(due, list)
  <2>3. /\ DOMAIN kp = DOMAIN panes \cap list /\ DOMAIN kd = DOMAIN kp
        /\ \A x \in DOMAIN kp : kp[x] = panes[x]
    BY <1>0 DEF Kept
  <2> HIDE DEF kp, kd
  <2>4. /\ DOMAIN panes' = DOMAIN kp \cup ({a} \ {nil}) /\ DOMAIN due' = DOMAIN panes'
        /\ \A x \in DOMAIN kp : panes'[x] = kp[x]
        /\ a # nil /\ a \notin DOMAIN kp => panes'[a] = MountedPane(a, consoleResponse)
    <3>1. panes' = Visit(kp, a, consoleResponse) /\ due' = VisitDue(kd, a)
      BY <2>1 DEF kp, kd
    <3>2. /\ DOMAIN panes' = DOMAIN kp \cup ({a} \ {nil})
          /\ \A x \in DOMAIN kp : panes'[x] = kp[x]
          /\ a # nil /\ a \notin DOMAIN kp => panes'[a] = MountedPane(a, consoleResponse)
      <4>1. Visited(kp, a, consoleResponse, panes')
        BY <3>1, VisitFacts
      <4> QED
        BY <4>1 DEF Visited
    <3>3. DOMAIN due' = DOMAIN kd \cup ({a} \ {nil})
      BY <3>1, VisitDueFacts, Zenon
    <3> QED
      BY <2>3, <3>2, <3>3, Zenon
  <2>5. \A x \in DOMAIN panes' : panes'[x] \in Seq(Entry)
    BY <1>0, <1>2, <2>3, <2>4
  <2>6. DOMAIN panes' \subseteq list /\ activePane' \in DOMAIN panes' \cup {nil}
    BY <2>1, <2>2, <2>3, <2>4
  <2> QED
    BY <1>0, <2>1, <2>4, <2>5, <2>6 DEF ConsoleInv, IsResponse
<1>8. ASSUME NEW m \in Message, m.to \in Server, m.id # 0, SetConsoleResponse(m) PROVE ConsoleInv'
  <2>1. /\ consoleResponse' = [to |-> m.to, id |-> m.id] /\ UNCHANGED <<serverPanes, activePane>>
        /\ panes' = [s \in DOMAIN panes |-> OnResponse(s, panes[s], consoleResponse')]
        /\ DOMAIN due' = DOMAIN due
    BY <1>8 DEF SetConsoleResponse
  <2>2. m.id \in 1..MaxSend
    BY <1>8, MessageParts
  <2>3. IsResponse(consoleResponse')
    BY <1>8, <2>1, <2>2 DEF IsResponse
  <2>4. \A s \in DOMAIN panes' : panes'[s] \in Seq(Entry)
    BY <1>0, <2>1, <2>3, ResponseTyped
  <2> QED
    BY <1>0, <2>1, <2>3, <2>4 DEF ConsoleInv, IsResponse
<1>9. ASSUME NEW i \in DOMAIN sock, NEW m \in sock[i].got, ConsoleMessage(i, m) PROVE ConsoleInv'
  <2>1. Replied("debug", m) /\ m \in Message
    BY <1>9, ReplyOf DEF ConsoleMessage
  <2>2. CASE m.type = "servers" /\ SetServerPanes(m.list)
    <3>1. m.list \in SUBSET Server
      BY <2>1, <2>2 DEF Replied
    <3> QED
      BY <1>7, <2>2, <3>1
  <2>3. CASE m.type \in {"message", "reload"} /\ SetConsoleResponse(m)
    <3>1. m.to \in Server /\ m.id # 0
      BY <2>1, <2>3 DEF Replied
    <3> QED
      BY <1>8, <2>1, <2>3, <3>1
  <2> QED
    BY <1>9, <2>2, <2>3 DEF ConsoleMessage
<1> QED
  BY <1>3, <1>4, <1>5, <1>6, <1>9
     DEF ConsoleStep, ConsoleUser, OnHotfix, HotfixOk, HotfixCancel, ConsoleEvent, ConsoleOpened,
         ConsoleClosed, ConsoleAnswer, consoleVars

-----------------------------------------------------------------------------
(* The pages together.                                                     *)

PagesInv ==
    /\ SocketsInv /\ ClientsInv /\ RefsInv /\ GmInv /\ ScreenInv /\ ExportInv /\ ConsoleInv

LEMMA PagesStart == ASSUME PagesInit PROVE PagesInv
<1> DEFINE s == NewSocket(route, 1)
<1>1. /\ app \in {"web", "xls2lua"} /\ route \in Pages(app) /\ route \in AllPages
      /\ sock = <<s>> /\ mount = 1 /\ sent = 0 /\ closes = 0
  BY DEF PagesInit, Pages, Home, AllPages
<1>2. s \in Socket /\ s.page = route /\ s.owner = 1 /\ Carries(s)
  BY <1>1, NewFacts
<1> HIDE DEF s
<1>3. /\ sock \in Seq(Socket) /\ Len(sock) = 1 /\ DOMAIN sock = {1} /\ sock[1] = s
  BY <1>1, <1>2
<1>4. Owned(s, mount, route, app)
  BY <1>1, <1>2 DEF Owned
<1>5. OneOpen(sock)
  BY <1>3 DEF OneOpen
<1>6. PlaceInv
  BY <1>1, SocketAssumption DEF PlaceInv
<1>7. SocketsInv
  BY <1>1, <1>2, <1>3, <1>4, <1>5, <1>6 DEF SocketsInv, SocketsOK
<1>8. ClientsInv /\ RefsInv
  BY DEF PagesInit, ConsoleInit, GmInit, ExportInit, ClientsInv, IsClient, RefsInv, IsDialog, AreTimers
<1>9. GmInv /\ ScreenInv
  BY DEF PagesInit, GmInit, NoResponse, NoValues, GmInv, ScreenInv
<1>10. ExportInv
  <2>1. config = 0 /\ exportConfig = nil
    BY DEF PagesInit, ExportInit
  <2>2. configVisible \in BOOLEAN
    BY Zenon DEF PagesInit, ExportInit
  <2>3. config \in 0..MaxSend /\ exportConfig \in (0..MaxSend) \cup {nil}
    BY <2>1, SocketAssumption
  <2> QED
    BY <2>2, <2>3 DEF ExportInv
<1>11. ConsoleInv
  BY DEF PagesInit, ConsoleInit, ConsoleInv
<1> QED
  BY <1>7, <1>8, <1>9, <1>10, <1>11 DEF PagesInv

LEMMA ResetKeeps ==
    ASSUME ExportInv, ConsoleReset, GmReset, ExportReset, UNCHANGED config
    PROVE  ClientsInv' /\ GmInv' /\ ScreenInv' /\ ExportInv' /\ ConsoleInv'
<1>1. ClientsInv'
  BY DEF ConsoleReset, GmReset, ExportReset, ClientsInv, IsClient
<1>2. GmInv' /\ ScreenInv'
  BY DEF GmReset, NoResponse, NoValues, GmInv, ScreenInv
<1>3. ExportInv'
  BY DEF ExportReset, ExportInv
<1>4. ConsoleInv'
  BY DEF ConsoleReset, ConsoleInv
<1> QED
  BY <1>1, <1>2, <1>3, <1>4

LEMMA MovingRemains ==
    ASSUME SocketsInv, Moving PROVE \A c \in DOMAIN sock : Remains(c, sock, sock')
<1>1. PICK tt \in Seq(Socket) :
         /\ Emptied(sock, tt)
         /\ \/ sock' = tt
            \/ route' # "404" /\ sock' = Append(tt, NewSocket(route', mount'))
  BY DEF Moving
<1>2. \A c \in DOMAIN sock : Remains(c, sock, tt)
  BY <1>1 DEF Emptied, Remains
<1>3. CASE sock' = tt
  BY <1>2, <1>3
<1>4. CASE route' # "404" /\ sock' = Append(tt, NewSocket(route', mount'))
  <2>1. route' \in AllPages /\ mount' \in Nat
    BY <1>4 DEF Moving, Pages, AllPages, SocketsInv, PlaceInv
  <2>2. DOMAIN tt \subseteq DOMAIN sock' /\ \A c \in DOMAIN tt : sock'[c] = tt[c]
    BY <1>4, <2>1, AppendParts
  <2> QED
    BY <1>2, <2>2 DEF Remains
<1> QED
  BY <1>1, <1>3, <1>4

LEMMA MoveKeeps ==
    ASSUME PagesInv, Navigate \/ BackHome \/ Refresh PROVE PagesInv' /\ Moving
<1>0. SocketsInv /\ RefsInv /\ ExportInv
  BY DEF PagesInv
<1>1. ASSUME NEW r \in Pages(app) \cup {"404"}, GoTo(r) PROVE PagesInv' /\ Moving
  <2>1. Moving
    BY <1>0, <1>1, GoToMoves
  <2>2. SocketsInv'
    BY <1>0, <2>1, MovingKeeps
  <2>3. ClientsInv' /\ GmInv' /\ ScreenInv' /\ ExportInv' /\ ConsoleInv'
    BY <1>0, <1>1, ResetKeeps DEF GoTo
  <2>4. UNCHANGED <<confirm, timers>>
    BY <1>1 DEF GoTo
  <2>5. IsDialog(confirm, sock') /\ AreTimers(timers, sock')
    BY <1>0, <2>1, MovingRemains, RefsStay
  <2>6. RefsInv'
    BY <2>4, <2>5 DEF RefsInv
  <2> QED
    BY <2>1, <2>2, <2>3, <2>6 DEF PagesInv
<1>2. CASE Refresh
  <2>1. Moving
    BY <1>0, <1>2, RefreshMoves
  <2>2. SocketsInv'
    BY <1>0, <2>1, MovingKeeps
  <2>3. ClientsInv' /\ GmInv' /\ ScreenInv' /\ ExportInv' /\ ConsoleInv'
    BY <1>0, <1>2, ResetKeeps DEF Refresh
  <2>4. RefsInv'
    BY <1>2 DEF Refresh, RefsInv, IsDialog, AreTimers
  <2> QED
    BY <2>1, <2>2, <2>3, <2>4 DEF PagesInv
<1>3. Home(app) \in Pages(app)
  BY DEF Home, Pages
<1> QED
  BY <1>1, <1>2, <1>3 DEF Navigate, BackHome

LEMMA StepTouches ==
    ASSUME PagesInv, ConsoleStep \/ GmStep \/ ExportStep \/ Lose
    PROVE  Touched /\ UNCHANGED <<app, route>>
<1>0. SocketsInv /\ ClientsInv /\ RefsInv /\ GmInv /\ ExportInv /\ ConsoleInv
  BY DEF PagesInv
<1>1. UNCHANGED <<app, route>>
  BY DEF ConsoleStep, GmStep, ExportStep, Lose, Here
<1>2. CASE ConsoleStep
  BY <1>0, <1>1, <1>2, ConsoleTouches DEF Touched
<1>3. CASE GmStep
  BY <1>0, <1>1, <1>3, GmTouches DEF Touched
<1>4. CASE ExportStep
  BY <1>0, <1>1, <1>4, ExportTouches DEF Touched
<1>5. CASE Lose
  <2>1. PICK i \in DOMAIN sock : Drop(i)
    BY <1>5 DEF Lose
  <2>2. Dropping(i)
    BY <1>0, <2>1, EventsAs
  <2> QED
    BY <1>1, <2>2 DEF Touched, Gentle, Mild
<1> QED
  BY <1>1, <1>2, <1>3, <1>4, <1>5

LEMMA LoseKeeps == ASSUME PagesInv, Lose PROVE ClientsInv'
<1>0. SocketsInv /\ ClientsInv
  BY DEF PagesInv
<1>1. PICK i \in DOMAIN sock : Drop(i)
  BY DEF Lose
<1>2. Gentle
  BY <1>0, <1>1, EventsAs DEF Gentle, Mild
<1>3. UNCHANGED mount /\ \A c \in DOMAIN sock : Stays(c, sock, sock')
  BY <1>0, <1>2, GentleStays
<1>4. \A c \in {cClient, gClient, eClient} : c # nil => Stays(c, sock, sock')
  BY <1>0, <1>3 DEF ClientsInv, IsClient
<1>5. /\ IsClient(cClient, "debug", sock', mount) /\ IsClient(gClient, "gm", sock', mount)
      /\ IsClient(eClient, "exportTable", sock', mount)
  BY <1>0, <1>4, ClientStays DEF ClientsInv
<1>6. UNCHANGED <<cClient, gClient, eClient>>
  BY DEF Lose, consoleVars, gmVars, exportVars
<1> QED
  BY <1>3, <1>5, <1>6 DEF ClientsInv

LEMMA PagesStep == ASSUME PagesInv, PagesNext PROVE PagesInv'
<1>0. SocketsInv /\ ClientsInv /\ RefsInv /\ GmInv /\ ScreenInv /\ ExportInv /\ ConsoleInv
  BY DEF PagesInv
<1>1. CASE Navigate \/ BackHome \/ Refresh
  BY <1>1, MoveKeeps
<1>2. CASE ConsoleStep \/ GmStep \/ ExportStep \/ Lose
  <2>1. Touched /\ SocketsInv'
    BY <1>0, <1>2, StepTouches, TouchedKeeps
  <2>2. ClientsInv'
    BY <1>0, <1>2, ConsoleClients, GmClients, ExportClients, LoseKeeps
  <2>3. RefsInv'
    BY <1>0, <1>2, <2>1, ConsoleRefs, GmRefs, ExportRefs
  <2>4. GmInv' /\ ScreenInv'
    <3>1. CASE GmStep
      BY <1>0, <3>1, GmKeeps
    <3>2. CASE UNCHANGED gmVars
      BY <1>0, <3>2 DEF gmVars, gmListVars, formVars, GmInv, ScreenInv
    <3> QED
      BY <1>2, <3>1, <3>2 DEF ConsoleStep, ExportStep, Lose
  <2>5. ExportInv'
    <3>1. CASE ExportStep
      BY <1>0, <3>1, ExportKeeps
    <3>2. CASE UNCHANGED exportVars
      BY <1>0, <3>2 DEF exportVars, ExportInv
    <3> QED
      BY <1>2, <3>1, <3>2 DEF ConsoleStep, GmStep, Lose
  <2>6. ConsoleInv'
    <3>1. CASE ConsoleStep
      BY <1>0, <3>1, ConsoleKeeps
    <3>2. CASE UNCHANGED consoleVars
      BY <1>0, <3>2 DEF consoleVars, ConsoleInv
    <3> QED
      BY <1>2, <3>1, <3>2 DEF GmStep, ExportStep, Lose
  <2> QED
    BY <2>1, <2>2, <2>3, <2>4, <2>5, <2>6 DEF PagesInv
<1> QED
  BY <1>1, <1>2 DEF PagesNext

LEMMA PagesStutter == ASSUME PagesInv, UNCHANGED pagesVars PROVE PagesInv'
  BY DEF pagesVars, socketVars, consoleVars, gmVars, gmListVars, formVars, exportVars, PagesInv,
         SocketsInv, PlaceInv, ClientsInv, RefsInv, GmInv, ScreenInv, ExportInv, ConsoleInv

LEMMA NextIs ==
    ASSUME [Next]_vars PROVE PagesNext \/ UNCHANGED pagesVars
  BY DEF Next, vars

LEMMA PagesAlways == FairSpec => []PagesInv
<1>1. Init => PagesInv
  BY PagesStart DEF Init
<1>2. ASSUME PagesInv, [Next]_vars PROVE PagesInv'
  BY <1>2, NextIs, PagesStep, PagesStutter
<1> QED
  BY <1>1, <1>2, PTL DEF FairSpec

\* The client a page keeps is one of its own sockets and not closed, and a
\* page that reconnects by itself never has two sockets at once, in whatever
\* order sockets open and are lost and pages are left and refreshed.
THEOREM PagesHaveOneSocket == FairSpec => []OneSocketPerPage
<1>1. PagesInv => OneSocketPerPage
  <2> SUFFICES ASSUME PagesInv PROVE OneSocketPerPage
    OBVIOUS
  <2>1. ASSUME NEW c \in {cClient, gClient, eClient} \ {nil}
        PROVE  Mounted(c) /\ sock[c].st \in {"open", "closing"}
    BY DEF PagesInv, ClientsInv, IsClient, Mounted
  <2>2. OneOpen(sock)
    BY DEF PagesInv, SocketsInv, SocketsOK
  <2>3. ASSUME NEW i \in DOMAIN sock, NEW j \in DOMAIN sock,
               sock[i].page \in {"debug", "exportTable"}, sock[i].owner = sock[j].owner,
               sock[i].st # "closed", sock[j].st # "closed"
        PROVE  i = j
    BY <2>2, <2>3 DEF OneOpen
  <2> QED
    BY <2>1, <2>3 DEF OneSocketPerPage
<1> QED
  BY <1>1, PagesAlways, PTL

\* What the GM page has drawn is the stored answer of the command it shows,
\* although the object that holds the answers is changed in place.
THEOREM GmScreenIsCurrent == FairSpec => []ScreenIsCurrent
<1>1. PagesInv => ScreenIsCurrent
  BY DEF PagesInv, ScreenInv, ScreenIsCurrent, FormShown
<1> QED
  BY <1>1, PagesAlways, PTL

-----------------------------------------------------------------------------
(* The lines of an export.  What is on the screen is of a current export   *)
(* because everything under way is: a request of the page, a line the      *)
(* backend sent, a line being decoded.                                     *)

AllLines(ss, c) == \A i \in DOMAIN ss : LinesOf(ss[i], c)

LEMMA PutLines ==
    ASSUME NEW ss, NEW c, AllLines(ss, c), NEW i \in DOMAIN ss, NEW st, NEW up, NEW got,
           \A k \in DOMAIN up : up[k].type = "exportTable" => up[k].id \in c,
           \A m \in got : m.type = "exportTable" => m.id \in c
    PROVE  AllLines(Put(ss, i, st, up, got), c)
<1> DEFINE tt == Put(ss, i, st, up, got)
<1>1. /\ DOMAIN tt = DOMAIN ss /\ \A j \in DOMAIN ss : j # i => tt[j] = ss[j]
      /\ tt[i].up = up /\ tt[i].got = got
  BY PutParts
<1> HIDE DEF tt
<1>2. ASSUME NEW j \in DOMAIN tt PROVE LinesOf(tt[j], c)
  <2>1. CASE j = i
    BY <1>1, <2>1 DEF LinesOf
  <2>2. CASE j # i
    BY <1>1, <2>2 DEF AllLines
  <2> QED
    BY <2>1, <2>2
<1> QED
  BY <1>2 DEF AllLines, tt

LEMMA AppendLines ==
    ASSUME NEW ss \in Seq(Socket), NEW c, AllLines(ss, c), NEW p \in AllPages, NEW o \in Nat
    PROVE  AllLines(Append(ss, NewSocket(p, o)), c)
<1> DEFINE s == NewSocket(p, o)
           tt == Append(ss, s)
<1>1. /\ DOMAIN tt = DOMAIN ss \cup {Len(ss) + 1}
      /\ \A j \in DOMAIN ss : tt[j] = ss[j]
      /\ tt[Len(ss) + 1] = s
  BY AppendParts
<1>2. s.up = <<>> /\ s.got = {} /\ DOMAIN <<>> = {}
  BY NewFacts
<1> HIDE DEF s
<1>3. LinesOf(s, c)
  BY <1>2 DEF LinesOf
<1> HIDE DEF tt
<1>4. AllLines(tt, c)
  BY <1>1, <1>3 DEF AllLines
<1> QED
  BY <1>4 DEF tt, s

\* The requests of a socket with one more, and without the oldest.
LEMMA MoreOrLess ==
    ASSUME NEW up \in Seq(Message), NEW r \in Message
    PROVE  \A k \in DOMAIN Append(up, r) :
              \/ k \in DOMAIN up /\ Append(up, r)[k] = up[k]
              \/ k = Len(up) + 1 /\ Append(up, r)[k] = r
<1> DEFINE u == Append(up, r)
<1>1. /\ u \in Seq(Message) /\ Len(u) = Len(up) + 1 /\ u[Len(u)] = r
      /\ \A k \in 1..Len(up) : u[k] = up[k]
  BY AppendProperties
<1> HIDE DEF u
<1>2. DOMAIN u = 1..Len(u) /\ DOMAIN up = 1..Len(up) /\ Len(up) \in Nat
  BY <1>1, LenProperties
<1> QED
  BY <1>1, <1>2 DEF u

LEMMA TailParts ==
    ASSUME NEW up \in Seq(Message), up # <<>>
    PROVE  \A k \in DOMAIN Tail(up) : k + 1 \in DOMAIN up /\ Tail(up)[k] = up[k + 1] /\ k \in Nat \ {0}
<1> DEFINE u == Tail(up)
<1>1. /\ u \in Seq(Message) /\ Len(u) = Len(up) - 1 /\ Len(up) \in Nat \ {0}
      /\ \A k \in 1..Len(u) : u[k] = up[k + 1]
  BY EmptySeq, HeadTailProperties
<1> HIDE DEF u
<1>2. DOMAIN u = 1..Len(u) /\ DOMAIN up = 1..Len(up)
  BY <1>1, LenProperties
<1>3. ASSUME NEW k \in DOMAIN u PROVE k + 1 \in DOMAIN up /\ u[k] = up[k + 1] /\ k \in Nat \ {0}
  <2>1. k \in 1..Len(u) /\ k + 1 \in 1..Len(up) /\ k \in Nat \ {0}
    BY <1>1, <1>2
  <2> QED
    BY <1>1, <1>2, <2>1
<1> QED
  BY <1>3 DEF u

LEMMA TouchedLines ==
    ASSUME SocketsInv, Touched, AllLines(sock, current') PROVE AllLines(sock', current')
<1>0. sock \in Seq(Socket) /\ mount \in Nat
  BY DEF SocketsInv, SocketsOK, PlaceInv
<1>1. CASE Quiet
  BY <1>1 DEF Quiet
<1>2. CASE Adding
  BY <1>0, <1>2, AppendLines DEF Adding, AllPages
<1>3. ASSUME NEW i \in DOMAIN sock, Mild(i) \/ Ending(i) \/ Reopening(i)
      PROVE  AllLines(sock', current')
  <2> DEFINE s == sock[i]
  <2>0. /\ \A k \in DOMAIN s.up : s.up[k].type = "exportTable" => s.up[k].id \in current'
        /\ \A m \in s.got : m.type = "exportTable" => m.id \in current'
    BY DEF AllLines, LinesOf
  <2>1. /\ s.up \in Seq(Message) /\ s.got \in SUBSET Message /\ s.page \in AllPages /\ s.owner \in Nat
        /\ s.st \in States
    BY <1>0, SocketParts
  <2>2. ASSUME NEW r \in Message, r.type = "exportTable" => r.id \in current'
        PROVE  \A k \in DOMAIN Append(s.up, r) :
                  Append(s.up, r)[k].type = "exportTable" => Append(s.up, r)[k].id \in current'
    BY <2>0, <2>1, <2>2, MoreOrLess
  <2>3. CASE Opening(i)
    <3>1. PICK up \in Seq(Message) :
             /\ sock' = Put(sock, i, "open", up, s.got)
             /\ \/ up = s.up
                \/ \E r \in Message : r.type # "exportTable" /\ up = Append(s.up, r)
      BY <2>3 DEF Opening
    <3>2. \A k \in DOMAIN up : up[k].type = "exportTable" => up[k].id \in current'
      BY <2>0, <2>2, <3>1
    <3> QED
      BY <2>0, <3>1, <3>2, PutLines
  <2>4. CASE Sending(i)
    <3>1. PICK r \in Message :
             /\ sock' = Put(sock, i, "open", Append(s.up, r), s.got)
             /\ r.type = "exportTable" => r.id \in current'
      BY <2>4 DEF Sending
    <3> QED
      BY <2>0, <2>2, <3>1, PutLines
  <2>5. CASE Dropping(i)
    <3>1. PICK a \in SUBSET s.got : sock' = Put(sock, i, "closing", <<>>, a)
      BY <2>5 DEF Dropping
    <3>2. DOMAIN <<>> = {}
      OBVIOUS
    <3> QED
      BY <2>0, <3>1, <3>2, PutLines
  <2>6. CASE Answering(i)
    <3>1. PICK a \in SUBSET Message :
             /\ \A m \in a : Fits(s.page, Head(s.up), m)
             /\ sock' = Put(sock, i, "open", Tail(s.up), s.got \cup a)
      BY <2>6 DEF Answering
    <3>2. s.up # <<>>
      BY <2>6 DEF Answering
    <3>3. Head(s.up) = s.up[1] /\ 1 \in DOMAIN s.up
      BY <3>2, HeadAsked
    <3>4. \A m \in s.got \cup a : m.type = "exportTable" => m.id \in current'
      BY <2>0, <3>1, <3>3 DEF Fits
    <3>5. \A k \in DOMAIN Tail(s.up) :
             Tail(s.up)[k].type = "exportTable" => Tail(s.up)[k].id \in current'
      BY <2>0, <2>1, <3>2, TailParts
    <3> QED
      BY <3>1, <3>4, <3>5, PutLines
  <2>7. ASSUME NEW m \in s.got, Decoding(i, m) PROVE AllLines(sock', current')
    BY <2>0, <2>7, PutLines DEF Decoding
  <2> DEFINE tt == Put(sock, i, "closed", s.up, s.got)
  <2>8. AllLines(tt, current') /\ tt \in Seq(Socket)
    BY <1>0, <2>0, <2>1, PutLines, PutFacts DEF States
  <2>9. CASE Ending(i)
    BY <2>8, <2>9 DEF Ending
  <2>10. CASE Reopening(i)
    <3>1. sock' = Append(tt, NewSocket(s.page, s.owner))
      BY <2>10 DEF Reopening
    <3> QED
      BY <2>1, <2>8, <3>1, AppendLines
  <2> QED
    BY <1>3, <2>3, <2>4, <2>5, <2>6, <2>7, <2>9, <2>10 DEF Mild
<1> QED
  BY <1>1, <1>2, <1>3 DEF Touched, Gentle

LEMMA MovingLines ==
    ASSUME SocketsInv, Moving, AllLines(sock, current) PROVE AllLines(sock', current)
<1>1. PICK tt \in Seq(Socket) :
         /\ Emptied(sock, tt)
         /\ \/ sock' = tt
            \/ route' # "404" /\ sock' = Append(tt, NewSocket(route', mount'))
  BY DEF Moving
<1>2. AllLines(tt, current)
  <2>1. DOMAIN <<>> = {}
    OBVIOUS
  <2> QED
    BY <1>1, <2>1 DEF Emptied, AllLines, LinesOf
<1>3. route' # "404" => route' \in AllPages /\ mount' \in Nat
  BY DEF Moving, Pages, AllPages, SocketsInv, PlaceInv
<1> QED
  BY <1>1, <1>2, <1>3, AppendLines

\* The click of an export: everything still under way is current.
LEMMA OutstandingLines == AllLines(sock, {sent'} \cup Outstanding)
<1> SUFFICES ASSUME NEW i \in DOMAIN sock PROVE LinesOf(sock[i], {sent'} \cup Outstanding)
  BY DEF AllLines
<1> DEFINE requests(j) == {sock[j].up[k].id : k \in DOMAIN sock[j].up}
           answers(j) == {m.id : m \in sock[j].got}
           U == UNION {requests(j) : j \in DOMAIN sock}
           V == UNION {answers(j) : j \in DOMAIN sock}
<1>1. Outstanding = U \cup V
  BY DEF Outstanding
<1>2. \A k \in DOMAIN sock[i].up : sock[i].up[k].id \in requests(i)
  OBVIOUS
<1>3. \A m \in sock[i].got : m.id \in answers(i)
  OBVIOUS
<1> HIDE DEF requests, answers
<1>4. \A x \in requests(i) : x \in U
  OBVIOUS
<1>5. \A x \in answers(i) : x \in V
  OBVIOUS
<1> HIDE DEF U, V
<1> QED
  BY <1>1, <1>2, <1>3, <1>4, <1>5 DEF LinesOf

LinesKept == resultData \in Seq(current) /\ tempMsg \in Seq(current)

LEMMA ExportLines ==
    ASSUME SocketsInv, Touched, LinesInv, ExportStep PROVE LinesInv'
<1>0. AllLines(sock, current) /\ LinesKept
  BY DEF LinesInv, AllLines, LinesKept
<1>1. CASE UNCHANGED <<resultData, tempMsg, current>>
  BY <1>0, <1>1, TouchedLines DEF LinesInv, AllLines, LinesKept
<1>2. CASE DoExportTable
  <2>1. current' = {sent'} \cup Outstanding /\ tempMsg' = <<>> /\ resultData' = <<>>
    BY <1>2 DEF DoExportTable
  <2>2. AllLines(sock, current')
    BY <2>1, OutstandingLines
  <2>3. AllLines(sock', current')
    BY <2>2, TouchedLines
  <2>4. <<>> \in Seq(current')
    BY EmptySeq
  <2> QED
    BY <2>1, <2>3, <2>4 DEF LinesInv, AllLines
<1>3. ASSUME NEW i \in DOMAIN sock, NEW m \in sock[i].got, ExportMessage(i, m) PROVE LinesInv'
  <2>1. UNCHANGED current
    BY <1>3 DEF ExportMessage
  <2>2. AllLines(sock', current')
    BY <1>0, <2>1, TouchedLines
  <2>3. CASE m.type = "exportTable" /\ AddLine(i, m)
    <3>1. m.id \in current
      BY <1>0, <2>3 DEF AllLines, LinesOf
    <3>2. Append(tempMsg, m.id) \in Seq(current)
      BY <1>0, <3>1, AppendProperties DEF LinesKept
    <3>3. tempMsg' \in Seq(current)
      BY <1>0, <2>3, <3>2 DEF LinesKept, AddLine
    <3>4. resultData' \in Seq(current)
      BY <1>0, <2>3, <3>3 DEF LinesKept, AddLine
    <3> QED
      BY <2>1, <2>2, <3>3, <3>4 DEF LinesInv, AllLines
  <2>4. CASE UNCHANGED <<resultData, tempMsg>>
    BY <1>0, <2>1, <2>2, <2>4 DEF LinesInv, AllLines, LinesKept
  <2> QED
    BY <1>3, <2>3, <2>4 DEF ExportMessage
<1> QED
  BY <1>1, <1>2, <1>3 DEF ExportStep, ExportUser, ToggleConfig, OnSubmitConfig, DoFindSheet, ExportEvent,
         ExportOpened, ExportClosed, ExportAnswer, exportVars

LEMMA LinesStep == ASSUME PagesInv, LinesInv, PagesNext PROVE LinesInv'
<1>0. SocketsInv /\ AllLines(sock, current) /\ LinesKept
  BY DEF PagesInv, LinesInv, AllLines, LinesKept
<1>1. CASE Navigate \/ BackHome \/ Refresh
  <2>1. Moving
    BY <1>1, MoveKeeps
  <2>2. UNCHANGED current /\ resultData' = <<>> /\ tempMsg' \in {tempMsg, <<>>}
    BY <1>1 DEF Navigate, BackHome, Refresh, GoTo, ExportReset
  <2>3. <<>> \in Seq(current)
    BY EmptySeq
  <2>4. AllLines(sock', current)
    BY <1>0, <2>1, MovingLines
  <2> QED
    BY <1>0, <2>2, <2>3, <2>4 DEF LinesInv, AllLines, LinesKept
<1>2. CASE ConsoleStep \/ GmStep \/ Lose
  <2>1. Touched /\ UNCHANGED <<resultData, tempMsg, current>>
    BY <1>2, StepTouches DEF ConsoleStep, GmStep, Lose, exportVars
  <2> QED
    BY <1>0, <2>1, TouchedLines DEF LinesInv, AllLines, LinesKept
<1>3. CASE ExportStep
  BY <1>0, <1>3, StepTouches, ExportLines
<1> QED
  BY <1>1, <1>2, <1>3 DEF PagesNext

LEMMA LinesAlways == FairSpec => []LinesInv
<1>1. Init => LinesInv
  <2> SUFFICES ASSUME Init PROVE LinesInv
    OBVIOUS
  <2>1. sock = <<NewSocket(route, 1)>> /\ resultData = <<>> /\ tempMsg = <<>> /\ route \in AllPages
    BY DEF Init, PagesInit, ExportInit, Home, AllPages
  <2> DEFINE s == NewSocket(route, 1)
  <2>2. s.up = <<>> /\ s.got = {} /\ DOMAIN <<>> = {}
    BY <2>1, NewFacts
  <2> HIDE DEF s
  <2>3. DOMAIN sock = {1} /\ sock[1] = s
    BY <2>1 DEF s
  <2>4. <<>> \in Seq(current)
    BY EmptySeq
  <2> QED
    BY <2>1, <2>2, <2>3, <2>4 DEF LinesInv, LinesOf
<1>2. ASSUME PagesInv, LinesInv, [Next]_vars PROVE LinesInv'
  <2>1. CASE UNCHANGED pagesVars
    BY <1>2, <2>1 DEF pagesVars, socketVars, exportVars, LinesInv
  <2> QED
    BY <1>2, <2>1, NextIs, LinesStep
<1> QED
  BY <1>1, <1>2, PagesAlways, PTL DEF FairSpec

\* The lines on the screen and in the module's list are of the export clicked
\* last or of one still running at that click, on whichever socket and in
\* whatever order they arrive.
THEOREM LinesAreOfLastExport == FairSpec => []LinesOfLastExport
<1>1. LinesInv => LinesOfLastExport
  <2> SUFFICES ASSUME LinesInv PROVE LinesOfLastExport
    OBVIOUS
  <2>1. \A k \in DOMAIN resultData : resultData[k] \in current
    BY ElementOfSeq, LenProperties DEF LinesInv
  <2>2. \A k \in DOMAIN tempMsg : tempMsg[k] \in current
    BY ElementOfSeq, LenProperties DEF LinesInv
  <2> QED
    BY <2>1, <2>2 DEF LinesOfLastExport, Range
<1> QED
  BY <1>1, LinesAlways, PTL

-----------------------------------------------------------------------------
(* The number of sockets.  A close event that starts the next one ends a   *)
(* closing one, so the two are counted together.                           *)

Weight(ss) == Len(ss) + Cardinality(Closing(ss))

LEMMA ClosingFinite ==
    ASSUME NEW ss \in Seq(Socket)
    PROVE  IsFiniteSet(Closing(ss)) /\ Cardinality(Closing(ss)) \in Nat /\ Len(ss) \in Nat
<1>1. Len(ss) \in Nat /\ Closing(ss) \subseteq 1..Len(ss)
  BY LenProperties DEF Closing
<1>2. IsFiniteSet(1..Len(ss))
  BY <1>1, FS_Interval
<1> QED
  BY <1>1, <1>2, FS_Subset, FS_CardinalityType

LEMMA ClosingPut ==
    ASSUME NEW ss \in Seq(Socket), NEW i \in DOMAIN ss, NEW st \in States,
           NEW up \in Seq(Message), NEW got \in SUBSET Message
    PROVE  /\ Len(Put(ss, i, st, up, got)) = Len(ss)
           /\ Closing(Put(ss, i, st, up, got)) =
                 IF st = "closing" THEN Closing(ss) \cup {i} ELSE Closing(ss) \ {i}
<1> DEFINE tt == Put(ss, i, st, up, got)
<1>1. /\ Len(tt) = Len(ss) /\ DOMAIN tt = DOMAIN ss
      /\ \A j \in DOMAIN ss : j # i => tt[j] = ss[j]
      /\ tt[i].st = st
  BY PutFacts
<1> HIDE DEF tt
<1>2. \A j \in DOMAIN tt : tt[j].st = IF j = i THEN st ELSE ss[j].st
  BY <1>1
<1>3. Closing(tt) = IF st = "closing" THEN Closing(ss) \cup {i} ELSE Closing(ss) \ {i}
  BY <1>1, <1>2 DEF Closing
<1> QED
  BY <1>1, <1>3 DEF tt

LEMMA WeightAppend ==
    ASSUME NEW ss \in Seq(Socket), NEW p \in AllPages, NEW o \in Nat
    PROVE  Weight(Append(ss, NewSocket(p, o))) = Weight(ss) + 1
<1> DEFINE s == NewSocket(p, o)
           tt == Append(ss, s)
<1>1. /\ Len(tt) = Len(ss) + 1 /\ DOMAIN tt = DOMAIN ss \cup {Len(ss) + 1}
      /\ \A j \in DOMAIN ss : tt[j] = ss[j]
      /\ tt[Len(ss) + 1] = s
  BY AppendParts
<1>2. s.st # "closing"
  BY NewFacts
<1> HIDE DEF s, tt
<1>3. Closing(tt) = Closing(ss)
  BY <1>1, <1>2 DEF Closing
<1>4. Weight(tt) = Weight(ss) + 1
  BY <1>1, <1>3, ClosingFinite DEF Weight
<1> QED
  BY <1>4 DEF tt, s

LEMMA WeightPut ==
    ASSUME NEW ss \in Seq(Socket), NEW i \in DOMAIN ss, NEW st \in States,
           NEW up \in Seq(Message), NEW got \in SUBSET Message
    PROVE  /\ Weight(ss) \in Nat /\ Weight(Put(ss, i, st, up, got)) \in Nat
           /\ st = ss[i].st => Weight(Put(ss, i, st, up, got)) = Weight(ss)
           /\ st # "closing" => Weight(Put(ss, i, st, up, got)) <= Weight(ss)
           /\ Weight(Put(ss, i, st, up, got)) <= Weight(ss) + 1
           /\ st # "closing" /\ ss[i].st = "closing" => Weight(Put(ss, i, st, up, got)) + 1 = Weight(ss)
<1> DEFINE tt == Put(ss, i, st, up, got)
           C == Closing(ss)
           D == Closing(tt)
<1>1. Len(tt) = Len(ss) /\ D = IF st = "closing" THEN C \cup {i} ELSE C \ {i}
  BY ClosingPut
<1>2. tt \in Seq(Socket)
  BY PutFacts
<1>3. /\ IsFiniteSet(C) /\ Cardinality(C) \in Nat /\ Len(ss) \in Nat /\ Cardinality(D) \in Nat
  BY <1>2, ClosingFinite
<1>4. i \in C <=> ss[i].st = "closing"
  BY DEF Closing
<1> HIDE DEF tt, C, D
<1>5. Weight(ss) = Len(ss) + Cardinality(C) /\ Weight(tt) = Len(ss) + Cardinality(D)
  BY <1>1 DEF Weight, C, D
<1>6. CASE i \in C /\ st = "closing"
  <2>1. D = C
    BY <1>1, <1>6
  <2> QED
    BY <1>3, <1>4, <1>5, <1>6, <2>1 DEF tt
<1>7. CASE i \notin C /\ st = "closing"
  <2>1. D = C \cup {i}
    BY <1>1, <1>7
  <2>2. Cardinality(D) = Cardinality(C) + 1
    BY <1>3, <1>7, <2>1, FS_AddElement
  <2> QED
    BY <1>3, <1>4, <1>5, <1>7, <2>2 DEF tt
<1>8. CASE i \in C /\ st # "closing"
  <2>1. D = C \ {i}
    BY <1>1, <1>8
  <2>2. Cardinality(D) = Cardinality(C) - 1
    BY <1>3, <1>8, <2>1, FS_RemoveElement
  <2> QED
    BY <1>3, <1>4, <1>5, <1>8, <2>2 DEF tt
<1>9. CASE i \notin C /\ st # "closing"
  <2>1. D = C
    BY <1>1, <1>9
  <2> QED
    BY <1>3, <1>4, <1>5, <1>9, <2>1 DEF tt
<1> QED
  BY <1>6, <1>7, <1>8, <1>9

LEMMA TouchedCount == ASSUME SocketsInv, Touched, CountInv PROVE CountInv'
<1>0. /\ sock \in Seq(Socket) /\ mount \in Nat /\ sent \in Nat /\ closes \in Nat
      /\ Weight(sock) \in Nat /\ Weight(sock) <= mount + closes + sent
  <2>1. sock \in Seq(Socket) /\ mount \in Nat /\ sent \in Nat /\ closes \in Nat
    BY DEF SocketsInv, SocketsOK, PlaceInv
  <2> QED
    BY <2>1, ClosingFinite DEF CountInv, Weight
<1>1. CASE Quiet
  <2>1. sock' = sock /\ mount' = mount /\ closes' = closes /\ sent' \in {sent, sent + 1}
    BY <1>1 DEF Quiet
  <2> QED
    BY <1>0, <2>1 DEF CountInv, Weight
<1>2. CASE Adding
  <2>1. sock' = Append(sock, NewSocket("gm", mount)) /\ sent' = sent + 1 /\ UNCHANGED <<mount, closes>>
    BY <1>2 DEF Adding
  <2>2. Weight(sock') = Weight(sock) + 1
    BY <1>0, <2>1, WeightAppend DEF AllPages
  <2> QED
    BY <1>0, <2>1, <2>2 DEF CountInv, Weight
<1>3. ASSUME NEW i \in DOMAIN sock, Mild(i) \/ Ending(i) \/ Reopening(i) PROVE CountInv'
  <2> DEFINE s == sock[i]
  <2>1. /\ s.up \in Seq(Message) /\ s.got \in SUBSET Message /\ s.page \in AllPages /\ s.owner \in Nat
        /\ s.st \in States
    BY <1>0, SocketParts
  <2>2. {"open", "closing", "closed"} \subseteq States
    BY DEF States
  <2>3. ASSUME Weight(sock') \in Nat, Weight(sock') <= Weight(sock), UNCHANGED <<mount, closes>>,
               sent' \in {sent, sent + 1}
        PROVE  CountInv'
    BY <1>0, <2>3 DEF CountInv, Weight
  <2>4. CASE Opening(i)
    <3>1. PICK up \in Seq(Message) : sock' = Put(sock, i, "open", up, s.got)
      BY <2>4 DEF Opening
    <3>2. UNCHANGED <<mount, sent, closes>>
      BY <2>4 DEF Opening
    <3>3. Weight(sock') \in Nat /\ Weight(sock') <= Weight(sock)
      BY <1>0, <2>1, <2>2, <3>1, WeightPut
    <3> QED
      BY <2>3, <3>2, <3>3
  <2>5. CASE Sending(i)
    <3>1. PICK r \in Message : sock' = Put(sock, i, "open", Append(s.up, r), s.got)
      BY <2>5 DEF Sending
    <3>2. UNCHANGED <<mount, closes>> /\ sent' \in {sent, sent + 1}
      BY <2>5 DEF Sending
    <3>3. Append(s.up, r) \in Seq(Message)
      BY <2>1, AppendProperties
    <3>4. Weight(sock') \in Nat /\ Weight(sock') <= Weight(sock)
      BY <1>0, <2>1, <2>2, <3>1, <3>3, WeightPut
    <3> QED
      BY <2>3, <3>2, <3>4
  <2>6. CASE Dropping(i)
    <3>1. PICK a \in SUBSET s.got : sock' = Put(sock, i, "closing", <<>>, a)
      BY <2>6 DEF Dropping
    <3>2. <<>> \in Seq(Message) /\ a \in SUBSET Message
      BY <2>1, EmptySeq
    <3>3. Weight(sock') \in Nat /\ Weight(sock') <= Weight(sock) + 1
      BY <1>0, <2>2, <3>1, <3>2, WeightPut
    <3>4. UNCHANGED <<mount, sent>> /\ closes' = closes + 1
      BY <2>6 DEF Dropping
    <3>5. mount' + closes' + sent' = mount + closes + sent + 1
      BY <1>0, <3>4
    <3>6. Weight(sock') <= mount' + closes' + sent'
      BY <1>0, <3>3, <3>5
    <3> QED
      BY <3>6 DEF CountInv, Weight
  <2>7. CASE Answering(i)
    <3>1. PICK a \in SUBSET Message : sock' = Put(sock, i, "open", Tail(s.up), s.got \cup a)
      BY <2>7 DEF Answering
    <3>2. UNCHANGED <<mount, sent, closes>> /\ s.up # <<>>
      BY <2>7 DEF Answering
    <3>3. Tail(s.up) \in Seq(Message) /\ s.got \cup a \in SUBSET Message
      BY <2>1, <3>2, EmptySeq, HeadTailProperties
    <3>4. Weight(sock') \in Nat /\ Weight(sock') <= Weight(sock)
      BY <1>0, <2>2, <3>1, <3>3, WeightPut
    <3> QED
      BY <2>3, <3>2, <3>4
  <2>8. ASSUME NEW m \in s.got, Decoding(i, m) PROVE CountInv'
    <3>1. sock' = Put(sock, i, s.st, s.up, s.got \ {m}) /\ UNCHANGED <<mount, sent, closes>>
      BY <2>8 DEF Decoding
    <3>2. s.got \ {m} \in SUBSET Message
      BY <2>1
    <3>3. Weight(sock') \in Nat /\ Weight(sock') = Weight(sock)
      BY <1>0, <2>1, <3>1, <3>2, WeightPut
    <3> QED
      BY <1>0, <2>3, <3>1, <3>3
  <2> DEFINE tt == Put(sock, i, "closed", s.up, s.got)
  <2>9. tt \in Seq(Socket) /\ Weight(tt) \in Nat /\ (s.st = "closing" => Weight(tt) + 1 = Weight(sock))
    BY <1>0, <2>1, <2>2, PutFacts, WeightPut
  <2>10. CASE Ending(i)
    <3>1. s.st = "closing" /\ sock' = tt /\ UNCHANGED <<mount, sent, closes>>
      BY <2>10 DEF Ending
    <3> QED
      BY <1>0, <2>3, <2>9, <3>1
  <2>11. CASE Reopening(i)
    <3>1. /\ s.st = "closing" /\ sock' = Append(tt, NewSocket(s.page, s.owner))
          /\ UNCHANGED <<mount, sent, closes>>
      BY <2>11 DEF Reopening
    <3> HIDE DEF tt
    <3>2. Weight(sock') = Weight(tt) + 1
      BY <2>1, <2>9, <3>1, WeightAppend
    <3> QED
      BY <1>0, <2>3, <2>9, <3>1, <3>2
  <2> QED
    BY <1>3, <2>4, <2>5, <2>6, <2>7, <2>8, <2>10, <2>11 DEF Mild
<1> QED
  BY <1>1, <1>2, <1>3 DEF Touched, Gentle

LEMMA MovingCount == ASSUME SocketsInv, Moving, CountInv PROVE CountInv'
<1>0. /\ sock \in Seq(Socket) /\ mount \in Nat /\ sent \in Nat /\ closes \in Nat
      /\ Weight(sock) \in Nat /\ Weight(sock) <= mount + closes + sent
  <2>1. sock \in Seq(Socket) /\ mount \in Nat /\ sent \in Nat /\ closes \in Nat
    BY DEF SocketsInv, SocketsOK, PlaceInv
  <2> QED
    BY <2>1, ClosingFinite DEF CountInv, Weight
<1>1. PICK tt \in Seq(Socket) :
         /\ Emptied(sock, tt) /\ Len(tt) = Len(sock)
         /\ \/ sock' = tt
            \/ route' # "404" /\ sock' = Append(tt, NewSocket(route', mount'))
  BY DEF Moving
<1>2. mount' = mount + 1 /\ UNCHANGED <<sent, closes>> /\ (route' # "404" => route' \in AllPages)
  BY DEF Moving, Pages, AllPages
<1>3. Closing(tt) \subseteq Closing(sock)
  BY <1>1 DEF Emptied, Closing
<1>4. Weight(tt) \in Nat /\ Weight(tt) <= Weight(sock)
  <2>1. /\ IsFiniteSet(Closing(sock)) /\ Cardinality(Closing(sock)) \in Nat /\ Len(sock) \in Nat
        /\ Cardinality(Closing(tt)) \in Nat
    BY <1>0, ClosingFinite
  <2>2. Cardinality(Closing(tt)) <= Cardinality(Closing(sock))
    BY <1>3, <2>1, FS_Subset
  <2> QED
    BY <1>1, <2>1, <2>2 DEF Weight
<1>5. Weight(sock') \in {Weight(tt), Weight(tt) + 1}
  <2>1. CASE sock' = tt
    BY <2>1
  <2>2. CASE route' # "404" /\ sock' = Append(tt, NewSocket(route', mount'))
    <3>1. route' \in AllPages /\ mount' \in Nat
      BY <1>0, <1>2, <2>2
    <3> QED
      BY <2>2, <3>1, WeightAppend
  <2> QED
    BY <1>1, <2>1, <2>2
<1> QED
  BY <1>0, <1>2, <1>4, <1>5 DEF CountInv, Weight

LEMMA CountAlways == FairSpec => []CountInv
<1>1. Init => CountInv
  <2> SUFFICES ASSUME Init PROVE CountInv
    OBVIOUS
  <2>1. sock = <<NewSocket(route, 1)>> /\ mount = 1 /\ sent = 0 /\ closes = 0 /\ route \in AllPages
    BY DEF Init, PagesInit, Home, AllPages
  <2> DEFINE s == NewSocket(route, 1)
  <2>2. s.st = "connecting"
    BY <2>1, NewFacts
  <2> HIDE DEF s
  <2>3. DOMAIN sock = {1} /\ sock[1] = s /\ Len(sock) = 1
    BY <2>1 DEF s
  <2>4. Closing(sock) = {}
    BY <2>2, <2>3 DEF Closing
  <2> QED
    BY <2>1, <2>3, <2>4, FS_EmptySet DEF CountInv
<1>2. ASSUME PagesInv, CountInv, [Next]_vars PROVE CountInv'
  <2>0. SocketsInv
    BY <1>2 DEF PagesInv
  <2>1. CASE UNCHANGED pagesVars
    BY <1>2, <2>1 DEF pagesVars, socketVars, CountInv
  <2>2. CASE Navigate \/ BackHome \/ Refresh
    BY <1>2, <2>0, <2>2, MoveKeeps, MovingCount
  <2>3. CASE ConsoleStep \/ GmStep \/ ExportStep \/ Lose
    BY <1>2, <2>0, <2>3, StepTouches, TouchedCount
  <2> QED
    BY <1>2, <2>1, <2>2, <2>3, NextIs DEF PagesNext
<1> QED
  BY <1>1, <1>2, PagesAlways, PTL DEF FairSpec

-----------------------------------------------------------------------------
\* The type invariant.  It bounds the number of sockets a tab ever creates: one
\* for each mount of a page, each lost connection and each GM command that is
\* submitted without a client.
THEOREM ShellTypeOK == FairSpec => []TypeOK
<1> DEFINE Inv == PagesInv /\ CountInv /\ HeaderInv
<1>1. Inv => PagesTypeOK
  <2> SUFFICES ASSUME Inv PROVE PagesTypeOK
    OBVIOUS
  <2>0. /\ SocketsInv /\ ClientsInv /\ RefsInv /\ GmInv /\ ExportInv /\ ConsoleInv /\ CountInv
        /\ PlaceInv /\ sock \in Seq(Socket) /\ Len(sock) >= 1
    BY DEF PagesInv, SocketsInv, SocketsOK
  <2>1. Len(sock) \in SocketIds /\ DOMAIN sock \subseteq SocketIds
    <3>1. /\ Len(sock) \in Nat /\ Cardinality(Closing(sock)) \in Nat /\ DOMAIN sock = 1..Len(sock)
      BY <2>0, ClosingFinite, LenProperties
    <3>2. /\ mount \in Nat /\ mount <= MaxMount /\ closes \in Nat /\ closes <= MaxClose
          /\ sent \in Nat /\ sent <= MaxSend /\ MaxMount \in Nat /\ MaxClose \in Nat /\ MaxSend \in Nat
      BY <2>0, SocketAssumption DEF PlaceInv
    <3>3. Len(sock) <= MaxMount + MaxClose + MaxSend
      BY <2>0, <3>1, <3>2 DEF CountInv
    <3> QED
      BY <2>0, <3>1, <3>2, <3>3 DEF SocketIds
  <2>2. ASSUME NEW i \in DOMAIN sock
        PROVE  /\ sock[i].page \in Pages(app) /\ sock[i].owner \in 1..mount
               /\ sock[i].st \in {"connecting", "open", "closing", "closed"}
    BY <2>0, SocketParts DEF SocketsInv, SocketsOK, Owned, States
  <2>3. {cClient, gClient, eClient} \subseteq Client
    BY <2>0, <2>1 DEF ClientsInv, IsClient, Client
  <2>4. /\ serverPanes \subseteq Server /\ activePane \in serverPanes \cup {nil}
        /\ DOMAIN panes \subseteq serverPanes /\ DOMAIN due = DOMAIN panes
    BY <2>0 DEF ConsoleInv
  <2>5. \A t \in timers : t.sock \in DOMAIN sock
    BY <2>0 DEF RefsInv, AreTimers
  <2> QED
    BY <2>0, <2>1, <2>2, <2>3, <2>4, <2>5 DEF PagesTypeOK, PlaceInv, GmInv, ExportInv
<1>2. (CanAdmin => MenuShown) /\ (MenuShown <=> WaterMark # none)
  BY NoticeAssumption DEF CanAdmin, MenuShown, WaterMark
<1>3. Inv /\ WorkerTypeOK => TypeOK
  BY <1>1, <1>2 DEF HeaderInv, TypeOK
<1> QED
  BY <1>3, PagesAlways, CountAlways, HeaderAlways, CleanAlways, PTL

-----------------------------------------------------------------------------
(* The requests and answers of the console page.  An id is in one place    *)
(* only, so an answer that is handled is not still to come.                *)

\* tt carries nothing that ss did not carry, requests for the server list aside
Shrunk(ss, tt) ==
    \A j \in DOMAIN tt : tt[j].page = "debug" =>
        /\ \A m \in tt[j].got : j \in DOMAIN ss /\ ss[j].page = "debug" /\ m \in ss[j].got
        /\ \A k \in DOMAIN tt[j].up : tt[j].up[k].id # 0 =>
              /\ j \in DOMAIN ss /\ ss[j].page = "debug"
              /\ k \in DOMAIN ss[j].up /\ tt[j].up[k] = ss[j].up[k]

LEMMA IdsAre == ASSUME NEW n \in Ids PROVE n \in Nat /\ n # 0 /\ n <= MaxSend
  BY SocketAssumption DEF Ids

LEMMA ShrunkAt ==
    ASSUME NEW ss, NEW tt, Shrunk(ss, tt), NEW i \in DOMAIN tt, NEW k, NEW n \in Ids, At(tt, i, k, n)
    PROVE  i \in DOMAIN ss /\ At(ss, i, k, n)
<1>1. n # 0
  BY IdsAre
<1>2. tt[i].page = "debug"
  BY DEF At
<1>3. CASE k = 0 /\ \E m \in tt[i].got : m.id = n
  BY <1>2, <1>3 DEF At, Shrunk
<1>4. CASE k \in DOMAIN tt[i].up /\ tt[i].up[k].id = n
  BY <1>1, <1>2, <1>4 DEF At, Shrunk
<1> QED
  BY <1>3, <1>4 DEF At

LEMMA ShrunkPending ==
    ASSUME NEW ss, NEW tt, Shrunk(ss, tt), NEW s, NEW n \in Ids, Pending(tt, s, n)
    PROVE  Pending(ss, s, n)
<1>1. n # 0
  BY IdsAre
<1>2. PICK i \in DOMAIN tt :
         /\ tt[i].page = "debug"
         /\ \/ \E m \in tt[i].got : Brings(m, s, n)
            \/ \E k \in DOMAIN tt[i].up : Brings(tt[i].up[k], s, n)
  BY DEF Pending
<1>3. ASSUME NEW m \in tt[i].got, Brings(m, s, n) PROVE Pending(ss, s, n)
  BY <1>2, <1>3 DEF Pending, Shrunk
<1>4. ASSUME NEW k \in DOMAIN tt[i].up, Brings(tt[i].up[k], s, n) PROVE Pending(ss, s, n)
  <2>1. tt[i].up[k].id # 0
    BY <1>1, <1>4 DEF Brings
  <2>2. /\ i \in DOMAIN ss /\ ss[i].page = "debug" /\ k \in DOMAIN ss[i].up
        /\ tt[i].up[k] = ss[i].up[k]
    BY <1>2, <2>1 DEF Shrunk
  <2> QED
    BY <1>4, <2>2 DEF Pending
<1> QED
  BY <1>2, <1>3, <1>4

LEMMA ShrunkKeeps ==
    ASSUME NEW ss, NEW tt, Shrunk(ss, tt), OnePlace(ss), OneType(ss)
    PROVE  OnePlace(tt) /\ OneType(tt)
<1>1. OnePlace(tt)
  BY ShrunkAt DEF OnePlace
<1>2. OneType(tt)
  BY DEF OneType, Shrunk
<1> QED
  BY <1>1, <1>2

LEMMA ShrunkUpto ==
    ASSUME NEW ss, NEW tt, Shrunk(ss, tt), NEW n \in Nat, Upto(ss, n), NEW x \in Nat, n <= x
    PROVE  Upto(tt, x)
<1> SUFFICES ASSUME NEW i \in DOMAIN tt, NEW k \in Nat, NEW y \in Ids, At(tt, i, k, y) PROVE y <= x
  BY DEF Upto
<1>1. i \in DOMAIN ss /\ At(ss, i, k, y)
  BY ShrunkAt
<1>2. y <= n /\ y \in Nat
  BY <1>1, IdsAre DEF Upto
<1> QED
  BY <1>2

\* The forms of a step that shrink.
LEMMA PutShrunk ==
    ASSUME NEW ss, NEW i \in DOMAIN ss, NEW st, NEW up, NEW got,
           ss[i].page = "debug" =>
              /\ got \subseteq ss[i].got
              /\ \A k \in DOMAIN up : up[k].id # 0 => k \in DOMAIN ss[i].up /\ up[k] = ss[i].up[k]
    PROVE  Shrunk(ss, Put(ss, i, st, up, got))
<1> DEFINE tt == Put(ss, i, st, up, got)
<1>1. /\ DOMAIN tt = DOMAIN ss /\ \A j \in DOMAIN ss : j # i => tt[j] = ss[j]
      /\ tt[i].page = ss[i].page /\ tt[i].up = up /\ tt[i].got = got
  BY PutParts
<1> HIDE DEF tt
<1>2. Shrunk(ss, tt)
  BY <1>1 DEF Shrunk
<1> QED
  BY <1>2 DEF tt

LEMMA AppendShrunk ==
    ASSUME NEW ss, NEW tt \in Seq(Socket), Shrunk(ss, tt), NEW p \in AllPages, NEW o \in Nat
    PROVE  Shrunk(ss, Append(tt, NewSocket(p, o)))
<1> DEFINE s == NewSocket(p, o)
           uu == Append(tt, s)
<1>1. /\ DOMAIN uu = DOMAIN tt \cup {Len(tt) + 1}
      /\ \A j \in DOMAIN tt : uu[j] = tt[j]
      /\ uu[Len(tt) + 1] = s
  BY AppendParts
<1>2. s.up = <<>> /\ s.got = {} /\ DOMAIN <<>> = {}
  BY NewFacts
<1> HIDE DEF s, uu
<1>3. Shrunk(ss, uu)
  BY <1>1, <1>2 DEF Shrunk
<1> QED
  BY <1>3 DEF uu, s

LEMMA SameShrunk == ASSUME NEW ss PROVE Shrunk(ss, ss)
  BY DEF Shrunk

LEMMA MovingShrunk == ASSUME SocketsInv, Moving PROVE Shrunk(sock, sock')
<1>1. PICK tt \in Seq(Socket) :
         /\ Emptied(sock, tt)
         /\ \/ sock' = tt
            \/ route' # "404" /\ sock' = Append(tt, NewSocket(route', mount'))
  BY DEF Moving
<1>2. Shrunk(sock, tt)
  <2>1. DOMAIN <<>> = {}
    OBVIOUS
  <2> QED
    BY <1>1, <2>1 DEF Emptied, Shrunk
<1>3. route' # "404" => route' \in AllPages /\ mount' \in Nat
  BY DEF Moving, Pages, AllPages, SocketsInv, PlaceInv
<1> QED
  BY <1>1, <1>2, <1>3, AppendShrunk

\* A socket step shrinks what the console page waits for, unless it is a request
\* or an answer of that page.
LEMMA TouchedShrinks ==
    ASSUME SocketsInv, Touched
    PROVE  \/ Shrunk(sock, sock')
           \/ \E i \in DOMAIN sock : sock[i].page = "debug" /\ (Sending(i) \/ Answering(i))
<1>0. sock \in Seq(Socket) /\ mount \in Nat
  BY DEF SocketsInv, SocketsOK, PlaceInv
<1>1. CASE Quiet
  BY <1>1, SameShrunk DEF Quiet
<1>2. CASE Adding
  BY <1>0, <1>2, SameShrunk, AppendShrunk DEF Adding, AllPages
<1>3. ASSUME NEW i \in DOMAIN sock, Mild(i) \/ Ending(i) \/ Reopening(i),
             ~(sock[i].page = "debug" /\ (Sending(i) \/ Answering(i)))
      PROVE  Shrunk(sock, sock')
  <2> DEFINE s == sock[i]
  <2>1. /\ s.up \in Seq(Message) /\ s.got \in SUBSET Message /\ s.page \in AllPages /\ s.owner \in Nat
        /\ s.st \in States
    BY <1>0, SocketParts
  <2>2. CASE Opening(i)
    <3>1. PICK up \in Seq(Message) :
             /\ sock' = Put(sock, i, "open", up, s.got)
             /\ \/ up = s.up
                \/ \E r \in Message : r.id = 0 /\ up = Append(s.up, r)
      BY <2>2 DEF Opening
    <3>2. \A k \in DOMAIN up : up[k].id # 0 => k \in DOMAIN s.up /\ up[k] = s.up[k]
      BY <2>1, <3>1, MoreOrLess
    <3> QED
      BY <3>1, <3>2, PutShrunk
  <2>3. CASE Sending(i)
    BY <1>3, <2>3, PutShrunk DEF Sending
  <2>4. CASE Dropping(i)
    <3>1. PICK a \in SUBSET s.got : sock' = Put(sock, i, "closing", <<>>, a)
      BY <2>4 DEF Dropping
    <3>2. DOMAIN <<>> = {}
      OBVIOUS
    <3> QED
      BY <3>1, <3>2, PutShrunk
  <2>5. CASE Answering(i)
    <3>1. sock[i].page # "debug"
      BY <1>3, <2>5
    <3>2. PICK a \in SUBSET Message : sock' = Put(sock, i, "open", Tail(s.up), s.got \cup a)
      BY <2>5 DEF Answering
    <3> QED
      BY <3>1, <3>2, PutShrunk
  <2>6. ASSUME NEW m \in s.got, Decoding(i, m) PROVE Shrunk(sock, sock')
    BY <2>6, PutShrunk DEF Decoding
  <2> DEFINE tt == Put(sock, i, "closed", s.up, s.got)
  <2>7. Shrunk(sock, tt) /\ tt \in Seq(Socket)
    BY <1>0, <2>1, PutShrunk, PutFacts DEF States
  <2>8. CASE Ending(i)
    BY <2>7, <2>8 DEF Ending
  <2>9. CASE Reopening(i)
    <3>1. sock' = Append(tt, NewSocket(s.page, s.owner))
      BY <2>9 DEF Reopening
    <3> HIDE DEF tt
    <3> QED
      BY <2>1, <2>7, <3>1, AppendShrunk
  <2> QED
    BY <1>3, <2>2, <2>3, <2>4, <2>5, <2>6, <2>8, <2>9 DEF Mild
<1> QED
  BY <1>1, <1>2, <1>3 DEF Touched, Gentle, Mild

\* A request of the console page: it has an id no other message has.
LEMMA SendingWire ==
    ASSUME SocketsInv, WireInv, NEW i \in DOMAIN sock, sock[i].page = "debug", Sending(i)
    PROVE  WireInv'
<1> DEFINE s == sock[i]
<1>0. /\ sock \in Seq(Socket) /\ sent \in Nat /\ MaxSend \in Nat /\ s.up \in Seq(Message)
      /\ OnePlace(sock) /\ OneType(sock) /\ Upto(sock, sent)
  BY SocketParts, SocketAssumption DEF SocketsInv, SocketsOK, PlaceInv, WireInv
<1>1. PICK r \in Message : sock' = Put(sock, i, "open", Append(s.up, r), s.got) /\ r.id = sent + 1
  BY DEF Sending
<1>2. sent' = sent + 1
  BY DEF Sending
<1> DEFINE u == Append(s.up, r)
           l == Len(s.up) + 1
<1>3. /\ sock' = Put(sock, i, "open", u, s.got)
      /\ \A k \in DOMAIN u :
            \/ k \in DOMAIN s.up /\ u[k] = s.up[k]
            \/ k = l /\ u[k] = r
  BY <1>0, <1>1, MoreOrLess
<1> HIDE DEF u, l
<1>4. /\ DOMAIN sock' = DOMAIN sock /\ \A j \in DOMAIN sock : j # i => sock'[j] = sock[j]
      /\ sock'[i].page = s.page /\ sock'[i].up = u /\ sock'[i].got = s.got
  BY <1>3, PutParts
<1>5. ASSUME NEW j \in DOMAIN sock, NEW k, NEW n \in Ids, At(sock', j, k, n)
      PROVE  At(sock, j, k, n) \/ (j = i /\ k = l /\ n = sent + 1)
  <2>1. CASE j # i
    BY <1>4, <1>5, <2>1 DEF At
  <2>2. CASE j = i
    BY <1>1, <1>3, <1>4, <1>5, <2>2 DEF At
  <2> QED
    BY <2>1, <2>2
<1>6. ASSUME NEW j \in DOMAIN sock, NEW k \in Nat, NEW n \in Ids, At(sock, j, k, n)
      PROVE  n <= sent /\ n # sent + 1 /\ n \in Nat
  <2>1. n <= sent /\ n \in Nat
    BY <1>0, <1>6, IdsAre DEF Upto
  <2> QED
    BY <1>0, <2>1
<1>7. OnePlace(sock')
  <2> SUFFICES ASSUME NEW j \in DOMAIN sock, NEW x \in DOMAIN sock, NEW k \in Nat, NEW y \in Nat,
                      NEW n \in Ids, At(sock', j, k, n), At(sock', x, y, n)
               PROVE  j = x /\ k = y
    BY <1>4 DEF OnePlace
  <2>1. CASE At(sock, j, k, n) /\ At(sock, x, y, n)
    BY <1>0, <2>1 DEF OnePlace
  <2>2. CASE ~(At(sock, j, k, n) /\ At(sock, x, y, n))
    BY <1>5, <1>6, <2>2
  <2> QED
    BY <2>1, <2>2
<1>8. OneType(sock')
  <2>1. \A j \in DOMAIN sock : sock'[j].page = sock[j].page /\ sock'[j].got = sock[j].got
    BY <1>4
  <2> QED
    BY <1>0, <1>4, <2>1 DEF OneType
<1>9. Upto(sock', sent')
  <2> SUFFICES ASSUME NEW j \in DOMAIN sock, NEW k \in Nat, NEW n \in Ids, At(sock', j, k, n)
               PROVE  n <= sent'
    BY <1>4 DEF Upto
  <2>1. At(sock, j, k, n) \/ n = sent + 1
    BY <1>5
  <2> QED
    BY <1>0, <1>2, <1>6, <2>1
<1> QED
  BY <1>7, <1>8, <1>9 DEF WireInv

LEMMA AnsweringWire ==
    ASSUME SocketsInv, WireInv, NEW i \in DOMAIN sock, sock[i].page = "debug", Answering(i)
    PROVE  WireInv' /\ \A x \in Server : \A n \in Ids : Pending(sock', x, n) => Pending(sock, x, n)
<1> DEFINE s == sock[i]
           r == Head(s.up)
           u == Tail(s.up)
<1>0. /\ sock \in Seq(Socket) /\ s.up \in Seq(Message) /\ s.up # <<>>
      /\ OnePlace(sock) /\ OneType(sock) /\ Upto(sock, sent) /\ sent' = sent
  BY SocketParts DEF SocketsInv, SocketsOK, WireInv, Answering
<1>1. PICK a \in SUBSET Message :
         /\ \A m \in a : Fits("debug", r, m)
         /\ sock' = Put(sock, i, "open", u, s.got \cup a)
  BY DEF Answering
<1>2. /\ DOMAIN sock' = DOMAIN sock /\ \A j \in DOMAIN sock : j # i => sock'[j] = sock[j]
      /\ sock'[i].page = s.page /\ sock'[i].up = u /\ sock'[i].got = s.got \cup a
  BY <1>1, PutParts
<1>3. r = s.up[1] /\ 1 \in DOMAIN s.up
  BY <1>0, HeadAsked
<1>4. \A k \in DOMAIN u : k + 1 \in DOMAIN s.up /\ u[k] = s.up[k + 1] /\ k \in Nat \ {0}
  BY <1>0, TailParts
<1>5. \A m \in s.got : Replied("debug", m) /\ m \in Message
  BY ReplyOf
<1>6. \A m \in a : /\ Replied("debug", m) /\ m.id = r.id /\ m.type = r.type
                   /\ m.type # "servers" => r.to \in {nil, m.to} /\ (r.to = nil => r.type = "reload")
  BY <1>1 DEF Fits
<1> HIDE DEF r, u
\* where it was before: an answer is where its request was
<1> DEFINE From(k, x, n) ==
        \/ k # 0 /\ x = k + 1
        \/ k = 0 /\ x = 0
        \/ k = 0 /\ x = 1 /\ n = r.id
<1>7. ASSUME NEW k \in Nat, NEW n \in Ids, At(sock', i, k, n)
      PROVE  \E x \in Nat : At(sock, i, x, n) /\ From(k, x, n)
  <2>0. sock'[i].page = "debug" /\ s.page = "debug"
    BY <1>2
  <2>1. CASE k = 0 /\ \E m \in s.got : m.id = n
    <3>1. At(sock, i, 0, n)
      BY <2>0, <2>1 DEF At
    <3> QED
      BY <2>1, <3>1
  <2>2. CASE k = 0 /\ \E m \in a : m.id = n
    <3>1. r.id = n
      BY <1>6, <2>2
    <3>2. At(sock, i, 1, n)
      BY <1>3, <2>0, <3>1 DEF At
    <3> QED
      BY <2>2, <3>1, <3>2
  <2>3. CASE k \in DOMAIN u /\ u[k].id = n
    <3>1. k + 1 \in Nat /\ k # 0 /\ At(sock, i, k + 1, n)
      BY <1>4, <2>0, <2>3 DEF At
    <3> QED
      BY <3>1
  <2> QED
    BY <1>2, <1>7, <2>1, <2>2, <2>3 DEF At
<1>8. ASSUME NEW j \in DOMAIN sock, j # i, NEW k, NEW n, At(sock', j, k, n) PROVE At(sock, j, k, n)
  BY <1>2, <1>8 DEF At
<1>9. OnePlace(sock')
  <2> SUFFICES ASSUME NEW j \in DOMAIN sock, NEW x \in DOMAIN sock, NEW k \in Nat, NEW y \in Nat,
                      NEW n \in Ids, At(sock', j, k, n), At(sock', x, y, n)
               PROVE  j = x /\ k = y
    BY <1>2 DEF OnePlace
  <2>1. PICK k1 \in Nat : At(sock, j, k1, n) /\ (IF j = i THEN From(k, k1, n) ELSE k1 = k)
    BY <1>7, <1>8
  <2>2. PICK y1 \in Nat : At(sock, x, y1, n) /\ (IF x = i THEN From(y, y1, n) ELSE y1 = y)
    BY <1>7, <1>8
  <2>3. j = x /\ k1 = y1
    BY <1>0, <2>1, <2>2 DEF OnePlace
  <2> QED
    BY <2>1, <2>2, <2>3
<1>10. OneType(sock')
  <2> SUFFICES ASSUME NEW j \in DOMAIN sock, sock'[j].page = "debug",
                      NEW m \in sock'[j].got, NEW x \in sock'[j].got, m.id = x.id
               PROVE  m.type = x.type
    BY <1>2 DEF OneType
  <2>1. CASE j # i
    BY <1>0, <1>2, <2>1 DEF OneType
  <2>2. CASE j = i
    <3>1. m \in s.got \cup a /\ x \in s.got \cup a
      BY <1>2, <2>2
    <3>2. CASE m \in s.got /\ x \in s.got
      BY <1>0, <3>2 DEF OneType
    <3>3. CASE m \in a /\ x \in a
      BY <1>6, <3>3
    <3>4. ASSUME NEW old \in s.got, NEW new \in a, old.id = new.id PROVE old.type = new.type
      <4>1. Replied("debug", old) /\ Replied("debug", new) /\ old.id \in 0..MaxSend
        BY <1>5, <1>6, MessageParts
      <4>2. CASE old.id = 0
        BY <3>4, <4>1, <4>2 DEF Replied
      <4>3. CASE old.id # 0
        <5>1. old.id \in Ids
          BY <4>1, <4>3, SocketAssumption DEF Ids
        <5>2. At(sock, i, 0, old.id)
          BY DEF At
        <5>3. At(sock, i, 1, old.id)
          BY <1>3, <1>6, <3>4 DEF At
        <5>4. 0 = 1
          <6>1. 0 \in Nat /\ 1 \in Nat
            OBVIOUS
          <6> QED
            BY <1>0, <5>1, <5>2, <5>3, <6>1, Zenon DEF OnePlace
        <5> QED
          BY <5>4
      <4> QED
        BY <4>2, <4>3
    <3> QED
      BY <3>1, <3>2, <3>3, <3>4
  <2> QED
    BY <2>1, <2>2
<1>11. Upto(sock', sent')
  <2> SUFFICES ASSUME NEW j \in DOMAIN sock, NEW k \in Nat, NEW n \in Ids, At(sock', j, k, n)
               PROVE  n <= sent
    BY <1>0, <1>2 DEF Upto
  <2>1. \E x \in Nat : At(sock, j, x, n)
    BY <1>7, <1>8
  <2> QED
    BY <1>0, <2>1 DEF Upto
<1>12. ASSUME NEW x \in Server, NEW n \in Ids, Pending(sock', x, n) PROVE Pending(sock, x, n)
  <2>1. PICK j \in DOMAIN sock :
           /\ sock'[j].page = "debug"
           /\ \/ \E m \in sock'[j].got : Brings(m, x, n)
              \/ \E k \in DOMAIN sock'[j].up : Brings(sock'[j].up[k], x, n)
    BY <1>2, <1>12 DEF Pending
  <2>2. CASE j # i
    BY <1>2, <2>1, <2>2 DEF Pending
  <2>3. ASSUME NEW m \in s.got, Brings(m, x, n) PROVE Pending(sock, x, n)
    BY <2>3 DEF Pending
  <2>4. ASSUME NEW m \in a, Brings(m, x, n) PROVE Pending(sock, x, n)
    <3>1. m.id = n /\ n # 0
      BY <2>4, IdsAre DEF Brings
    <3>2. m.type # "servers" /\ m.to \in Server
      BY <1>6, <3>1 DEF Replied
    <3>3. m.to = x
      BY <2>4, <3>2, ServerAssumption DEF Brings
    <3>4. Brings(r, x, n)
      BY <1>6, <3>1, <3>2, <3>3 DEF Brings
    <3> QED
      BY <1>3, <3>4 DEF Pending
  <2>5. ASSUME NEW k \in DOMAIN u, Brings(u[k], x, n) PROVE Pending(sock, x, n)
    BY <1>4, <2>5 DEF Pending
  <2> QED
    BY <1>2, <2>1, <2>2, <2>3, <2>4, <2>5
<1> QED
  BY <1>9, <1>10, <1>11, <1>12 DEF WireInv

LEMMA MorePending ==
    ASSUME NEW ss, NEW i \in DOMAIN ss, NEW st, ss[i].up \in Seq(Message), NEW r \in Message, NEW x,
           NEW n, Pending(Put(ss, i, st, Append(ss[i].up, r), ss[i].got), x, n)
    PROVE  Pending(ss, x, n) \/ Brings(r, x, n)
<1> DEFINE u == Append(ss[i].up, r)
           tt == Put(ss, i, st, u, ss[i].got)
<1>1. \A k \in DOMAIN u : (k \in DOMAIN ss[i].up /\ u[k] = ss[i].up[k]) \/ u[k] = r
  BY MoreOrLess
<1> HIDE DEF u
<1>2. /\ DOMAIN tt = DOMAIN ss /\ \A j \in DOMAIN ss : j # i => tt[j] = ss[j]
      /\ tt[i].page = ss[i].page /\ tt[i].up = u /\ tt[i].got = ss[i].got
  BY PutParts
<1>3. Pending(tt, x, n)
  BY DEF u
<1> HIDE DEF tt
<1>4. PICK j \in DOMAIN ss :
         /\ tt[j].page = "debug"
         /\ \/ \E m \in tt[j].got : Brings(m, x, n)
            \/ \E k \in DOMAIN tt[j].up : Brings(tt[j].up[k], x, n)
  BY <1>2, <1>3 DEF Pending
<1>5. CASE j # i
  BY <1>2, <1>4, <1>5 DEF Pending
<1>6. CASE j = i /\ \E m \in tt[j].got : Brings(m, x, n)
  BY <1>2, <1>4, <1>6 DEF Pending
<1>7. ASSUME j = i, NEW k \in DOMAIN u, Brings(u[k], x, n) PROVE Pending(ss, x, n) \/ Brings(r, x, n)
  <2>1. CASE u[k] = r
    BY <1>7, <2>1
  <2>2. CASE k \in DOMAIN ss[i].up /\ u[k] = ss[i].up[k]
    BY <1>2, <1>4, <1>7, <2>2 DEF Pending
  <2> QED
    BY <1>1, <2>1, <2>2
<1> QED
  BY <1>2, <1>4, <1>5, <1>6, <1>7

\* what is still to come in tt was so in ss, or is of a later request than l
Later(ss, tt, l) ==
    \A x \in Server : \A n \in Ids : Pending(tt, x, n) => Pending(ss, x, n) \/ n > l

LEMMA SentGrows == ASSUME SocketsInv, Touched PROVE sent \in Nat /\ sent' \in {sent, sent + 1}
<1>1. sent \in Nat
  BY DEF SocketsInv, PlaceInv
<1>2. CASE Quiet \/ Adding
  BY <1>1, <1>2 DEF Quiet, Adding
<1>3. ASSUME NEW i \in DOMAIN sock, Sending(i) PROVE sent' \in {sent, sent + 1}
  BY <1>3 DEF Sending
<1>4. ASSUME NEW i \in DOMAIN sock,
             \/ Opening(i) \/ Dropping(i) \/ Answering(i) \/ Ending(i) \/ Reopening(i)
             \/ \E m \in sock[i].got : Decoding(i, m)
      PROVE  sent' = sent
  BY <1>4 DEF Opening, Dropping, Answering, Ending, Reopening, Decoding
<1> QED
  BY <1>1, <1>2, <1>3, <1>4 DEF Touched, Gentle, Mild

LEMMA ShrunkLater == ASSUME NEW ss, NEW tt, NEW l, Shrunk(ss, tt) PROVE Later(ss, tt, l)
  BY ShrunkPending DEF Later

LEMMA WireStep == ASSUME SocketsInv, WireInv, Touched PROVE WireInv' /\ Later(sock, sock', sent)
<1>0. sent \in Nat /\ sent' \in Nat /\ sent <= sent' /\ sock \in Seq(Socket)
  BY SentGrows DEF SocketsInv, SocketsOK
<1>1. CASE Shrunk(sock, sock')
  <2>1. OnePlace(sock') /\ OneType(sock') /\ Upto(sock', sent')
    BY <1>0, <1>1, ShrunkKeeps, ShrunkUpto DEF WireInv
  <2> QED
    BY <1>1, <2>1, ShrunkLater DEF WireInv
<1>2. ASSUME NEW i \in DOMAIN sock, sock[i].page = "debug", Sending(i)
      PROVE  WireInv' /\ Later(sock, sock', sent)
  <2>1. WireInv'
    BY <1>2, SendingWire
  <2>2. PICK r \in Message :
           sock' = Put(sock, i, "open", Append(sock[i].up, r), sock[i].got) /\ r.id = sent + 1
    BY <1>2 DEF Sending
  <2>3. ASSUME NEW x \in Server, NEW n \in Ids, Pending(sock', x, n)
        PROVE  Pending(sock, x, n) \/ n > sent
    <3>1. sock[i].up \in Seq(Message)
      BY <1>0, SocketParts
    <3>2. Pending(sock, x, n) \/ Brings(r, x, n)
      BY <2>2, <2>3, <3>1, MorePending
    <3>3. Brings(r, x, n) => n > sent
      BY <1>0, <2>2 DEF Brings
    <3> QED
      BY <3>2, <3>3
  <2> QED
    BY <2>1, <2>3 DEF Later
<1>3. ASSUME NEW i \in DOMAIN sock, sock[i].page = "debug", Answering(i)
      PROVE  WireInv' /\ Later(sock, sock', sent)
  BY <1>3, AnsweringWire DEF Later
<1> QED
  BY <1>1, <1>2, <1>3, TouchedShrinks

LEMMA PendingUpto ==
    ASSUME NEW ss \in Seq(Socket), NEW l, Upto(ss, l), NEW x, NEW n \in Ids, Pending(ss, x, n)
    PROVE  n <= l
<1>1. PICK i \in DOMAIN ss :
         /\ ss[i].page = "debug"
         /\ \/ \E m \in ss[i].got : Brings(m, x, n)
            \/ \E k \in DOMAIN ss[i].up : Brings(ss[i].up[k], x, n)
  BY DEF Pending
<1>2. ss[i].up \in Seq(Message)
  BY SocketParts
<1>3. \A k \in DOMAIN ss[i].up : k \in Nat
  BY <1>2, LenProperties
<1>4. \E k \in Nat : At(ss, i, k, n)
  BY <1>1, <1>3 DEF At, Brings
<1> QED
  BY <1>4 DEF Upto

\* An answer that was handled is not still to come.
LEMMA DecodedIsGone ==
    ASSUME SocketsInv, WireInv, NEW i \in DOMAIN sock, sock[i].page = "debug", NEW m \in sock[i].got,
           Decoding(i, m), m.type \in {"message", "reload"}
    PROVE  /\ m.to \in Server /\ m.id \in Ids /\ m.id <= sent /\ Pending(sock, m.to, m.id)
           /\ ~Pending(sock', m.to, m.id)
<1> DEFINE s == sock[i]
<1>0. /\ sock \in Seq(Socket) /\ OnePlace(sock) /\ OneType(sock) /\ Upto(sock, sent)
      /\ s.up \in Seq(Message)
  BY SocketParts DEF SocketsInv, SocketsOK, WireInv
<1>1. m \in Message /\ Replied("debug", m)
  BY ReplyOf
<1>2. m.to \in Server /\ m.id # 0 /\ m.list = {}
  BY <1>1 DEF Replied
<1>3. m.id \in Ids
  BY <1>1, <1>2, MessageParts, SocketAssumption DEF Ids
<1>4. Brings(m, m.to, m.id)
  BY DEF Brings
<1>5. Pending(sock, m.to, m.id)
  BY <1>4 DEF Pending
<1>6. At(sock, i, 0, m.id)
  BY DEF At
<1>7. ASSUME Pending(sock', m.to, m.id) PROVE FALSE
  <2>1. sock' = Put(sock, i, s.st, s.up, s.got \ {m})
    BY DEF Decoding
  <2>2. /\ DOMAIN sock' = DOMAIN sock /\ \A j \in DOMAIN sock : j # i => sock'[j] = sock[j]
        /\ sock'[i].up = s.up /\ sock'[i].got = s.got \ {m}
    BY <2>1, PutParts
  <2>3. PICK j \in DOMAIN sock :
           /\ sock'[j].page = "debug"
           /\ \/ \E x \in sock'[j].got : Brings(x, m.to, m.id)
              \/ \E k \in DOMAIN sock'[j].up : Brings(sock'[j].up[k], m.to, m.id)
    BY <1>7, <2>2 DEF Pending
  <2>4. ASSUME NEW k \in DOMAIN sock'[j].up, Brings(sock'[j].up[k], m.to, m.id) PROVE FALSE
    <3>1. sock'[j].up = sock[j].up
      BY <2>2
    <3>2. sock[j].page = "debug"
      BY <2>1, <2>2, <2>3, PutParts
    <3>3. At(sock, j, k, m.id)
      BY <2>4, <3>1, <3>2 DEF At, Brings
    <3>4. k \in Nat \ {0}
      BY <1>0, <2>4, <3>1, SocketParts, LenProperties
    <3>5. 0 = k
      BY <1>0, <1>3, <1>6, <3>3, <3>4 DEF OnePlace
    <3> QED
      BY <3>4, <3>5
  <2>5. ASSUME NEW x \in sock'[j].got, Brings(x, m.to, m.id) PROVE FALSE
    <3>1. sock[j].page = "debug" /\ x \in sock[j].got
      BY <2>1, <2>2, <2>3, <2>5, PutParts
    <3>2. At(sock, j, 0, m.id)
      BY <2>5, <3>1 DEF At, Brings
    <3>3. j = i
      BY <1>0, <1>3, <1>6, <3>2 DEF OnePlace
    <3>4. x \in s.got /\ x # m /\ x.id = m.id
      BY <2>2, <2>5, <3>1, <3>3 DEF Brings
    <3>5. x.type = m.type
      BY <1>0, <3>4 DEF OneType
    <3>6. x \in Message /\ Replied("debug", x)
      BY <3>1, <3>3, ReplyOf
    <3>7. x.to \in Server /\ x.list = {}
      BY <3>5, <3>6 DEF Replied
    <3>8. x.to = m.to
      BY <2>5, <3>7, ServerAssumption DEF Brings
    <3>9. x = Msg(x.type, x.to, x.id, x.list) /\ m = Msg(m.type, m.to, m.id, m.list)
      BY <1>1, <3>6, MessageParts
    <3> QED
      BY <1>2, <3>4, <3>5, <3>7, <3>8, <3>9
  <2> QED
    BY <2>3, <2>4, <2>5
<1>8. m.id <= sent
  BY <1>0, <1>3, <1>5, PendingUpto
<1> QED
  BY <1>2, <1>3, <1>5, <1>7, <1>8

-----------------------------------------------------------------------------
(* The panes of the console page.                                          *)

LEMMA HasNew ==
    ASSUME NEW pane \in Seq(Entry), NEW action \in {"SEND", "RECV"}, NEW n \in Ids, NEW a, NEW x
    PROVE  Has(AddNewContent(pane, action, n), a, x) <=> (a = action /\ x = n) \/ Has(pane, a, x)
<1> DEFINE q == AddNewContent(pane, action, n)
<1>1. /\ q \in Seq(Entry) /\ Len(q) = Len(pane) + 1 /\ Len(pane) \in Nat
      /\ q[1].action = action /\ q[1].id = n
      /\ \A k \in 1..Len(pane) : q[k + 1] = pane[k]
  BY NewContent
<1>2. DOMAIN q = 1..(Len(pane) + 1) /\ DOMAIN pane = 1..Len(pane)
  BY <1>1, LenProperties
<1> HIDE DEF q
<1>3. 1 \in DOMAIN q /\ \A k \in DOMAIN pane : k + 1 \in DOMAIN q
  BY <1>1, <1>2
<1>4. ASSUME Has(q, a, x) PROVE (a = action /\ x = n) \/ Has(pane, a, x)
  <2>1. PICK k \in DOMAIN q : q[k].action = a /\ q[k].id = x
    BY <1>4 DEF Has
  <2>2. CASE k = 1
    BY <1>1, <2>1, <2>2
  <2>3. CASE k # 1
    <3>1. k - 1 \in 1..Len(pane) /\ (k - 1) + 1 = k
      BY <1>1, <1>2, <2>3
    <3>2. q[k] = pane[k - 1]
      BY <1>1, <3>1
    <3> QED
      BY <1>2, <2>1, <3>1, <3>2 DEF Has
  <2> QED
    BY <2>2, <2>3
<1>5. ASSUME Has(pane, a, x) PROVE Has(q, a, x)
  BY <1>1, <1>2, <1>3, <1>5 DEF Has
<1>6. a = action /\ x = n => Has(q, a, x)
  BY <1>1, <1>3 DEF Has
<1> QED
  BY <1>4, <1>5, <1>6 DEF q

LEMMA OnceNew ==
    ASSUME NEW pane \in Seq(Entry), NEW action \in {"SEND", "RECV"}, NEW n \in Ids, Once(pane),
           action = "RECV" => ~Has(pane, "RECV", n)
    PROVE  Once(AddNewContent(pane, action, n))
<1> DEFINE q == AddNewContent(pane, action, n)
<1>1. /\ q \in Seq(Entry) /\ Len(q) = Len(pane) + 1 /\ Len(pane) \in Nat
      /\ q[1].action = action /\ q[1].id = n
      /\ \A k \in 1..Len(pane) : q[k + 1] = pane[k]
  BY NewContent
<1>2. DOMAIN q = 1..(Len(pane) + 1) /\ DOMAIN pane = 1..Len(pane)
  BY <1>1, LenProperties
<1> HIDE DEF q
<1>3. ASSUME NEW k \in DOMAIN q, k # 1
      PROVE  k - 1 \in DOMAIN pane /\ q[k] = pane[k - 1] /\ k \in Nat
  <2>1. k - 1 \in 1..Len(pane) /\ (k - 1) + 1 = k /\ k \in Nat
    BY <1>1, <1>2, <1>3
  <2> QED
    BY <1>1, <1>2, <2>1
<1> SUFFICES ASSUME NEW j \in DOMAIN q, NEW k \in DOMAIN q, q[j].action = "RECV",
                    q[k].action = "RECV", q[j].id = q[k].id
             PROVE  j = k
  BY DEF Once, q
<1>4. CASE j = 1 /\ k = 1
  BY <1>4
<1>5. CASE j # 1 /\ k # 1
  <2>1. j - 1 = k - 1 /\ j \in Nat /\ k \in Nat
    BY <1>3, <1>5 DEF Once
  <2> QED
    BY <2>1
<1>6. CASE j = 1 /\ k # 1
  <2>1. Has(pane, "RECV", n) /\ action = "RECV"
    BY <1>1, <1>3, <1>6 DEF Has
  <2> QED
    BY <2>1
<1>7. CASE j # 1 /\ k = 1
  <2>1. Has(pane, "RECV", n) /\ action = "RECV"
    BY <1>1, <1>3, <1>7 DEF Has
  <2> QED
    BY <2>1
<1> QED
  BY <1>4, <1>5, <1>6, <1>7

LEMMA EmptyPane == Once(<<>>) /\ \A a, n : ~Has(<<>>, a, n)
<1>1. DOMAIN <<>> = {}
  OBVIOUS
<1> QED
  BY <1>1 DEF Once, Has

\* Only the sockets and the number of requests change.
LEMMA PanesLater ==
    ASSUME NEW ps, NEW ids, NEW r, NEW ss, NEW tt, NEW l \in Nat, NEW k \in Nat, l <= k,
           PanesOK(ps, ids, r, ss, l), DOMAIN ps \subseteq Server, IsResponse(r), Later(ss, tt, l)
    PROVE  PanesOK(ps, ids, r, tt, k)
<1>0. /\ \A s \in DOMAIN ps : PaneOK(ps[s], ids[s], s, ss, l)
      /\ Apart(ps, ss) /\ ResponseOK(r, ps, ss, l)
  BY DEF PanesOK
<1>1. ASSUME NEW x \in Server, NEW n \in Ids, n <= l, Pending(tt, x, n) PROVE Pending(ss, x, n)
  <2>1. Pending(ss, x, n) \/ n > l
    BY <1>1 DEF Later
  <2>2. ~(n > l)
    BY <1>1, IdsAre
  <2> QED
    BY <2>1, <2>2
<1>2. ASSUME NEW s \in DOMAIN ps PROVE PaneOK(ps[s], ids[s], s, tt, k)
  <2>1. PaneOK(ps[s], ids[s], s, ss, l) /\ s \in Server
    BY <1>0
  <2>2. ASSUME NEW n \in Ids, NEW action \in {"SEND", "RECV"}, Has(ps[s], action, n)
        PROVE  n <= l /\ n <= k
    <3>1. n <= l /\ n \in Nat
      BY <2>1, <2>2, IdsAre DEF PaneOK
    <3> QED
      BY <3>1
  <2>3. ASSUME NEW n \in Ids, Pending(tt, s, n), Has(ps[s], "RECV", n) PROVE FALSE
    <3>1. n <= l
      BY <2>2, <2>3
    <3>2. Pending(ss, s, n)
      BY <1>1, <2>1, <2>3, <3>1
    <3> QED
      BY <2>1, <2>3, <3>2 DEF PaneOK
  <2> QED
    BY <2>1, <2>2, <2>3 DEF PaneOK
<1>3. Apart(ps, tt)
  <2> SUFFICES ASSUME NEW s \in Server, NEW t \in DOMAIN ps, NEW n \in Ids, Has(ps[t], "SEND", n), s # t
               PROVE  ~Pending(tt, s, n) /\ (s \in DOMAIN ps => ~Has(ps[s], "RECV", n))
    BY DEF Apart
  <2>1. n <= l
    BY <1>0 DEF PaneOK
  <2>2. ~Pending(ss, s, n) /\ (s \in DOMAIN ps => ~Has(ps[s], "RECV", n))
    BY <1>0 DEF Apart
  <2> QED
    BY <1>1, <2>1, <2>2
<1>4. ResponseOK(r, ps, tt, k)
  <2> SUFFICES ASSUME r # nil
               PROVE  /\ r.id <= k /\ ~Pending(tt, r.to, r.id)
                      /\ \A t \in DOMAIN ps : t # r.to => ~Has(ps[t], "SEND", r.id)
    BY DEF ResponseOK
  <2>1. r.to \in Server /\ r.id \in Ids
    BY DEF IsResponse, Ids
  <2>2. /\ r.id <= l /\ ~Pending(ss, r.to, r.id)
        /\ \A t \in DOMAIN ps : t # r.to => ~Has(ps[t], "SEND", r.id)
    BY <1>0 DEF ResponseOK
  <2>3. ~Pending(tt, r.to, r.id)
    BY <1>1, <2>1, <2>2
  <2>4. r.id <= k
    BY <2>1, <2>2, IdsAre
  <2> QED
    BY <2>2, <2>3, <2>4
<1> QED
  BY <1>2, <1>3, <1>4 DEF PanesOK

\* Some panes are gone, and some are empty.
LEMMA FewerPanes ==
    ASSUME NEW ps, NEW ids, NEW r, NEW ss, NEW l, PanesOK(ps, ids, r, ss, l), NEW qs, NEW js,
           DOMAIN qs \subseteq DOMAIN ps,
           \A s \in DOMAIN qs : \/ qs[s] = ps[s] /\ js[s] = ids[s]
                                \/ qs[s] = <<>> /\ js[s] = {}
    PROVE  PanesOK(qs, js, r, ss, l)
<1>0. /\ \A s \in DOMAIN ps : PaneOK(ps[s], ids[s], s, ss, l)
      /\ Apart(ps, ss) /\ ResponseOK(r, ps, ss, l)
  BY DEF PanesOK
<1>1. \A s \in DOMAIN qs : \A a, n : Has(qs[s], a, n) => Has(ps[s], a, n)
  BY EmptyPane
<1>2. ASSUME NEW s \in DOMAIN qs PROVE PaneOK(qs[s], js[s], s, ss, l)
  <2>1. CASE qs[s] = ps[s] /\ js[s] = ids[s]
    BY <1>0, <2>1
  <2>2. CASE qs[s] = <<>> /\ js[s] = {}
    BY <2>2, EmptyPane DEF PaneOK
  <2> QED
    BY <2>1, <2>2
<1>3. Apart(qs, ss)
  BY <1>0, <1>1 DEF Apart
<1>4. ResponseOK(r, qs, ss, l)
  BY <1>0, <1>1 DEF ResponseOK
<1> QED
  BY <1>2, <1>3, <1>4 DEF PanesOK

\* A pane that is shown for the first time has the last answer, if it is its own.
LEMMA FirstPane ==
    ASSUME NEW s, NEW r, IsResponse(r)
    PROVE  /\ Once(MountedPane(s, r))
           /\ \A a, x : Has(MountedPane(s, r), a, x) => r # nil /\ r.to = s /\ a = "RECV" /\ x = r.id
<1>1. CASE r # nil /\ r.to = s
  <2>1. MountedPane(s, r) = AddNewContent(<<>>, "RECV", r.id) /\ r.id \in Ids /\ <<>> \in Seq(Entry)
    BY <1>1, EmptySeq DEF MountedPane, OnResponse, IsResponse, Ids
  <2>2. Once(MountedPane(s, r))
    BY <2>1, OnceNew, EmptyPane
  <2>3. ASSUME NEW a, NEW x, Has(MountedPane(s, r), a, x) PROVE a = "RECV" /\ x = r.id
    <3>1. Has(AddNewContent(<<>>, "RECV", r.id), a, x) <=> (a = "RECV" /\ x = r.id) \/ Has(<<>>, a, x)
      BY <2>1, HasNew
    <3>2. ~Has(<<>>, a, x)
      BY EmptyPane
    <3> QED
      BY <2>1, <2>3, <3>1, <3>2
  <2> QED
    BY <1>1, <2>2, <2>3
<1>2. CASE ~(r # nil /\ r.to = s)
  BY <1>2, EmptyPane DEF MountedPane, OnResponse
<1> QED
  BY <1>1, <1>2

LEMMA VisitKeeps ==
    ASSUME NEW ps, NEW ids, NEW r, NEW ss, NEW l, PanesOK(ps, ids, r, ss, l), DOMAIN ids = DOMAIN ps,
           DOMAIN ps \subseteq Server, IsResponse(r), NEW s \in Server \cup {nil}
    PROVE  PanesOK(Visit(ps, s, r), VisitDue(ids, s), r, ss, l)
<1> DEFINE v == Visit(ps, s, r)
           w == VisitDue(ids, s)
           new == MountedPane(s, r)
<1>0. /\ \A x \in DOMAIN ps : PaneOK(ps[x], ids[x], x, ss, l)
      /\ Apart(ps, ss) /\ ResponseOK(r, ps, ss, l)
  BY DEF PanesOK
<1>1. CASE s = nil \/ s \in DOMAIN ps
  BY <1>1 DEF Visit, VisitDue
<1>2. CASE s # nil /\ s \notin DOMAIN ps
  <2>1. /\ DOMAIN v = DOMAIN ps \cup {s} /\ \A x \in DOMAIN ps : v[x] = ps[x]
        /\ v[s] = new
    <3>1. Visited(ps, s, r, v)
      BY VisitFacts
    <3>2. {s} \ {nil} = {s}
      BY <1>2
    <3> QED
      BY <1>2, <3>1, <3>2 DEF Visited
  <2>2. w[s] = {} /\ \A x \in DOMAIN ps : w[x] = ids[x]
    <3>1. s \notin DOMAIN ids
      BY <1>2
    <3>2. w[s] = {}
      BY <1>2, <3>1, VisitDueFacts, Zenon
    <3>3. \A x \in DOMAIN ids : w[x] = ids[x]
      BY VisitDueFacts, Zenon
    <3> HIDE DEF w
    <3> QED
      BY <3>2, <3>3
  <2>3. Once(new) /\ \A a, x : Has(new, a, x) => r # nil /\ r.to = s /\ a = "RECV" /\ x = r.id
    BY FirstPane
  <2> HIDE DEF v, w, new
  <2>4. ASSUME NEW x \in DOMAIN v PROVE PaneOK(v[x], w[x], x, ss, l)
    <3>1. CASE x # s
      BY <1>0, <2>1, <2>2, <3>1
    <3>2. CASE x = s
      BY <1>0, <2>1, <2>2, <2>3, <3>2 DEF PaneOK, ResponseOK
    <3> QED
      BY <3>1, <3>2
  <2>5. Apart(v, ss)
    <3> SUFFICES ASSUME NEW x \in Server, NEW t \in DOMAIN v, NEW n \in Ids, Has(v[t], "SEND", n), x # t
                 PROVE  ~Pending(ss, x, n) /\ (x \in DOMAIN v => ~Has(v[x], "RECV", n))
      BY DEF Apart
    <3>1. t # s /\ t \in DOMAIN ps /\ Has(ps[t], "SEND", n)
      BY <2>1, <2>3
    <3>2. ~Pending(ss, x, n) /\ (x \in DOMAIN ps => ~Has(ps[x], "RECV", n))
      BY <1>0, <3>1 DEF Apart
    <3>3. x = s => ~Has(v[x], "RECV", n)
      BY <1>0, <2>1, <2>3, <3>1 DEF ResponseOK
    <3> QED
      BY <2>1, <3>2, <3>3
  <2>6. ResponseOK(r, v, ss, l)
    BY <1>0, <2>1, <2>3 DEF ResponseOK
  <2> QED
    BY <2>4, <2>5, <2>6 DEF PanesOK, v, w
<1> QED
  BY <1>1, <1>2

\* A command with a new number is noted in its pane.
LEMMA SubmitKeeps ==
    ASSUME NEW ps, NEW ids, NEW r, NEW ss, NEW l, PanesOK(ps, ids, r, ss, l), NEW s \in DOMAIN ps,
           ps[s] \in Seq(Entry), NEW n \in Ids, n <= l,
           \A x \in Server : x # s => ~Pending(ss, x, n),
           \A t \in DOMAIN ps : ~Has(ps[t], "RECV", n), r # nil => r.id # n
    PROVE  PanesOK([ps EXCEPT ![s] = AddNewContent(ps[s], "SEND", n)], ids, r, ss, l)
<1> DEFINE q == AddNewContent(ps[s], "SEND", n)
           v == [ps EXCEPT ![s] = q]
<1>0. /\ \A x \in DOMAIN ps : PaneOK(ps[x], ids[x], x, ss, l)
      /\ Apart(ps, ss) /\ ResponseOK(r, ps, ss, l)
  BY DEF PanesOK
<1>1. \A a, x : Has(q, a, x) <=> (a = "SEND" /\ x = n) \/ Has(ps[s], a, x)
  BY HasNew
<1>2. Once(q)
  BY <1>0, OnceNew DEF PaneOK
<1> HIDE DEF q
<1>3. DOMAIN v = DOMAIN ps /\ v[s] = q /\ \A x \in DOMAIN ps : x # s => v[x] = ps[x]
  OBVIOUS
<1> HIDE DEF v
<1>4. ASSUME NEW x \in DOMAIN v PROVE PaneOK(v[x], ids[x], x, ss, l)
  <2>1. CASE x # s
    BY <1>0, <1>3, <2>1
  <2>2. CASE x = s
    BY <1>0, <1>1, <1>2, <1>3, <2>2 DEF PaneOK
  <2> QED
    BY <2>1, <2>2
<1>5. \A t \in DOMAIN v : \A x : Has(v[t], "RECV", x) <=> Has(ps[t], "RECV", x)
  BY <1>1, <1>3
<1>6. \A t \in DOMAIN v : \A x : Has(v[t], "SEND", x) <=> (t = s /\ x = n) \/ Has(ps[t], "SEND", x)
  BY <1>1, <1>3
<1>7. Apart(v, ss)
  <2> SUFFICES ASSUME NEW x \in Server, NEW t \in DOMAIN v, NEW y \in Ids, Has(v[t], "SEND", y), x # t
               PROVE  ~Pending(ss, x, y) /\ (x \in DOMAIN v => ~Has(v[x], "RECV", y))
    BY DEF Apart
  <2>1. CASE t = s /\ y = n
    BY <1>3, <1>5, <2>1
  <2>2. CASE Has(ps[t], "SEND", y)
    BY <1>0, <1>3, <1>5, <2>2 DEF Apart
  <2> QED
    BY <1>6, <2>1, <2>2
<1>8. ResponseOK(r, v, ss, l)
  BY <1>0, <1>3, <1>6 DEF ResponseOK
<1> QED
  BY <1>4, <1>7, <1>8 DEF PanesOK, v, q

\* what the answer id of server to makes of the panes, and of what is due
Answered(ps, to, id) == [s \in DOMAIN ps |-> OnResponse(s, ps[s], [to |-> to, id |-> id])]
Owed(ids, to, id) == [s \in DOMAIN ids |-> IF s = to THEN ids[s] \cup {id} ELSE ids[s]]

\* An answer is handled: it is in the pane of its server, and no longer to come.
LEMMA ShowKeeps ==
    ASSUME NEW ps, NEW ids, NEW old, NEW ss, NEW l, PanesOK(ps, ids, old, ss, l),
           DOMAIN ids = DOMAIN ps, DOMAIN ps \subseteq Server, \A s \in DOMAIN ps : ps[s] \in Seq(Entry),
           NEW tt, \A x \in Server : \A n \in Ids : Pending(tt, x, n) => Pending(ss, x, n),
           NEW to \in Server, NEW id \in Ids, id <= l, Pending(ss, to, id), ~Pending(tt, to, id)
    PROVE  PanesOK(Answered(ps, to, id), Owed(ids, to, id), [to |-> to, id |-> id], tt, l)
<1> DEFINE r == [to |-> to, id |-> id]
           v == [s \in DOMAIN ps |-> OnResponse(s, ps[s], r)]
           w == [s \in DOMAIN ids |-> IF s = to THEN ids[s] \cup {id} ELSE ids[s]]
<1>0. /\ \A x \in DOMAIN ps : PaneOK(ps[x], ids[x], x, ss, l)
      /\ Apart(ps, ss)
  BY DEF PanesOK
<1>1. r.to = to /\ r.id = id
  OBVIOUS
<1>2. DOMAIN v = DOMAIN ps /\ \A s \in DOMAIN ps : v[s] = OnResponse(s, ps[s], r)
  OBVIOUS
<1>3. \A s \in DOMAIN ps : w[s] = IF s = to THEN ids[s] \cup {id} ELSE ids[s]
  OBVIOUS
<1> HIDE DEF v, w, r
<1>4. ASSUME NEW s \in DOMAIN ps, s # to PROVE v[s] = ps[s] /\ w[s] = ids[s]
  BY <1>1, <1>2, <1>3, <1>4 DEF OnResponse
<1>5. ASSUME to \in DOMAIN ps
      PROVE  /\ Once(v[to]) /\ w[to] = ids[to] \cup {id}
             /\ \A a, x : Has(v[to], a, x) <=> (a = "RECV" /\ x = id) \/ Has(ps[to], a, x)
  <2>0. r # nil => v[to] = AddNewContent(ps[to], "RECV", id)
    BY <1>1, <1>2, <1>5 DEF OnResponse
  <2>1. r # nil
    <3>1. r \in [to : Server, id : 1..MaxSend]
      BY DEF r, Ids
    <3> QED
      BY <3>1, ServerAssumption
  <2>2. ~Has(ps[to], "RECV", id) /\ Once(ps[to])
    BY <1>0, <1>5 DEF PaneOK
  <2>3. ps[to] \in Seq(Entry)
    BY <1>5
  <2>4. Once(v[to])
    BY <2>0, <2>1, <2>2, <2>3, OnceNew
  <2>5. \A a, x : Has(v[to], a, x) <=> (a = "RECV" /\ x = id) \/ Has(ps[to], a, x)
    BY <2>0, <2>1, <2>3, HasNew
  <2>6. w[to] = ids[to] \cup {id}
    BY <1>3, <1>5
  <2> QED
    BY <2>4, <2>5, <2>6
<1>6. ASSUME NEW s \in DOMAIN v PROVE PaneOK(v[s], w[s], s, tt, l)
  <2>1. PaneOK(ps[s], ids[s], s, ss, l) /\ s \in Server
    BY <1>0, <1>2
  <2>2. CASE s # to
    BY <1>2, <1>4, <2>1, <2>2 DEF PaneOK
  <2>3. CASE s = to
    BY <1>2, <1>5, <2>1, <2>3 DEF PaneOK
  <2> QED
    BY <2>2, <2>3
<1>7. \A t \in DOMAIN v : \A x : Has(v[t], "SEND", x) <=> Has(ps[t], "SEND", x)
  BY <1>2, <1>4, <1>5
<1>8. \A t \in DOMAIN v : \A x : Has(v[t], "RECV", x) <=> (t = to /\ x = id) \/ Has(ps[t], "RECV", x)
  BY <1>2, <1>4, <1>5
<1>9. Apart(v, tt)
  <2> SUFFICES ASSUME NEW x \in Server, NEW t \in DOMAIN v, NEW n \in Ids, Has(v[t], "SEND", n), x # t
               PROVE  ~Pending(tt, x, n) /\ (x \in DOMAIN v => ~Has(v[x], "RECV", n))
    BY DEF Apart
  <2>1. ~Pending(ss, x, n) /\ (x \in DOMAIN ps => ~Has(ps[x], "RECV", n))
    BY <1>0, <1>2, <1>7 DEF Apart
  <2> QED
    BY <1>2, <1>8, <2>1
<1>10. ResponseOK(r, v, tt, l)
  <2>1. ASSUME NEW t \in DOMAIN v, t # to, Has(v[t], "SEND", id) PROVE FALSE
    BY <1>0, <1>2, <1>7, <2>1 DEF Apart
  <2> QED
    BY <1>1, <2>1 DEF ResponseOK
<1> QED
  BY <1>6, <1>9, <1>10 DEF PanesOK, Answered, Owed, v, w, r

\* The number of a command that is being submitted is new.
LEMMA FreshNumber ==
    ASSUME SocketsInv, ClientsInv, ConsoleInv, WireInv, OnSubmitCommand, NEW x \in Server, x # activePane
    PROVE  ~Pending(sock', x, sent')
<1> DEFINE r == Msg("message", activePane, sent', {})
<1>0. /\ sock \in Seq(Socket) /\ sent \in Nat /\ MaxSend \in Nat /\ sent < MaxSend /\ sent' = sent + 1
      /\ Upto(sock, sent) /\ sock' = Send(sock, cClient, r)
  BY SocketAssumption DEF SocketsInv, SocketsOK, PlaceInv, WireInv, OnSubmitCommand, OnConsoleCommand
<1>1. activePane \in Server /\ activePane \in To /\ nil \notin Server
  BY ServerAssumption DEF OnSubmitCommand, PaneControls, ConsoleInv, To
<1>2. sent' \in 0..MaxSend /\ sent' \in Ids /\ ~(sent' <= sent)
  BY <1>0 DEF Ids
<1>3. r \in Message /\ r.type = "message" /\ r.to = activePane
  BY <1>1, <1>2, MsgFacts, Everywhere DEF Types
<1> HIDE DEF r
<1>4. cClient # nil => cClient \in DOMAIN sock
  BY DEF ClientsInv, IsClient
<1>5. ~Pending(sock, x, sent')
  BY <1>0, <1>2, PendingUpto
<1>6. ~Brings(r, x, sent')
  BY <1>1, <1>3 DEF Brings
<1>7. CASE sock' = sock
  BY <1>5, <1>7
<1>8. CASE /\ cClient \in DOMAIN sock
           /\ sock' = Put(sock, cClient, "open", Append(sock[cClient].up, r), sock[cClient].got)
  <2>1. sock[cClient].up \in Seq(Message)
    BY <1>0, <1>8, SocketParts
  <2> QED
    BY <1>3, <1>5, <1>6, <1>8, <2>1, MorePending
<1> QED
  BY <1>0, <1>3, <1>4, <1>7, <1>8, SendForm

\* The steps of the console page, on panes that have seen the step's sockets.
LEMMA ConsolePanes ==
    ASSUME SocketsInv, ClientsInv, ConsoleInv, WireInv, PanesInv, WireInv',
           PanesOK(panes, due, consoleResponse, sock', sent'), ConsoleStep
    PROVE  PanesInv'
<1>0. /\ serverPanes \subseteq Server /\ activePane \in DOMAIN panes \cup {nil}
      /\ DOMAIN panes \subseteq Server /\ DOMAIN due = DOMAIN panes
      /\ \A s \in DOMAIN panes : panes[s] \in Seq(Entry)
      /\ IsResponse(consoleResponse)
  BY DEF ConsoleInv, IsResponse
<1>1. sock \in Seq(Socket) /\ sent \in Nat
  BY DEF SocketsInv, SocketsOK, PlaceInv
<1>3. CASE UNCHANGED <<consoleResponse, panes, due>>
  BY <1>3 DEF PanesInv
<1>4. CASE OnClickClearListButton
  <2>1. activePane \in DOMAIN panes
    BY <1>0, <1>4 DEF OnClickClearListButton, PaneControls
  <2>2. /\ panes' = [panes EXCEPT ![activePane] = <<>>] /\ due' = [due EXCEPT ![activePane] = {}]
        /\ consoleResponse' = consoleResponse
    BY <1>4 DEF OnClickClearListButton
  <2>3. /\ DOMAIN panes' = DOMAIN panes
        /\ \A s \in DOMAIN panes' : \/ panes'[s] = panes[s] /\ due'[s] = due[s]
                                    \/ panes'[s] = <<>> /\ due'[s] = {}
    BY <1>0, <2>1, <2>2
  <2>4. PanesOK(panes', due', consoleResponse, sock', sent')
    BY <2>3, FewerPanes
  <2> QED
    BY <2>2, <2>4 DEF PanesInv
<1>5. CASE OnSubmitCommand
  <2>1. activePane \in DOMAIN panes
    BY <1>0, <1>5 DEF OnSubmitCommand, PaneControls
  <2>2. /\ panes' = [panes EXCEPT ![activePane] = AddNewContent(panes[activePane], "SEND", sent')]
        /\ consoleResponse' = consoleResponse /\ due' = due /\ sent < MaxSend /\ sent' = sent + 1
    BY <1>5 DEF OnSubmitCommand
  <2>3. sent' \in Ids /\ sent' <= sent' /\ ~(sent' <= sent)
    BY <1>1, <2>2, SocketAssumption DEF Ids
  <2>4. \A x \in Server : x # activePane => ~Pending(sock', x, sent')
    BY <1>5, FreshNumber
  <2>5. \A t \in DOMAIN panes : ~Has(panes[t], "RECV", sent')
    BY <2>3 DEF PanesInv, PanesOK, PaneOK
  <2>6. consoleResponse # nil => consoleResponse.id # sent'
    BY <2>3 DEF PanesInv, PanesOK, ResponseOK
  <2>7. PanesOK(panes', due, consoleResponse, sock', sent')
    BY <1>0, <2>1, <2>2, <2>3, <2>4, <2>5, <2>6, SubmitKeeps
  <2> QED
    BY <2>2, <2>7 DEF PanesInv
<1>6. ASSUME NEW s \in Server, SelectPane(s) PROVE PanesInv'
  <2>1. /\ panes' = Visit(panes, s, consoleResponse) /\ due' = VisitDue(due, s)
        /\ consoleResponse' = consoleResponse
    BY <1>6 DEF SelectPane
  <2>2. PanesOK(Visit(panes, s, consoleResponse), VisitDue(due, s), consoleResponse, sock', sent')
    BY <1>0, VisitKeeps
  <2> QED
    BY <2>1, <2>2 DEF PanesInv
<1>7. ASSUME NEW list \in SUBSET Server, SetServerPanes(list) PROVE PanesInv'
  <2>1. PICK a : /\ a \in IF activePane \in list THEN {activePane}
                          ELSE IF list = {} THEN {nil} ELSE list
                 /\ panes' = Visit(Kept(panes, list), a, consoleResponse)
                 /\ due' = VisitDue(Kept(due, list), a) /\ consoleResponse' = consoleResponse
    BY <1>7 DEF SetServerPanes
  <2>2. a \in Server \cup {nil}
    BY <2>1
  <2> DEFINE kp == Kept(panes, list)
             kd == Kept(due, list)
  <2>3. /\ DOMAIN kp \subseteq DOMAIN panes /\ DOMAIN kd = DOMAIN kp
        /\ \A x \in DOMAIN kp : kp[x] = panes[x] /\ kd[x] = due[x]
    BY <1>0 DEF Kept
  <2>4. panes' = Visit(kp, a, consoleResponse) /\ due' = VisitDue(kd, a)
    BY <2>1
  <2> HIDE DEF kp, kd
  <2>5. PanesOK(kp, kd, consoleResponse, sock', sent')
    BY <2>3, FewerPanes
  <2>6. DOMAIN kp \subseteq Server
    BY <1>0, <2>3
  <2>7. PanesOK(Visit(kp, a, consoleResponse), VisitDue(kd, a), consoleResponse, sock', sent')
    BY <1>0, <2>2, <2>3, <2>5, <2>6, VisitKeeps
  <2> QED
    BY <2>1, <2>4, <2>7 DEF PanesInv
<1>8. ASSUME NEW i \in DOMAIN sock, NEW m \in sock[i].got, sock[i].page = "debug", Decoding(i, m),
             m.type \in {"message", "reload"}, SetConsoleResponse(m)
      PROVE  PanesInv'
  <2>1. /\ m.to \in Server /\ m.id \in Ids /\ m.id <= sent /\ Pending(sock, m.to, m.id)
        /\ ~Pending(sock', m.to, m.id)
    BY <1>8, DecodedIsGone
  <2>2. Shrunk(sock, sock')
    <3>1. sock[i].got \ {m} \subseteq sock[i].got
      OBVIOUS
    <3>2. sock' = Put(sock, i, sock[i].st, sock[i].up, sock[i].got \ {m})
      BY <1>8 DEF Decoding
    <3> QED
      BY <3>1, <3>2, PutShrunk
  <2>3. \A x \in Server : \A n \in Ids : Pending(sock', x, n) => Pending(sock, x, n)
    BY <2>2, ShrunkPending
  <2>4. sent' = sent
    BY <1>8 DEF Decoding
  <2>5. /\ consoleResponse' = [to |-> m.to, id |-> m.id]
        /\ panes' = Answered(panes, m.to, m.id) /\ due' = Owed(due, m.to, m.id)
    BY <1>8 DEF SetConsoleResponse, Answered, Owed
  <2>6. PanesOK(panes, due, consoleResponse, sock, sent)
    BY DEF PanesInv
  <2>7. PanesOK(Answered(panes, m.to, m.id), Owed(due, m.to, m.id), [to |-> m.to, id |-> m.id],
                sock', sent)
    BY <1>0, <2>1, <2>3, <2>6, ShowKeeps
  <2> QED
    BY <2>4, <2>5, <2>7 DEF PanesInv
<1>9. ASSUME NEW i \in DOMAIN sock, NEW m \in sock[i].got, ConsoleMessage(i, m) PROVE PanesInv'
  <2>1. sock[i].page = "debug" /\ sock' = Decoded(i, m) /\ UNCHANGED <<mount, sent, closes>>
    BY <1>9 DEF ConsoleMessage
  <2>2. CASE m.type = "servers" /\ SetServerPanes(m.list)
    <3>1. Replied("debug", m)
      BY <2>1, ReplyOf
    <3>2. m.list \in SUBSET Server
      BY <2>2, <3>1 DEF Replied
    <3> QED
      BY <1>7, <2>2, <3>2
  <2>3. CASE m.type \in {"message", "reload"} /\ SetConsoleResponse(m)
    <3>1. Decoding(i, m)
      BY <2>1, EventsAs
    <3> QED
      BY <1>8, <2>1, <2>3, <3>1
  <2> QED
    BY <1>9, <2>2, <2>3 DEF ConsoleMessage
<1> QED
  BY <1>3, <1>4, <1>5, <1>6, <1>9
     DEF ConsoleStep, ConsoleUser, OnHotfix, HotfixOk, HotfixCancel, ConsoleEvent, ConsoleOpened,
         ConsoleClosed, ConsoleAnswer, consoleVars

LEMMA PanesStep == ASSUME PagesInv, WireInv, PanesInv, PagesNext PROVE WireInv' /\ PanesInv'
<1>0. /\ SocketsInv /\ ClientsInv /\ ConsoleInv /\ sent \in Nat
      /\ DOMAIN panes \subseteq Server /\ IsResponse(consoleResponse)
  BY DEF PagesInv, SocketsInv, PlaceInv, ConsoleInv, IsResponse
<1>1. CASE Navigate \/ BackHome \/ Refresh
  <2>1. Moving
    BY <1>1, MoveKeeps
  <2>2. panes' = <<>> /\ consoleResponse' = nil /\ sent' = sent
    BY <1>1 DEF Navigate, BackHome, Refresh, GoTo, ConsoleReset
  <2>3. WireInv'
    <3>1. Shrunk(sock, sock')
      BY <1>0, <2>1, MovingShrunk
    <3>2. OnePlace(sock') /\ OneType(sock')
      BY <3>1, ShrunkKeeps DEF WireInv
    <3>3. Upto(sock', sent)
      BY <1>0, <3>1, ShrunkUpto DEF WireInv
    <3> QED
      BY <2>2, <3>2, <3>3 DEF WireInv
  <2>4. DOMAIN panes' = {}
    BY <2>2
  <2> QED
    BY <2>2, <2>3, <2>4 DEF PanesInv, PanesOK, Apart, ResponseOK
<1>2. CASE ConsoleStep \/ GmStep \/ ExportStep \/ Lose
  <2>1. Touched
    BY <1>2, StepTouches
  <2>2. WireInv' /\ Later(sock, sock', sent)
    BY <1>0, <2>1, WireStep
  <2>3. sent' \in Nat /\ sent <= sent'
    BY <1>0, <2>1, SentGrows
  <2>4. PanesOK(panes, due, consoleResponse, sock', sent')
    BY <1>0, <2>2, <2>3, PanesLater DEF PanesInv
  <2>5. CASE ConsoleStep
    BY <1>0, <2>2, <2>4, <2>5, ConsolePanes
  <2>6. CASE GmStep \/ ExportStep \/ Lose
    <3>1. UNCHANGED <<panes, due, consoleResponse>>
      BY <2>6 DEF GmStep, ExportStep, Lose, consoleVars
    <3> QED
      BY <2>2, <2>4, <3>1 DEF PanesInv
  <2> QED
    BY <1>2, <2>5, <2>6
<1> QED
  BY <1>1, <1>2 DEF PagesNext

LEMMA PanesAlways == FairSpec => [](PagesInv /\ WireInv /\ PanesInv)
<1>1. Init => WireInv /\ PanesInv
  <2> SUFFICES ASSUME Init PROVE WireInv /\ PanesInv
    OBVIOUS
  <2>1. /\ sock = <<NewSocket(route, 1)>> /\ route \in AllPages /\ panes = <<>>
        /\ consoleResponse = nil
    BY DEF Init, PagesInit, ConsoleInit, Home, AllPages
  <2> DEFINE s == NewSocket(route, 1)
  <2>2. s.up = <<>> /\ s.got = {} /\ DOMAIN <<>> = {}
    BY <2>1, NewFacts
  <2> HIDE DEF s
  <2>3. DOMAIN sock = {1} /\ sock[1] = s
    BY <2>1 DEF s
  <2>4. \A i \in DOMAIN sock : \A k, n : ~At(sock, i, k, n)
    BY <2>2, <2>3 DEF At
  <2>5. OnePlace(sock) /\ Upto(sock, sent)
    BY <2>4 DEF OnePlace, Upto
  <2>6. OneType(sock)
    BY <2>2, <2>3 DEF OneType
  <2>7. DOMAIN panes = {}
    BY <2>1
  <2> QED
    BY <2>1, <2>5, <2>6, <2>7 DEF WireInv, PanesInv, PanesOK, Apart, ResponseOK
<1>2. ASSUME PagesInv, WireInv, PanesInv, [Next]_vars PROVE WireInv' /\ PanesInv'
  <2>1. CASE UNCHANGED pagesVars
    BY <1>2, <2>1 DEF pagesVars, socketVars, consoleVars, WireInv, PanesInv
  <2> QED
    BY <1>2, <2>1, NextIs, PanesStep
<1> QED
  BY <1>1, <1>2, PagesAlways, PTL DEF FairSpec

\* Every answer that arrived for a mounted pane is in its history until it is
\* cleared, none is there twice, and none is in the pane of another server than
\* the one it was asked of: however answers, reload results, lost connections
\* and pane lists interleave.
THEOREM AnswersAreInOwnPane == FairSpec => []AnswersInOwnPane
<1>1. PagesInv /\ WireInv /\ PanesInv => AnswersInOwnPane
  <2> SUFFICES ASSUME PagesInv, PanesInv, NEW s \in DOMAIN panes
               PROVE  /\ due[s] \subseteq {panes[s][k].id : k \in Listed(s, "RECV")}
                      /\ \A j, k \in Listed(s, "RECV") : panes[s][j] = panes[s][k] => j = k
                      /\ \A k \in Listed(s, "RECV"), t \in DOMAIN panes \ {s} :
                            [action |-> "SEND", id |-> panes[s][k].id] \notin Range(panes[t])
    BY DEF AnswersInOwnPane
  <2>1. /\ DOMAIN panes \subseteq Server /\ panes[s] \in Seq(Entry)
        /\ PaneOK(panes[s], due[s], s, sock, sent) /\ Apart(panes, sock)
    BY DEF PagesInv, ConsoleInv, PanesInv, PanesOK
  <2>2. \A k : k \in Listed(s, "RECV") <=> k \in DOMAIN panes[s] /\ panes[s][k].action = "RECV"
    BY DEF Listed
  <2>3. due[s] \subseteq {panes[s][k].id : k \in Listed(s, "RECV")}
    <3> SUFFICES ASSUME NEW n \in due[s] PROVE \E k \in Listed(s, "RECV") : n = panes[s][k].id
      OBVIOUS
    <3> QED
      BY <2>1, <2>2 DEF PaneOK, Has
  <2>4. \A j, k \in Listed(s, "RECV") : panes[s][j] = panes[s][k] => j = k
    BY <2>1, <2>2 DEF PaneOK, Once
  <2>5. ASSUME NEW k \in Listed(s, "RECV"), NEW t \in DOMAIN panes, t # s,
               [action |-> "SEND", id |-> panes[s][k].id] \in Range(panes[t])
        PROVE  FALSE
    <3> DEFINE n == panes[s][k].id
    <3>1. n \in Ids /\ Has(panes[s], "RECV", n)
      <4>1. panes[s][k] \in Entry
        BY <2>1, <2>2, ElementOfSeq, LenProperties
      <4> QED
        BY <2>2, <4>1 DEF Entry, Ids, Has
    <3>2. Has(panes[t], "SEND", n)
      <4>1. PICK l \in DOMAIN panes[t] : [action |-> "SEND", id |-> n] = panes[t][l]
        BY <2>5 DEF Range
      <4> QED
        BY <4>1 DEF Has
    <3> QED
      BY <2>1, <2>5, <3>1, <3>2 DEF Apart
  <2> QED
    BY <2>3, <2>4, <2>5
<1> QED
  BY <1>1, PanesAlways, PTL
=============================================================================
