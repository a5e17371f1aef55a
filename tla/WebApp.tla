------------------------------- MODULE WebApp -------------------------------
(***************************************************************************)
(* A browser tab with one of the two single page applications: the web     *)
(* console (pages /debug and /gm) or the table export tool (/exportTable). *)
(* One page is mounted at a time.  Going to another page unmounts it: its  *)
(* state is gone, its sockets and timers are not.                          *)
(***************************************************************************)
EXTENDS ConsolePage, GmPage, ExportPage, Functions

VARIABLES app, route

pagesVars == <<socketVars, consoleVars, gmVars, exportVars, app, route>>

\* the pages with a component of their own, and where `/' is redirected to
Pages(a) == IF a = "web" THEN {"debug", "gm"} ELSE {"exportTable"}
Home(a) == IF a = "web" THEN "debug" ELSE "exportTable"

PagesInit ==
    /\ app \in {"web", "xls2lua"} /\ route = Home(app)
    /\ sock = <<NewSocket(route, 1)>> /\ mount = 1 /\ sent = 0 /\ closes = 0
    /\ ConsoleInit /\ GmInit /\ ExportInit

\* The handler of an answer to a console or GM page that is gone sets states
\* nobody has any more: what such a page waits for is dropped here, to keep the
\* state space small.
Left(s) == IF s.page = "exportTable" THEN s ELSE [s EXCEPT !.up = <<>>, !.got = {}]

\* leaves the page (a dialog covers it and must be answered first), and starts
\* the socket of the next one
GoTo(r) ==
    /\ r # route /\ mount < MaxMount /\ confirm = <<>>
    /\ route' = r /\ mount' = mount + 1
    /\ LET left == [i \in DOMAIN sock |-> Left(sock[i])]
       IN  sock' = IF r = "404" THEN left ELSE Append(left, NewSocket(r, mount'))
    /\ ConsoleReset /\ GmReset /\ ExportReset
    /\ UNCHANGED <<confirm, timers, tempMsg, config, current>>
    /\ UNCHANGED <<sent, closes, app>>

Navigate == \E r \in Pages(app) \cup {"404"} : GoTo(r)

\* the button of the 404 page
BackHome == route = "404" /\ GoTo(Home(app))

\* The browser loads the page anew, as the warning of the console advises: the
\* tab's sockets, timers and JavaScript modules are gone.  The build has a file
\* for every route, so the same page comes back.
Refresh ==
    /\ mount < MaxMount /\ route # "404"
    /\ mount' = mount + 1
    /\ sock' = Append([i \in DOMAIN sock |-> [sock[i] EXCEPT !.st = "closed", !.up = <<>>, !.got = {}]],
                      NewSocket(route, mount'))
    /\ ConsoleReset /\ GmReset /\ ExportReset
    /\ confirm' = <<>> /\ timers' = {} /\ tempMsg' = <<>>
    /\ UNCHANGED <<config, current, sent, closes, app, route>>

Here == UNCHANGED <<app, route>>

ConsoleEvent(i) == ConsoleOpened(i) \/ ConsoleClosed(i) \/ \E m \in sock[i].got : ConsoleMessage(i, m)
GmEvent(i) == GmOpened(i) \/ GmClosed(i) \/ \E m \in sock[i].got : GmMessage(i, m)
ExportEvent(i) == ExportOpened(i) \/ ExportClosed(i) \/ \E m \in sock[i].got : ExportMessage(i, m)

ConsoleUser ==
    /\ route = "debug" /\ confirm = <<>>
    /\ \/ OnClickClearListButton \/ OnSubmitCommand \/ OnHotfix
       \/ \E s \in Server : SelectPane(s)

GmUser ==
    /\ route = "gm"
    /\ \/ \E c \in GmCommand : OnClickGmCommand(c)
       \/ \E c \in GmCommand \cup {nil} : OnCommandSelected(c)
       \/ OnSubmitGMCommand \/ OnReset
       \/ \E v \in 0..1 : OnValuesChange(v)

ExportUser ==
    /\ route = "exportTable"
    /\ ToggleConfig \/ OnSubmitConfig \/ DoExportTable \/ DoFindSheet

ConsoleStep ==
    /\ \/ ConsoleUser \/ HotfixOk \/ HotfixCancel
       \/ \E i \in DOMAIN sock : ConsoleEvent(i) \/ ConsoleAnswer(i)
    /\ Here /\ UNCHANGED <<gmVars, exportVars>>

GmStep ==
    /\ \/ GmUser \/ \E t \in timers : DelayedSend(t)
       \/ \E i \in DOMAIN sock : GmEvent(i) \/ GmAnswer(i)
    /\ Here /\ UNCHANGED <<consoleVars, exportVars>>

ExportStep ==
    /\ \/ ExportUser
       \/ \E i \in DOMAIN sock : ExportEvent(i) \/ ExportAnswer(i)
    /\ Here /\ UNCHANGED <<consoleVars, gmVars>>

Lose ==
    /\ \E i \in DOMAIN sock : Drop(i)
    /\ Here /\ UNCHANGED <<consoleVars, gmVars, exportVars>>

PagesNext == Navigate \/ BackHome \/ Refresh \/ ConsoleStep \/ GmStep \/ ExportStep \/ Lose

\* the event handlers of the pages that reconnect by themselves
ConsoleHandled == (\E i \in DOMAIN sock : ConsoleEvent(i)) /\ Here /\ UNCHANGED <<gmVars, exportVars>>
ExportHandled == (\E i \in DOMAIN sock : ExportEvent(i)) /\ Here /\ UNCHANGED <<consoleVars, gmVars>>

-----------------------------------------------------------------------------
SocketIds == 1..(MaxMount + MaxClose + MaxSend)
Client == SocketIds \cup {nil}

PagesTypeOK ==
    /\ app \in {"web", "xls2lua"} /\ route \in Pages(app) \cup {"404"}
    /\ mount \in 1..MaxMount /\ sent \in 0..MaxSend /\ closes \in 0..MaxClose
    /\ Len(sock) \in SocketIds
    /\ \A i \in DOMAIN sock :
          /\ sock[i].page \in Pages(app) /\ sock[i].owner \in 1..mount
          /\ sock[i].st \in {"connecting", "open", "closing", "closed"}
    /\ {cClient, gClient, eClient} \subseteq Client
    /\ serverPanes \subseteq Server /\ activePane \in serverPanes \cup {nil}
    /\ DOMAIN panes \subseteq serverPanes /\ DOMAIN due = DOMAIN panes
    /\ gmData \in {{}, GmCommand} /\ gmCommandProps \in GmCommand \cup {nil}
    /\ response \in [GmCommand -> (1..MaxSend) \cup {nil}]
    /\ formValue \in [GmCommand -> 0..1] /\ field \in 0..1 /\ initial \in 0..1
    /\ \A t \in timers : t.sock \in DOMAIN sock
    /\ configVisible \in BOOLEAN /\ exportConfig \in (0..MaxSend) \cup {nil}

\* The client a page keeps is one of its own sockets and is not closed, and a
\* page that reconnects by itself (each of its close events starts the next
\* socket, also after the page is gone) never has two sockets at once.
OneSocketPerPage ==
    /\ \A c \in {cClient, gClient, eClient} \ {nil} : Mounted(c) /\ sock[c].st \in {"open", "closing"}
    /\ \A i, j \in DOMAIN sock :
          /\ sock[i].page \in {"debug", "exportTable"} /\ sock[i].owner = sock[j].owner
          /\ sock[i].st # "closed" /\ sock[j].st # "closed"
          => i = j

\* Every answer that arrived for a pane while it was mounted is in that pane's
\* history until the user clears it, no answer is there twice, and none is in
\* the pane of a server it does not come from.
AnswersInOwnPane ==
    \A s \in DOMAIN panes :
        LET answers == Listed(s, "RECV")
        IN  /\ due[s] \subseteq {panes[s][k].id : k \in answers}
            /\ \A j, k \in answers : panes[s][j] = panes[s][k] => j = k
            /\ \A k \in answers, t \in DOMAIN panes \ {s} :
                  [action |-> "SEND", id |-> panes[s][k].id] \notin Range(panes[t])

\* What the GM page has drawn is the stored answer of the command it shows,
\* although the object that holds the answers is changed in place.
ScreenIsCurrent == FormShown => shown = response[gmCommandProps]

\* The lines on the screen are of the export clicked last, or of one that was
\* still running at that click.
LinesOfLastExport == Range(resultData) \cup Range(tempMsg) \subseteq current
=============================================================================
