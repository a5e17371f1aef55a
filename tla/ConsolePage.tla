----------------------------- MODULE ConsolePage -----------------------------
(***************************************************************************)
(* The page /debug of the web console: ConsoleTabPanes with one lazily     *)
(* mounted DebugConsole per server.  A state change of React 17 outside an *)
(* event handler renders at once and its effects run before the next       *)
(* event, so a handler, its render and its effects are one step.           *)
(*                                                                         *)
(* `due' is history: the answers that arrived for a pane while it was      *)
(* mounted and have not been cleared from it.                              *)
(***************************************************************************)
EXTENDS PageSocket

CONSTANTS Server,
          ServerLists     \* the lists of registered servers that may be returned

ASSUME ServerAssumption ==
    /\ nil \notin Server /\ ServerLists \subseteq SUBSET Server
    /\ nil \notin [to : Server, id : 1..MaxSend]

VARIABLES cClient, serverPanes, activePane, consoleResponse,
          panes,      \* showData, the history list, of the mounted DebugConsoles
          confirm,    \* the open dialog, with the `client' when hotfix was clicked
          due

consoleVars == <<cClient, serverPanes, activePane, consoleResponse, panes, confirm, due>>

\* wrong variant: a pane whose server is gone keeps its component
KeptAll(f, S) == f

\* the panes of a function-valued state that stay when the list becomes S
Kept(f, S) == [s \in DOMAIN f \cap S |-> f[s]]

ConsoleInit ==
    /\ cClient = nil /\ serverPanes = {} /\ activePane = nil
    /\ consoleResponse = nil /\ confirm = <<>>
    /\ panes = <<>> /\ due = <<>>

\* unmounting the page and mounting it again starts from these values
ConsoleReset ==
    /\ cClient' = nil /\ serverPanes' = {} /\ activePane' = nil
    /\ consoleResponse' = nil
    /\ panes' = <<>> /\ due' = <<>>

-----------------------------------------------------------------------------
(* DebugConsole *)

\* the buttons and the input of the pane on the screen
PaneControls == activePane # nil

\* what the list of a pane draws: its entries of one direction
Listed(s, action) == {k \in DOMAIN panes[s] : panes[s][k].action = action}

\* newest entry first
AddNewContent(pane, action, n) ==
    <<[action |-> action, id |-> n]>> \o pane

\* wrong variant: the effect does not look whom the response is addressed to
OnResponseOfAny(s, pane, resp) ==
    IF resp # nil THEN AddNewContent(pane, "RECV", resp.id) ELSE pane

\* the effect on props.response: only the pane it is addressed to shows it
OnResponse(s, pane, resp) ==
    IF resp # nil /\ resp.to = s THEN AddNewContent(pane, "RECV", resp.id) ELSE pane

\* a pane's first render: an empty history, and the effect
MountedPane(s, resp) == OnResponse(s, <<>>, resp)

\* rc-tabs renders the content of a pane when it becomes the active one
Visit(ps, s, resp) ==
    IF s = nil \/ s \in DOMAIN ps
    THEN ps
    ELSE [x \in DOMAIN ps \cup {s} |-> IF x = s THEN MountedPane(s, resp) ELSE ps[x]]

VisitDue(d, s) ==
    IF s = nil \/ s \in DOMAIN d THEN d
    ELSE [x \in DOMAIN d \cup {s} |-> IF x = s THEN {} ELSE d[x]]

OnClickClearListButton ==
    /\ PaneControls
    /\ panes' = [panes EXCEPT ![activePane] = <<>>]
    /\ due' = [due EXCEPT ![activePane] = {}]
    /\ UNCHANGED <<cClient, serverPanes, activePane, consoleResponse, confirm>>
    /\ UNCHANGED socketVars

\* without a client the command is only noted in the history, with a warning
OnConsoleCommand(s, n) ==
    sock' = Send(sock, cClient, Msg("message", s, n, {}))

\* a non-empty text is submitted, from the input line or, in multi line mode,
\* from the text area; an empty one returns at once
OnSubmitCommand ==
    /\ PaneControls
    /\ sent < MaxSend /\ sent' = sent + 1
    /\ panes' = [panes EXCEPT ![activePane] = AddNewContent(@, "SEND", sent')]
    /\ OnConsoleCommand(activePane, sent')
    /\ UNCHANGED <<cClient, serverPanes, activePane, consoleResponse, confirm, due>>
    /\ UNCHANGED <<mount, closes>>

-----------------------------------------------------------------------------
(* ConsoleTabPanes *)

\* the dialog keeps the client of the render in which the button was clicked
OnHotfix ==
    /\ PaneControls /\ sent < MaxSend
    /\ confirm' = <<cClient>>
    /\ UNCHANGED <<cClient, serverPanes, activePane, consoleResponse, panes, due>>
    /\ UNCHANGED socketVars

HotfixOk ==
    /\ confirm # <<>> /\ sent < MaxSend
    /\ sent' = sent + 1
    /\ sock' = Send(sock, confirm[1], Msg("reload", nil, sent', {}))
    /\ confirm' = <<>>
    /\ UNCHANGED <<cClient, serverPanes, activePane, consoleResponse, panes, due, mount, closes>>

HotfixCancel ==
    /\ confirm # <<>> /\ confirm' = <<>>
    /\ UNCHANGED <<cClient, serverPanes, activePane, consoleResponse, panes, due>>
    /\ UNCHANGED socketVars

SelectPane(s) ==
    /\ s \in serverPanes /\ s # activePane
    /\ activePane' = s
    /\ panes' = Visit(panes, s, consoleResponse) /\ due' = VisitDue(due, s)
    /\ UNCHANGED <<cClient, serverPanes, consoleResponse, confirm>>
    /\ UNCHANGED socketVars

ConsoleOpened(i) ==
    /\ sock[i].page = "debug"
    /\ OpenAndAsk(i, "servers")
    /\ cClient' = IF Mounted(i) THEN i ELSE cClient
    /\ UNCHANGED <<serverPanes, activePane, consoleResponse, panes, confirm, due>>

\* wrong variant: the close event does not forget the client
ConsoleClosedKeepsClient(i) ==
    /\ sock[i].page = "debug" /\ sock[i].st = "closing"
    /\ sock' = Append([sock EXCEPT ![i].st = "closed"], NewSocket("debug", sock[i].owner))
    /\ UNCHANGED consoleVars /\ UNCHANGED <<mount, sent, closes>>

\* the close event starts the next socket, also when the page is gone
ConsoleClosed(i) ==
    /\ sock[i].page = "debug" /\ sock[i].st = "closing"
    /\ sock' = Append([sock EXCEPT ![i].st = "closed"], NewSocket("debug", sock[i].owner))
    /\ cClient' = IF Mounted(i) THEN nil ELSE cClient
    /\ UNCHANGED <<serverPanes, activePane, consoleResponse, panes, confirm, due>>
    /\ UNCHANGED <<mount, sent, closes>>

\* the pane list of the answer replaces the old one; panes that stay keep
\* their history, and a pane that is gone from under the cursor gives way to
\* another one
SetServerPanes(list) ==
    \E a \in IF activePane \in list THEN {activePane}
             ELSE IF list = {} THEN {nil} ELSE list :
        /\ serverPanes' = list /\ activePane' = a
        /\ panes' = Visit(Kept(panes, list), a, consoleResponse)
        /\ due' = VisitDue(Kept(due, list), a)
        /\ UNCHANGED <<consoleResponse, cClient, confirm>>

SetConsoleResponse(m) ==
    /\ consoleResponse' = [to |-> m.to, id |-> m.id]
    /\ panes' = [s \in DOMAIN panes |-> OnResponse(s, panes[s], consoleResponse')]
    /\ due' = [s \in DOMAIN due |-> IF s = m.to THEN due[s] \cup {m.id} ELSE due[s]]
    /\ UNCHANGED <<serverPanes, activePane, cClient, confirm>>

ConsoleMessage(i, m) ==
    /\ sock[i].page = "debug" /\ Mounted(i)
    /\ sock' = Decoded(i, m)
    /\ UNCHANGED <<mount, sent, closes>>
    /\ \/ m.type = "servers" /\ SetServerPanes(m.list)
       \/ m.type \in {"message", "reload"} /\ SetConsoleResponse(m)

\* what the backend answers: the list of the registered servers, the result of
\* a command, and for a reload one result per registered server
ConsoleAnswers(r) ==
    CASE r.type = "servers" -> {{Msg("servers", nil, 0, l)} : l \in ServerLists}
      [] r.type = "message" -> {{r}}
      [] r.type = "reload"  -> {{Msg("reload", s, r.id, {}) : s \in l} : l \in ServerLists}

ConsoleAnswer(i) ==
    /\ sock[i].page = "debug" /\ sock[i].up # <<>>
    /\ \E a \in ConsoleAnswers(Head(sock[i].up)) : Answer(i, a)
    /\ UNCHANGED consoleVars
=============================================================================
