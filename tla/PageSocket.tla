----------------------------- MODULE PageSocket -----------------------------
(***************************************************************************)
(* The WebSocket objects the browser pages create.  A page's component     *)
(* opens a socket when it is mounted and keeps it in its state `client'    *)
(* from the open event to the close event.  The socket itself is the       *)
(* browser's and outlives the component: its handlers still run after the  *)
(* component is gone, only their setState calls have no effect then.       *)
(*                                                                         *)
(* sock[i] is the i-th socket ever created in the browser tab:             *)
(*   page, owner  the component that created it, and which of its mounts   *)
(*   st           connecting, open, closing (gone, but the close event has *)
(*                not run yet) or closed                                   *)
(*   up           requests the backend has not answered                    *)
(*   got          answers under way or being decoded.  Every handler       *)
(*                starts with `await new Response(e.data).arrayBuffer()',  *)
(*                so answers are handled in any order, and also after the  *)
(*                close event.                                             *)
(***************************************************************************)
EXTENDS Naturals, Sequences, FiniteSets

CONSTANTS nil,
          MaxMount,   \* bound: components mounted in one tab
          MaxSend,    \* bound: requests the user makes
          MaxClose    \* bound: connections refused or lost

ASSUME SocketAssumption ==
    /\ MaxMount \in Nat \ {0} /\ MaxSend \in Nat /\ MaxClose \in Nat
    /\ nil \notin Nat

VARIABLES sock, mount, sent, closes

socketVars == <<sock, mount, sent, closes>>

\* requests and answers: `to' is a server or a command, `list' a list of them
Msg(type, to, id, list) == [type |-> type, to |-> to, id |-> id, list |-> list]

NewSocket(page, m) ==
    [page |-> page, owner |-> m, st |-> "connecting", up |-> <<>>, got |-> {}]

\* the component that created socket i is still on the screen
Mounted(i) == sock[i].owner = mount

\* client?.send(r): nothing without a client, discarded by a socket that is
\* no longer open
Send(ss, i, r) ==
    IF i # nil /\ ss[i].st = "open" THEN [ss EXCEPT ![i].up = Append(@, r)] ELSE ss

\* the open event with the effect on `client': a mounted component asks for
\* the data its page is built from
OpenAndAsk(i, type) ==
    LET opened == [sock EXCEPT ![i].st = "open"]
    IN  /\ sock[i].st = "connecting"
        /\ sock' = IF Mounted(i) THEN Send(opened, i, Msg(type, nil, 0, {})) ELSE opened
        /\ UNCHANGED <<mount, sent, closes>>

\* the connection is refused or lost: requests not answered yet are gone, and
\* so is any part of the answers that had not arrived
Drop(i) ==
    /\ sock[i].st \in {"connecting", "open"} /\ closes < MaxClose
    /\ \E arrived \in SUBSET sock[i].got :
          sock' = [sock EXCEPT ![i].st = "closing", ![i].up = <<>>, ![i].got = arrived]
    /\ closes' = closes + 1
    /\ UNCHANGED <<mount, sent>>

\* the backend answers the oldest request with some of the answers it may give
Answer(i, answers) ==
    /\ sock[i].st = "open" /\ sock[i].up # <<>>
    /\ sock' = [sock EXCEPT ![i].up = Tail(@), ![i].got = @ \cup answers]
    /\ UNCHANGED <<mount, sent, closes>>

\* the handler of answer m runs
Decoded(i, m) == [sock EXCEPT ![i].got = @ \ {m}]

\* ids of the user's requests that may still be answered
Outstanding ==
    (UNION {{sock[i].up[k].id : k \in DOMAIN sock[i].up} : i \in DOMAIN sock})
        \cup (UNION {{m.id : m \in sock[i].got} : i \in DOMAIN sock})
=============================================================================
