------------------------------- MODULE Admin --------------------------------
(***************************************************************************)
(* The admin server: the requests of the console and gm pages, which go to *)
(* the games, and those of the export page, which are about its own file.  *)
(* They meet only in the goroutine of a connection, and a page sends       *)
(* requests of one kind, so a behaviour is about one kind.                 *)
(***************************************************************************)
EXTENDS TelnetRelay, ExportConfig

VARIABLE part

relayVars == <<clientVars, gameVars, answers, disturbed, crashed>>
configVars == <<pageVars, fileVars>>
vars == <<connVars, relayVars, configVars, part>>

Init == part \in {"relay", "config"} /\ ConnInit /\ RelayInit /\ ConfigInit

Next ==
    \/ part = "relay" /\ RelayNext /\ UNCHANGED <<configVars, part>>
    \/ part = "config" /\ ConfigNext /\ UNCHANGED <<relayVars, part>>

Spec == Init /\ [][Next]_vars

\* Type invariant of the connections, the relay and the configuration.
TypeOK ==
    /\ \A b \in Browser : client[b] = none \/ client[b] \in 1..connected
    /\ closed \subseteq 1..connected /\ requests \in 0..MaxRequest
    /\ \A c \in Conn : doing[c].id \in 0..requests
    /\ RelayTypeOK /\ ConfigTypeOK
=============================================================================
