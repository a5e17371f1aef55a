------------------------------ MODULE AppShell ------------------------------
(***************************************************************************)
(* The two single page applications as a whole: the pages, the components  *)
(* of the header and the clean-up after a service worker.  These parts     *)
(* share no state, so a behaviour is about one of them.                    *)
(***************************************************************************)
EXTENDS WebApp, HeaderBar, ServiceWorker

VARIABLE part

headerVars == <<noticeVars, searchVars, avatarVars>>
vars == <<pagesVars, headerVars, workerVars, part>>

Init ==
    /\ part \in {"pages", "notices", "search", "avatar", "worker"}
    /\ PagesInit /\ HeaderInit /\ WorkerInit
    \* what a part may start with does not matter to the others
    /\ part # "pages" => app = "web"
    /\ part # "worker" => https
    /\ part # "avatar" => currentUser = none /\ path = CHOOSE p \in Page : TRUE

Next ==
    /\ \/ part = "pages" /\ PagesNext /\ UNCHANGED <<headerVars, workerVars>>
       \/ part = "notices" /\ NoticeNext /\ UNCHANGED <<pagesVars, workerVars>>
       \/ part = "search" /\ SearchNext /\ UNCHANGED <<pagesVars, workerVars>>
       \/ part = "avatar" /\ AvatarNext /\ UNCHANGED <<pagesVars, workerVars>>
       \/ part = "worker" /\ WorkerNext /\ UNCHANGED <<pagesVars, headerVars>>
    /\ UNCHANGED part

\* the browser runs every event handler, and a connection attempt ends
FairSpec ==
    /\ Init /\ [][Next]_vars
    /\ WF_vars(ConsoleHandled /\ UNCHANGED <<headerVars, workerVars, part>>)
    /\ WF_vars(ExportHandled /\ UNCHANGED <<headerVars, workerVars, part>>)

-----------------------------------------------------------------------------
\* Type invariant of the pages, the header and the clean-up.
TypeOK ==
    /\ PagesTypeOK /\ WorkerTypeOK
    /\ request \in {"pending", "ok", "failed"}
    /\ notices \subseteq Notice /\ read \subseteq notices /\ tab \in TabKeys
    /\ searchMode \in BOOLEAN /\ reported \in BOOLEAN \cup {none}
    /\ CanAdmin => MenuShown
    /\ MenuShown <=> WaterMark # none
    /\ path \in Page \cup {"/user/login"} /\ redirect \in Page \cup {"/user/login", none}

\* A page that reconnects by itself and lost its connection gets one again, unless
\* the user leaves it first.
Reconnects ==
    /\ (part = "pages" /\ route = "debug" /\ cClient = nil) ~> (route # "debug" \/ cClient # nil)
    /\ (part = "pages" /\ route = "exportTable" /\ eClient = nil)
           ~> (route # "exportTable" \/ eClient # nil)
=============================================================================
