--------------------------- MODULE ServiceWorker ---------------------------
(***************************************************************************)
(* What a starting page does about service workers (global.tsx).  This     *)
(* build has the setting pwa off: it registers no worker, but a browser    *)
(* may still have the worker (service-worker.js) and the caches of an      *)
(* earlier build that had it on.  Every page of this build that starts     *)
(* over https unregisters the worker and deletes the caches, in promises   *)
(* that nobody waits for, while the worker goes on serving the tabs it     *)
(* controls.  Pages of the earlier build come from its precache only.      *)
(***************************************************************************)
EXTENDS FiniteSets

CONSTANT Tab

VARIABLES https,       \* the protocol of the pages
          registered,  \* the browser has a worker of an earlier build
          caches,      \* its caches
          page,        \* tab -> closed, old (of the earlier build) or new (of this one)
          controlled,  \* tab -> the worker serves its requests
          promised,    \* tab -> promises of the page that are not resolved yet
          deleting     \* caches whose deletion was asked for

workerVars == <<https, registered, caches, page, controlled, promised, deleting>>

Cache == {"precache", "runtime"}

\* the setting of this build
Pwa == FALSE

\* the promises of the clean-up that a page of this build starts with
StartPromises == IF ~Pwa /\ https THEN {"registrations", "keys"} ELSE {}

\* a worker also runs on http://localhost
WorkerInit ==
    /\ https \in BOOLEAN
    /\ registered = TRUE /\ caches = Cache /\ deleting = {}
    /\ page = [t \in Tab |-> "closed"] /\ controlled = [t \in Tab |-> FALSE]
    /\ promised = [t \in Tab |-> {}]

\* the navigation route: index.html from the precache, else from the network
Served(byWorker) == IF byWorker /\ "precache" \in caches THEN "old" ELSE "new"

\* A tab loads the application, by a reload too; a forced reload bypasses the worker.
Load(t, forced) ==
    LET byWorker == registered /\ ~forced IN
    /\ page' = [page EXCEPT ![t] = Served(byWorker)]
    /\ controlled' = [controlled EXCEPT ![t] = byWorker]
    /\ promised' = [promised EXCEPT ![t] = IF Served(byWorker) = "new" THEN StartPromises ELSE {}]
    /\ UNCHANGED <<https, registered, caches, deleting>>

\* the callbacks of a page that is closed are not called
CloseTab(t) ==
    /\ page[t] # "closed" /\ page' = [page EXCEPT ![t] = "closed"]
    /\ controlled' = [controlled EXCEPT ![t] = FALSE]
    /\ promised' = [promised EXCEPT ![t] = {}]
    /\ UNCHANGED <<https, registered, caches, deleting>>

\* wrong variant: the registrations are looked up, but stay
UnregisterNone(t) ==
    /\ "registrations" \in promised[t]
    /\ promised' = [promised EXCEPT ![t] = @ \ {"registrations"}]
    /\ UNCHANGED <<https, registered, caches, page, controlled, deleting>>

\* getRegistrations: all are unregistered; the worker keeps the tabs it controls
Unregister(t) ==
    /\ "registrations" \in promised[t]
    /\ promised' = [promised EXCEPT ![t] = @ \ {"registrations"}]
    /\ registered' = FALSE
    /\ UNCHANGED <<https, caches, page, controlled, deleting>>

\* clearCache has the keys and asks for the deletion of every cache there is now
ClearCache(t) ==
    /\ "keys" \in promised[t]
    /\ promised' = [promised EXCEPT ![t] = @ \ {"keys"}]
    /\ deleting' = deleting \cup caches
    /\ UNCHANGED <<https, registered, caches, page, controlled>>

\* the browser does it, whether or not the page is still there
Delete(c) ==
    /\ c \in deleting /\ deleting' = deleting \ {c}
    /\ caches' = caches \ {c}
    /\ UNCHANGED <<https, registered, page, controlled, promised>>

\* networkFirst: the worker stores the answer to a request of a tab it controls
Fetch(t) ==
    /\ controlled[t] /\ caches' = caches \cup {"runtime"}
    /\ UNCHANGED <<https, registered, page, controlled, promised, deleting>>

WorkerNext ==
    \/ \E t \in Tab : \/ \E forced \in BOOLEAN : Load(t, forced)
                      \/ CloseTab(t) \/ Unregister(t) \/ ClearCache(t) \/ Fetch(t)
    \/ \E c \in Cache : Delete(c)

-----------------------------------------------------------------------------
\* Type invariant of the browser and its tabs.
WorkerTypeOK ==
    /\ https \in BOOLEAN /\ registered \in BOOLEAN
    /\ caches \subseteq Cache /\ deleting \subseteq Cache
    /\ page \in [Tab -> {"closed", "old", "new"}] /\ controlled \in [Tab -> BOOLEAN]
    /\ promised \in [Tab -> SUBSET {"registrations", "keys"}]
    /\ \A t \in Tab : promised[t] # {} => page[t] = "new"

\* When a page of this build has had its promises and the deletions are done, the
\* browser has no worker and no precache of an earlier build, whatever other tabs and
\* the worker itself do meanwhile; only the runtime cache may be there again.
CleanedUp ==
    (https /\ deleting = {} /\ \E t \in Tab : page[t] = "new" /\ promised[t] = {})
        => ~registered /\ caches \subseteq {"runtime"}
=============================================================================
