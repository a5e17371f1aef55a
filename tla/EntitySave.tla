----------------------------- MODULE EntitySave ------------------------------
(***************************************************************************)
(* Persistence of the entities of a game process: the save list            *)
(* (engine/entity_save.go), the part of the entity life cycle that feeds   *)
(* it (engine/entity.go, engine/entity_manager.go), the tick that empties  *)
(* it towards the dbmanager (game/db_proxy.go), the connection to it       *)
(* (engine/tcp_client.go) and the callbacks of the answers                 *)
(* (game/callback.go, game/callback_implements.go).                        *)
(*                                                                         *)
(* One goroutine runs serverTick: logic (timers, tasks, Lua), then         *)
(* doSaveEntity, then one message of the connection.  The reconnecting     *)
(* goroutine and the dbmanager interleave with its steps.                  *)
(*                                                                         *)
(* The properties of an entity are abstracted to a version number that     *)
(* every change increases.                                                 *)
(***************************************************************************)
EXTENDS Integers, Sequences, FiniteSets

CONSTANTS
    Entity,      \* entities with persistent properties
    SaveNum,     \* SaveNumPerTick of the configuration
    MaxVer,      \* bound: changes of one entity
    MaxAdd,      \* bound: elements ever put into the save list
    MaxUuid,     \* bound: callbacks ever registered
    MaxLoss,     \* bound: connections lost
    MaxWire,     \* bound: commands and answers under way
    nil

ASSUME BoundAssumption ==
    /\ SaveNum \in Nat \ {0}
    /\ {MaxVer, MaxAdd, MaxUuid, MaxLoss, MaxWire} \subseteq Nat
    /\ nil \notin Nat

VARIABLES
    status,      \* entity: "none" (not registered), "ready" or "destroying"
    ver,         \* entity: version of its properties in memory
    saveList,    \* elements [n, id, ver, resp] waiting to be sent
    entityInfo,  \* entity -> number n of its element in saveList, or nil
    batch,       \* what is left of the slice Get returned in this tick
    cbMap,       \* uuid -> [kind, id] of the registered callback, or nil
    conn,        \* connectStatus of the connection to the dbmanager
    wire,        \* commands accepted by Send, not executed yet
    answers,     \* responses under way to the game
    db,          \* entity: version stored in the database
    added,       \* number of elements ever put into saveList
    uuid,        \* callbackUniqueID
    losses,      \* number of lost connections
    destroyVer,  \* history: entity -> version of the last saving Destroy, or nil
    overlapped,  \* history: entity -> a save was requested while one was open
    crossed,     \* history: entity -> a save was requested while the database had
                 \* still to run an older one
    abandoned    \* history: entity -> destroyed without a save while one was open

saves == <<saveList, entityInfo, added>>
callbacks == <<cbMap, uuid>>
network == <<conn, wire, answers, losses>>
entities == <<status, ver, destroyVer, overlapped, crossed, abandoned>>
vars == <<status, ver, saveList, entityInfo, batch, cbMap, conn, wire, answers,
          db, added, uuid, losses, destroyVer, overlapped, crossed, abandoned>>

Uuid == 1..MaxUuid
NoCallback == 0

Init ==
    /\ status = [e \in Entity |-> "ready"]
    /\ ver = [e \in Entity |-> 0]
    /\ saveList = << >>
    /\ entityInfo = [e \in Entity |-> nil]
    /\ batch = << >>
    /\ cbMap = [u \in Uuid |-> nil]
    /\ conn = "connected"
    /\ wire = << >>
    /\ answers = << >>
    /\ db = [e \in Entity |-> 0]
    /\ added = 0
    /\ uuid = 0
    /\ losses = 0
    /\ destroyVer = [e \in Entity |-> nil]
    /\ overlapped = [e \in Entity |-> FALSE]
    /\ crossed = [e \in Entity |-> FALSE]
    /\ abandoned = [e \in Entity |-> FALSE]

\* the tick goroutine is where timers, tasks and Lua run
Logic == batch = << >>

(***************************************************************************)
(* EntitySaveManager                                                       *)
(***************************************************************************)

\* s without its element i
Without(s, i) == SubSeq(s, 1, i - 1) \o SubSeq(s, i + 1, Len(s))

\* genSaveInfo, and Add: push back, and map the entity to the new element
Add(e, resp) ==
    /\ added < MaxAdd
    /\ added' = added + 1
    /\ saveList' = Append(saveList, [n |-> added + 1, id |-> e, ver |-> ver[e], resp |-> resp])
    /\ entityInfo' = [entityInfo EXCEPT ![e] = added + 1]

\* wrong variant: forgets to take the element out of the list
RemoveMapOnly(e) ==
    /\ entityInfo' = [entityInfo EXCEPT ![e] = nil]
    /\ UNCHANGED <<saveList, added>>

\* Remove: takes the element the entity is mapped to out of the list
Remove(e) ==
    /\ \/ \E i \in DOMAIN saveList :
             saveList[i].n = entityInfo[e] /\ saveList' = Without(saveList, i)
       \/ (\A i \in DOMAIN saveList : saveList[i].n # entityInfo[e]) /\ UNCHANGED saveList
    /\ entityInfo' = [entityInfo EXCEPT ![e] = nil]
    /\ UNCHANGED added

\* Get(n): the first n elements
Get(n) == SubSeq(saveList, 1, IF n < Len(saveList) THEN n ELSE Len(saveList))

\* a save of e is queued, or its answer is still expected
Open(e) ==
    \/ \E i \in DOMAIN saveList : saveList[i].id = e
    \/ \E u \in Uuid : cbMap[u] = [kind |-> "save", id |-> e]

\* a save of e is under way to the database
OnWire(e) == \E i \in DOMAIN wire : wire[i].kind = "save" /\ wire[i].id = e

\* what the history keeps of a request to save e
Requested(e) ==
    /\ overlapped' = [overlapped EXCEPT ![e] = @ \/ Open(e)]
    /\ crossed' = [crossed EXCEPT ![e] = @ \/ OnWire(e)]
    /\ UNCHANGED abandoned

(***************************************************************************)
(* TcpClient.Send and the callback table                                   *)
(***************************************************************************)

\* the bound on what is under way
Room == Len(wire) + Len(answers) < MaxWire

Send(m) == wire' = IF conn = "disconnected" THEN wire ELSE Append(wire, m)

\* NextUniqueID, setCallbackWithTimeout
SetCallback(kind, e) ==
    /\ uuid < MaxUuid
    /\ uuid' = uuid + 1
    /\ cbMap' = [cbMap EXCEPT ![uuid + 1] = [kind |-> kind, id |-> e]]

(***************************************************************************)
(* Entities                                                                *)
(***************************************************************************)

\* loadEntityFromDB; the callback is registered whether or not Send succeeds.
\* Account.lua calls it for an entity that is not there, one login at a time.
LoadEntity(e) ==
    /\ Logic
    /\ status[e] = "none"
    /\ \A u \in Uuid : cbMap[u] # [kind |-> "load", id |-> e]
    /\ Room
    /\ SetCallback("load", e)
    /\ Send([kind |-> "load", id |-> e, ver |-> 0, uuid |-> uuid + 1])
    /\ UNCHANGED <<entities, saves, batch, conn, answers, losses, db>>

\* a script changes a persistent property
Change(e) ==
    /\ Logic
    /\ status[e] # "none"
    /\ ver[e] < MaxVer
    /\ ver' = [ver EXCEPT ![e] = @ + 1]
    /\ UNCHANGED <<status, destroyVer, overlapped, crossed, abandoned, saves, batch,
                   callbacks, network, db>>

\* SaveToDB, called by the save timer and by scripts, which may also call it for
\* an entity that is Destroying
SaveToDB(e) ==
    /\ Logic
    /\ status[e] # "none"
    /\ Add(e, FALSE)
    /\ Requested(e)
    /\ UNCHANGED <<status, ver, destroyVer, batch, callbacks, network, db>>

\* Destroy(true, true): a Ready entity, or one that has been Destroying for ten
\* seconds already; also called for every entity by stop_server
Destroy(e) ==
    /\ Logic
    /\ status[e] # "none"
    /\ status' = [status EXCEPT ![e] = "destroying"]
    /\ Add(e, TRUE)
    /\ destroyVer' = [destroyVer EXCEPT ![e] = ver[e]]
    /\ Requested(e)
    /\ UNCHANGED <<ver, batch, callbacks, network, db>>

\* Destroy(false, true): final() at once, of a Ready entity or of one that has been
\* Destroying for ten seconds.  A queued save stays queued and an awaited answer
\* keeps its callback.
DestroyWithoutSave(e) ==
    /\ Logic
    /\ status[e] # "none"
    /\ status' = [status EXCEPT ![e] = "none"]
    /\ destroyVer' = [destroyVer EXCEPT ![e] = nil]
    /\ abandoned' = [abandoned EXCEPT ![e] = @ \/ Open(e)]
    /\ UNCHANGED <<ver, overlapped, crossed, saves, batch, callbacks, network, db>>

(***************************************************************************)
(* dbProxy.Tick                                                            *)
(***************************************************************************)

\* doSaveEntity takes the slice it will loop over
TickSave ==
    /\ Logic
    /\ saveList # << >>
    /\ batch' = Get(SaveNum)
    /\ UNCHANGED <<entities, saves, callbacks, network, db>>

\* one round of doSaveEntity's loop: saveEntity, then Remove if it was sent
SaveEntity ==
    LET info == Head(batch) IN
    /\ batch # << >>
    /\ Room
    /\ batch' = Tail(batch)
    /\ IF info.resp THEN SetCallback("save", info.id) ELSE UNCHANGED callbacks
    /\ Send([kind |-> "save", id |-> info.id, ver |-> info.ver,
             uuid |-> IF info.resp THEN uuid + 1 ELSE NoCallback])
    /\ IF conn = "disconnected" THEN UNCHANGED saves ELSE Remove(info.id)
    /\ UNCHANGED <<entities, conn, answers, losses, db>>

(***************************************************************************)
(* The callbacks                                                           *)
(***************************************************************************)

\* wrong variant: the entry stays
CalledKeepsEntry(u) == UNCHANGED callbacks

\* removeCallback, then Process
Called(u) ==
    /\ cbMap' = [cbMap EXCEPT ![u] = nil]
    /\ UNCHANGED uuid

\* saveEntityOnDestroyCallback.Process without error: final(), if the entity is
\* registered
SavedOnDestroy(e) ==
    /\ status' = [status EXCEPT ![e] = "none"]
    /\ UNCHANGED <<ver, destroyVer, overlapped, crossed, abandoned>>

\* wrong variant: completeEntity is not called
CreateEntityIncomplete(e, v) ==
    /\ status' = [status EXCEPT ![e] = "create"]
    /\ ver' = [ver EXCEPT ![e] = v]
    /\ destroyVer' = [destroyVer EXCEPT ![e] = nil]
    /\ UNCHANGED <<overlapped, crossed, abandoned>>

\* queryDBEntityCallback.Process without error: CreateEntityFromData
CreateEntityFromData(e, v) ==
    /\ status' = [status EXCEPT ![e] = "ready"]
    /\ ver' = [ver EXCEPT ![e] = v]
    /\ destroyVer' = [destroyVer EXCEPT ![e] = nil]
    /\ UNCHANGED <<overlapped, crossed, abandoned>>

\* conn.Tick -> OnMessage -> processDBCommandResponse -> Call
DBCommandResponse ==
    LET a == Head(answers) IN
    /\ Logic
    /\ conn # "disconnected"
    /\ answers # << >>
    /\ answers' = Tail(answers)
    /\ IF cbMap[a.uuid] = nil
       THEN UNCHANGED <<entities, callbacks>>
       ELSE /\ Called(a.uuid)
            /\ \/ a.err /\ UNCHANGED entities
               \/ ~a.err /\ a.kind = "save" /\ SavedOnDestroy(a.id)
               \/ ~a.err /\ a.kind = "load" /\ CreateEntityFromData(a.id, a.ver)
    /\ UNCHANGED <<saves, batch, conn, wire, losses, db>>

\* wrong variant: the timeout of a save destroys the entity, too
OnTimeoutFinal(u) ==
    /\ Logic
    /\ cbMap[u] # nil
    /\ Called(u)
    /\ IF cbMap[u].kind = "save" THEN SavedOnDestroy(cbMap[u].id) ELSE UNCHANGED entities
    /\ UNCHANGED <<saves, batch, network, db>>

\* the timer of the callback fires: Call with an error, on which Process only logs
OnTimeout(u) ==
    /\ Logic
    /\ cbMap[u] # nil
    /\ Called(u)
    /\ UNCHANGED <<entities, saves, batch, network, db>>

(***************************************************************************)
(* The connection                                                          *)
(***************************************************************************)

\* Tick finds that receive has ended and closes the connection: what was written
\* to the socket and not received is lost, the rest of the out buffer survives;
\* so do the answers already read.
ConnectionLost ==
    /\ Logic
    /\ conn = "connected" /\ losses < MaxLoss
    /\ conn' = "disconnected"
    /\ losses' = losses + 1
    /\ \E k \in 0..Len(wire) : wire' = SubSeq(wire, k + 1, Len(wire))
    /\ \E k \in 0..Len(answers) : answers' = SubSeq(answers, 1, k)
    /\ UNCHANGED <<entities, saves, batch, callbacks, db>>

\* the goroutine of doConnAction dials; Send accepts data from here on
Connecting ==
    /\ conn = "disconnected"
    /\ conn' = "connecting"
    /\ UNCHANGED <<entities, saves, batch, callbacks, wire, answers, losses, db>>

Connected ==
    /\ conn = "connecting"
    /\ conn' = "connected"
    /\ UNCHANGED <<entities, saves, batch, callbacks, wire, answers, losses, db>>

ConnectFails ==
    /\ conn = "connecting"
    /\ conn' = "disconnected"
    /\ UNCHANGED <<entities, saves, batch, callbacks, wire, answers, losses, db>>

(***************************************************************************)
(* The dbmanager, as the game sees it (see BufferedTasks): commands of     *)
(* different entities run in any order.  Commands of one entity that meet  *)
(* there may be executed in any order, twice, or not at all.               *)
(***************************************************************************)

Meets(i) == \E j \in DOMAIN wire \ {i} : wire[j].id = wire[i].id

\* A command is executed and answered if it has a uuid.  The operation may report
\* an error (err) and, when that is a timeout, still take effect.  A command that
\* came over a connection that is lost by now is executed all the same, but its
\* answer reaches nobody (late).
DBExecute(i, err, again, late) ==
    LET m == wire[i] IN
    /\ IF late THEN losses > 0 ELSE conn = "connected"
    /\ again => Meets(i) /\ Room
    /\ wire' = IF again THEN wire ELSE Without(wire, i)
    /\ \/ /\ m.kind = "save"
          /\ db' = [db EXCEPT ![m.id] = m.ver]
       \/ /\ m.kind = "load" \/ err
          /\ UNCHANGED db
    /\ answers' = IF m.uuid = NoCallback \/ late
                  THEN answers
                  ELSE Append(answers, [kind |-> m.kind, id |-> m.id, uuid |-> m.uuid,
                                        ver |-> IF m.kind = "load" THEN db[m.id] ELSE m.ver, err |-> err])
    /\ UNCHANGED <<entities, saves, batch, callbacks, conn, losses>>

DBSkip(i) ==
    /\ conn = "connected"
    /\ Meets(i)
    /\ wire' = Without(wire, i)
    /\ UNCHANGED <<entities, saves, batch, callbacks, conn, answers, losses, db>>

DBStep ==
    \E i \in DOMAIN wire :
        \/ DBSkip(i)
        \/ \E err, again, late \in BOOLEAN : DBExecute(i, err, again, late)

Tick == TickSave \/ SaveEntity \/ DBCommandResponse

Next ==
    \/ \E e \in Entity :
          LoadEntity(e) \/ Change(e) \/ SaveToDB(e) \/ Destroy(e) \/ DestroyWithoutSave(e)
    \/ Tick
    \/ \E u \in Uuid : OnTimeout(u)
    \/ ConnectionLost \/ Connecting \/ Connected \/ ConnectFails
    \/ DBStep

Spec == Init /\ [][Next]_vars
-----------------------------------------------------------------------------
(***************************************************************************)
(* Properties                                                              *)
(***************************************************************************)

Element == [n : 1..MaxAdd, id : Entity, ver : 0..MaxVer, resp : BOOLEAN]

\* Type invariant of the save list, the callbacks and the connection.
TypeOK ==
    /\ status \in [Entity -> {"none", "ready", "destroying"}]
    /\ ver \in [Entity -> 0..MaxVer]
    /\ saveList \in Seq(Element)
    /\ entityInfo \in [Entity -> (1..MaxAdd) \cup {nil}]
    /\ batch \in Seq(Element)
    /\ cbMap \in [Uuid -> [kind : {"save", "load"}, id : Entity] \cup {nil}]
    /\ conn \in {"connected", "connecting", "disconnected"}
    /\ wire \in Seq([kind : {"save", "load"}, id : Entity, ver : 0..MaxVer, uuid : 0..MaxUuid])
    /\ answers \in Seq([kind : {"save", "load"}, id : Entity, ver : 0..MaxVer, uuid : Uuid,
                        err : BOOLEAN])
    /\ db \in [Entity -> 0..MaxVer]
    /\ added \in 0..MaxAdd
    /\ uuid \in 0..MaxUuid
    /\ losses \in 0..MaxLoss
    /\ destroyVer \in [Entity -> (0..MaxVer) \cup {nil}]
    /\ overlapped \in [Entity -> BOOLEAN]
    /\ crossed \in [Entity -> BOOLEAN]
    /\ abandoned \in [Entity -> BOOLEAN]

\* The map and the list agree.  An entity that is mapped is mapped to its newest
\* element, which is in the list, so Remove(entityId) takes the newest save out
\* and never one of another entity.  And unless a save of an entity was requested
\* while another was open, no element of it is in the list twice or without being
\* mapped, so none is sent again and again.
SaveListAgrees ==
    /\ \A e \in Entity : entityInfo[e] # nil =>
          /\ \E i \in DOMAIN saveList : saveList[i].n = entityInfo[e] /\ saveList[i].id = e
          /\ \A i \in DOMAIN saveList : saveList[i].id = e => saveList[i].n <= entityInfo[e]
    /\ \A i \in DOMAIN saveList :
          ~overlapped[saveList[i].id] => entityInfo[saveList[i].id] = saveList[i].n

\* While an entity that was destroyed with a save is gone, the database holds the
\* version it had at the Destroy, unless one of its saves was requested while an
\* older one was queued, awaited or still to be run by the database: the dbmanager
\* may run two saves it has at the same time in any order.  Lost connections,
\* errors, timeouts, late answers and commands that are run twice lose nothing.
DestroyedIsSaved ==
    \A e \in Entity :
        (status[e] = "none" /\ destroyVer[e] # nil /\ ~overlapped[e] /\ ~crossed[e])
            => db[e] = destroyVer[e]

\* Process does not look at the status of the entity that has the id now.  An
\* answer that ends one that is not being destroyed has one of two causes: saves of
\* the entity overlapped, or it was destroyed without a save while one was open.
\* Timeouts, errors, lost and late answers and reloads alone are not enough.
LateFinalHasCause ==
    [][\A e \in Entity :
          (/\ DBCommandResponse /\ status'[e] = "none" /\ status[e] # "none"
           /\ ~overlapped[e] /\ ~abandoned[e])
              => status[e] = "destroying"]_vars

\* The callback of the save that destroys an entity ends no entity but one that is
\* being destroyed.
FinalOnlyWhileDestroying ==
    [][\A e \in Entity :
          (DBCommandResponse /\ status'[e] = "none" /\ status[e] # "none")
              => status[e] = "destroying"]_vars

\* A save whose answer is needed leaves the list only by being sent.
NeedResponseIsSent ==
    [][\A i \in DOMAIN saveList :
          (saveList[i].resp /\ \A j \in DOMAIN saveList' : saveList'[j] # saveList[i])
              => SaveEntity /\ Head(batch) = saveList[i]]_vars
=============================================================================
