------------------------- MODULE BufferedTasksProofs -------------------------
(***************************************************************************)
(* Proofs about the command queues of the dbmanager, for any number of     *)
(* entities and commands, any pool size and any panicking commands.        *)
(***************************************************************************)
EXTENDS BufferedTasks, FiniteSetTheorems, TLAPS

(***************************************************************************)
(* Types                                                                   *)
(***************************************************************************)

\* Counting up at any argument keeps a function to the naturals one.
LEMMA CountUp ==
    ASSUME NEW S, NEW f \in [S -> Nat], NEW x
    PROVE  [f EXCEPT ![x] = f[x] + 1] \in [S -> Nat]
<1>1. \A y \in S : [f EXCEPT ![x] = f[x] + 1][y] \in Nat
  <2> SUFFICES ASSUME NEW y \in S PROVE [f EXCEPT ![x] = f[x] + 1][y] \in Nat
    OBVIOUS
  <2>1. CASE y = x
    <3>1. f[x] \in Nat
      BY <2>1
    <3> QED
      BY <2>1, <3>1
  <2>2. CASE y # x
    BY <2>2
  <2> QED
    BY <2>1, <2>2
<1> QED
  BY <1>1

\* Every variable keeps its type, for every set of commands and entities.
THEOREM TypeCorrect == Spec => []TypeOK
<1>1. Init => TypeOK
  BY TaskAssumption DEF Init, TypeOK, Working
<1>2. TypeOK /\ [Next]_vars => TypeOK'
  <2> SUFFICES ASSUME TypeOK, [Next]_vars PROVE TypeOK'
    OBVIOUS
  <2>1. ASSUME NEW t \in Task, AddTask(t) PROVE TypeOK'
    <3>1. Owner[t] \in Entity
      BY TaskAssumption
    <3>2. Append(queue[Owner[t]], t) \in Seq(Task)
      BY <3>1 DEF TypeOK
    <3>3. queue' \in [Entity -> Seq(Task)]
      BY <2>1, <3>1, <3>2 DEF AddTask, TypeOK
    <3>4. overlapped' \in [Entity -> BOOLEAN]
      BY <2>1, Zenon DEF AddTask, TypeOK
    <3> QED
      BY <2>1, <3>3, <3>4 DEF AddTask, TypeOK, Working
  <2>2. ASSUME NEW c \in Task, LeaveFinish(c) PROVE finishing' \in [Task -> Nat]
    <3>1. finishing \in [Task -> Nat]
      BY DEF TypeOK
    <3>2. [finishing EXCEPT ![doing[c]] = finishing[doing[c]] + 1] \in [Task -> Nat]
      BY <3>1, CountUp, Zenon
    <3> QED
      BY <2>2, <3>1, <3>2, Zenon DEF LeaveFinish
  <2>3. ASSUME NEW c \in Task, GetTask(c) PROVE TypeOK'
    <3>1. queue[Owner[c]] # << >> => Head(queue[Owner[c]]) \in Task
      BY TaskAssumption DEF TypeOK
    <3>2. finishing' \in [Task -> Nat]
      BY <2>3, <2>2 DEF GetTask, TypeOK
    <3>3. CASE queue[Owner[c]] = << >>
      BY <2>3, <3>2, <3>3 DEF GetTask, TypeOK, Working
    <3>4. CASE queue[Owner[c]] # << >>
      <4>1. got' \in [Task -> Task \cup {nil}]
        BY <2>3, <3>1, <3>4 DEF GetTask, TypeOK
      <4> QED
        BY <2>3, <3>2, <3>4, <4>1 DEF GetTask, TypeOK, Working
    <3> QED
      BY <3>3, <3>4
  <2>4. ASSUME NEW c \in Task, SubmitTask(c) PROVE TypeOK'
    BY <2>4, <2>2 DEF SubmitTask, TypeOK, Working
  <2>5. ASSUME NEW c \in Task, SubmitFails(c) PROVE TypeOK'
    BY <2>5, <2>2 DEF SubmitFails, TypeOK, Working
  <2>6. ASSUME NEW c \in Task, OnReSubmitTask(c) PROVE TypeOK'
    BY <2>6 DEF OnReSubmitTask, history, TypeOK, Working
  <2>7. ASSUME NEW c \in Task, Process(c) PROVE TypeOK'
    <3>1. runs \in [Task -> Nat]
      BY DEF TypeOK
    <3>2. [runs EXCEPT ![doing[c]] = runs[doing[c]] + 1] \in [Task -> Nat]
      BY <3>1, CountUp, Zenon
    <3>3. runs' \in [Task -> Nat]
      BY <2>7, <3>2, Zenon DEF Process
    <3> QED
      BY <2>7, <3>3 DEF Process, TypeOK, Working
  <2>8. ASSUME NEW c \in Task, ProcessPanics(c) PROVE TypeOK'
    BY <2>8 DEF ProcessPanics, history, TypeOK, Working
  <2>9. ASSUME NEW c \in Task, PopTask(c) PROVE TypeOK'
    <3>1. queue[Owner[c]] \in Seq(Task)
      BY TaskAssumption DEF TypeOK
    <3>2. (IF queue[Owner[c]] = << >> THEN queue[Owner[c]] ELSE Tail(queue[Owner[c]]))
             \in Seq(Task)
      BY <3>1
    <3>3. queue \in [Entity -> Seq(Task)]
      BY DEF TypeOK
    <3>4. queue' \in [Entity -> Seq(Task)]
      BY <2>9, <3>2, <3>3, Zenon DEF PopTask
    <3> QED
      BY <2>9, <3>4 DEF PopTask, history, TypeOK, Working
  <2>10. ASSUME NEW t \in Task, ResponseCommandTask(t) PROVE TypeOK'
    BY <2>10 DEF ResponseCommandTask, TypeOK
  <2>11. CASE StopDrained
    BY <2>11 DEF StopDrained, chains, history, TypeOK
  <2>12. CASE StopRelease
    BY <2>12 DEF StopRelease, chains, history, TypeOK
  <2>13. CASE StopQuit
    BY <2>13 DEF StopQuit, chains, history, TypeOK
  <2>14. CASE UNCHANGED vars
    BY <2>14 DEF vars, TypeOK
  <2> QED
    BY <2>1, <2>3, <2>4, <2>5, <2>6, <2>7, <2>8, <2>9, <2>10, <2>11, <2>12, <2>13, <2>14
       DEF Next, ChainStep
<1> QED
  BY <1>1, <1>2, PTL DEF Spec

(***************************************************************************)
(* No list is forgotten                                                    *)
(***************************************************************************)

Carriers(e) == Alive(e) \cup Panicked(e)

LEMMA CarriersFinite ==
    ASSUME NEW e
    PROVE  IsFiniteSet(Carriers(e)) /\ Cardinality(Carriers(e)) \in Nat
<1>1. Carriers(e) \subseteq Task
  BY DEF Carriers, Alive, Panicked
<1>2. IsFiniteSet(Carriers(e))
  BY <1>1, FS_Subset, TaskAssumption
<1> QED
  BY <1>2, FS_CardinalityType

\* A step that takes nobody out of the chains that carry a list and does not
\* make a list longer keeps the property.
LEMMA QuietStep ==
    ASSUME TypeOK, EveryTaskHasAChain,
           \A e \in Entity : Len(queue'[e]) <= Len(queue[e]) /\ Len(queue'[e]) \in Nat,
           \A c \in Task : stage'[c] \in Working \cup {"panicked"}
                           <=> stage[c] \in Working \cup {"panicked"}
    PROVE  EveryTaskHasAChain'
<1> SUFFICES ASSUME NEW e \in Entity
             PROVE  Len(queue'[e]) <= Cardinality(Carriers(e)')
  BY DEF EveryTaskHasAChain, Carriers
<1>1. Carriers(e)' = Carriers(e)
  BY DEF Carriers, Alive, Panicked
<1>2. Len(queue[e]) <= Cardinality(Carriers(e))
  BY DEF EveryTaskHasAChain, Carriers
<1>3. Len(queue[e]) \in Nat
  BY DEF TypeOK
<1> QED
  BY <1>1, <1>2, <1>3, CarriersFinite

\* Every list has as many chains that will look at it again as it has commands,
\* for any number of commands and whatever the mutex lets interleave: the
\* property EveryTaskHasAChain of the runs, for every value of the constants.
THEOREM NoListForgotten == Spec => []EveryTaskHasAChain
<1>1. Init => EveryTaskHasAChain
  <2> SUFFICES ASSUME Init, NEW e \in Entity
               PROVE  Len(queue[e]) <= Cardinality(Carriers(e))
    BY DEF EveryTaskHasAChain, Carriers
  <2>1. Len(queue[e]) = 0
    BY DEF Init
  <2> QED
    BY <2>1, CarriersFinite
<1>2. TypeOK /\ EveryTaskHasAChain /\ [Next]_vars => EveryTaskHasAChain'
  <2> SUFFICES ASSUME TypeOK, EveryTaskHasAChain, [Next]_vars PROVE EveryTaskHasAChain'
    OBVIOUS
  <2>0. \A e \in Entity : queue[e] \in Seq(Task) /\ Len(queue[e]) \in Nat
    BY DEF TypeOK
  <2>1. ASSUME NEW t \in Task, AddTask(t) PROVE EveryTaskHasAChain'
    <3> SUFFICES ASSUME NEW e \in Entity
                 PROVE  Len(queue'[e]) <= Cardinality(Carriers(e)')
      BY DEF EveryTaskHasAChain, Carriers
    <3>1. Len(queue[e]) <= Cardinality(Carriers(e))
      BY DEF EveryTaskHasAChain, Carriers
    <3>2. CASE e = Owner[t]
      <4>1. Len(queue'[e]) = Len(queue[e]) + 1
        BY <2>0, <2>1, <3>2 DEF AddTask, TypeOK
      <4>2. t \notin Carriers(e)
        BY <2>1 DEF AddTask, Carriers, Alive, Panicked, Working
      <4>3. Carriers(e)' = Carriers(e) \cup {t}
        BY <2>1, <3>2 DEF AddTask, Carriers, Alive, Panicked, Working, TypeOK
      <4>4. Cardinality(Carriers(e) \cup {t}) = Cardinality(Carriers(e)) + 1
        BY <4>2, CarriersFinite, FS_AddElement
      <4> QED
        BY <2>0, <3>1, <4>1, <4>3, <4>4, CarriersFinite
    <3>3. CASE e # Owner[t]
      <4>1. queue'[e] = queue[e]
        BY <2>1, <3>3 DEF AddTask, TypeOK
      <4>2. Carriers(e)' = Carriers(e)
        BY <2>1, <3>3 DEF AddTask, Carriers, Alive, Panicked, Working, TypeOK
      <4> QED
        BY <3>1, <4>1, <4>2
    <3> QED
      BY <3>2, <3>3
  <2>2. ASSUME NEW c \in Task, GetTask(c) PROVE EveryTaskHasAChain'
    <3>1. CASE queue[Owner[c]] # << >>
      <4>1. \A d \in Task : stage'[d] \in Working \cup {"panicked"}
                            <=> stage[d] \in Working \cup {"panicked"}
        BY <2>2, <3>1 DEF GetTask, TypeOK, Working
      <4> QED
        BY <2>0, <2>2, <4>1, QuietStep DEF GetTask
    <3>2. CASE queue[Owner[c]] = << >>
      <4> SUFFICES ASSUME NEW e \in Entity
                   PROVE  Len(queue'[e]) <= Cardinality(Carriers(e)')
        BY DEF EveryTaskHasAChain, Carriers
      <4>1. CASE e = Owner[c]
        <5>1. Len(queue'[e]) = 0
          BY <2>2, <3>2, <4>1 DEF GetTask
        <5>2. Carriers(e)' \subseteq Task
          BY DEF Carriers, Alive, Panicked
        <5>3. Cardinality(Carriers(e)') \in Nat
          BY <5>2, FS_Subset, FS_CardinalityType, TaskAssumption
        <5> QED
          BY <5>1, <5>3
      <4>2. CASE e # Owner[c]
        <5>1. Carriers(e)' = Carriers(e)
          BY <2>2, <3>2, <4>2 DEF GetTask, Carriers, Alive, Panicked, Working, TypeOK
        <5>2. Len(queue[e]) <= Cardinality(Carriers(e))
          BY DEF EveryTaskHasAChain, Carriers
        <5> QED
          BY <2>2, <5>1, <5>2 DEF GetTask
      <4> QED
        BY <4>1, <4>2
    <3> QED
      BY <3>1, <3>2
  <2>3. ASSUME NEW c \in Task,
               SubmitTask(c) \/ SubmitFails(c) \/ OnReSubmitTask(c) \/ Process(c)
                 \/ ProcessPanics(c)
        PROVE  EveryTaskHasAChain'
    <3>1. queue' = queue
      BY <2>3 DEF SubmitTask, SubmitFails, OnReSubmitTask, Process, ProcessPanics
    <3>2. \A d \in Task : stage'[d] \in Working \cup {"panicked"}
                          <=> stage[d] \in Working \cup {"panicked"}
      BY <2>3 DEF SubmitTask, SubmitFails, OnReSubmitTask, Process, ProcessPanics,
                  TypeOK, Working
    <3> QED
      BY <2>0, <3>1, <3>2, QuietStep
  <2>4. ASSUME NEW c \in Task, PopTask(c) PROVE EveryTaskHasAChain'
    <3>1. \A e \in Entity : e # Owner[c] => queue'[e] = queue[e]
      BY <2>4 DEF PopTask, TypeOK
    <3>2. queue'[Owner[c]] = IF queue[Owner[c]] = << >> THEN queue[Owner[c]]
                                                       ELSE Tail(queue[Owner[c]])
      BY <2>4, TaskAssumption DEF PopTask, TypeOK
    <3>3. Owner[c] \in Entity
      BY TaskAssumption
    <3>4. Len(queue'[Owner[c]]) <= Len(queue[Owner[c]]) /\ Len(queue'[Owner[c]]) \in Nat
      BY <2>0, <3>2, <3>3
    <3>5. \A d \in Task : stage'[d] \in Working \cup {"panicked"}
                          <=> stage[d] \in Working \cup {"panicked"}
      BY <2>4 DEF PopTask, TypeOK, Working
    <3>6. \A e \in Entity : Len(queue'[e]) <= Len(queue[e]) /\ Len(queue'[e]) \in Nat
      BY <2>0, <3>1, <3>4
    <3> QED
      BY <3>5, <3>6, QuietStep
  <2>5. ASSUME queue' = queue, stage' = stage PROVE EveryTaskHasAChain'
    BY <2>0, <2>5, QuietStep
  <2>6. ASSUME NEW t \in Task, ResponseCommandTask(t) PROVE EveryTaskHasAChain'
    BY <2>5, <2>6 DEF ResponseCommandTask
  <2>7. CASE StopDrained \/ StopRelease \/ StopQuit \/ UNCHANGED vars
    BY <2>5, <2>7 DEF StopDrained, StopRelease, StopQuit, chains, vars
  <2> QED
    BY <2>1, <2>2, <2>3, <2>4, <2>6, <2>7 DEF Next, ChainStep
<1> QED
  BY <1>1, <1>2, TypeCorrect, PTL DEF Spec

(***************************************************************************)
(* The shutdown                                                            *)
(***************************************************************************)

\* The pool is closed before the second loop of stopServer, so what that loop
\* saw stays true.
ClosedInv ==
    /\ stop \in {"released", "stopped"} => pool = "closed"
    /\ QuietAfterStop

LEMMA RunningEmpty ==
    ASSUME TypeOK
    PROVE  Running = {} <=> /\ \A c \in Task : thread[c] = "pool" => stage[c] \notin Working
                            /\ \A t \in Task : finishing[t] = 0
<1>1. \A t \in Task : finishing[t] \in Nat
  BY DEF TypeOK
<1>2. ASSUME Running = {}, NEW c \in Task, thread[c] = "pool" PROVE stage[c] \notin Working
  <2>1. stage[c] \in Working => <<"chain", c>> \in Running
    BY <1>2, Zenon DEF Running
  <2> QED
    BY <1>2, <2>1
<1>3. ASSUME Running = {}, NEW t \in Task PROVE finishing[t] = 0
  <2>1. finishing[t] # 0 => 1 \in 1..finishing[t]
    BY <1>1
  <2>2. ASSUME 1 \in 1..finishing[t] PROVE <<"end", t, 1>> \in Running
    <3> DEFINE Ends(u) == {<<"end", u, i>> : i \in 1..finishing[u]}
    <3>1. <<"end", t, 1>> \in Ends(t)
      BY <2>2
    <3>2. <<"end", t, 1>> \in UNION {Ends(u) : u \in Task}
      BY <3>1, Zenon
    <3> QED
      BY <3>2, Zenon DEF Running
  <2> QED
    BY <1>3, <2>1, <2>2
<1>4. ASSUME \A c \in Task : thread[c] = "pool" => stage[c] \notin Working,
             \A t \in Task : finishing[t] = 0
      PROVE  Running = {}
  <2>1. \A t \in Task : 1..finishing[t] = {}
    BY <1>4
  <2>2. \A x \in Running : FALSE
    BY <1>4, <2>1, Zenon DEF Running
  <2> QED
    BY <2>2
<1> QED
  BY <1>2, <1>3, <1>4

\* Once stopServer has stopped the network nothing of the pool runs: no late
\* command, retry timer or answer starts a goroutine again.
THEOREM QuietWhenStopped == Spec => []QuietAfterStop
<1>1. Init => ClosedInv
  BY DEF Init, ClosedInv, QuietAfterStop
<1>2. TypeOK /\ TypeOK' /\ ClosedInv /\ [Next]_vars => ClosedInv'
  <2> SUFFICES ASSUME TypeOK, TypeOK', ClosedInv, [Next]_vars PROVE ClosedInv'
    OBVIOUS
  <2> DEFINE Idle == /\ \A c \in Task : thread[c] = "pool" => stage[c] \notin Working
                     /\ \A t \in Task : finishing[t] = 0
  <2>0. (Running = {} <=> Idle) /\ (Running = {} <=> Idle)'
    <3>1. Running = {} <=> Idle
      BY RunningEmpty
    <3>2. (Running = {} <=> Idle)'
      BY RunningEmpty, PTL
    <3> QED
      BY <3>1, <3>2
  <2>1. stop' \in {"released", "stopped"} => pool' = "closed"
    BY DEF ClosedInv, TypeOK, Next, ChainStep, AddTask, GetTask, SubmitTask, SubmitFails,
           OnReSubmitTask, Process, ProcessPanics, PopTask, ResponseCommandTask,
           StopDrained, StopRelease, StopQuit, vars
  <2>2. CASE StopQuit
    <3>1. UNCHANGED <<stage, thread, finishing>>
      BY <2>2 DEF StopQuit, chains
    <3>2. Running = {}
      BY <2>2 DEF StopQuit
    <3>3. Idle'
      BY <2>0, <3>1, <3>2
    <3> QED
      BY <2>0, <2>1, <3>3 DEF ClosedInv, QuietAfterStop
  <2>3. CASE ~StopQuit /\ stop' = "stopped"
    <3>1. stop = "stopped" /\ Idle /\ pool = "closed"
      BY <2>0, <2>3 DEF ClosedInv, QuietAfterStop, Next, ChainStep, AddTask, GetTask,
             SubmitTask, SubmitFails, OnReSubmitTask, Process, ProcessPanics, PopTask,
             ResponseCommandTask, StopDrained, StopRelease, vars
    <3>2. ASSUME NEW c \in Task, ChainStep(c) PROVE Idle'
      <4>1. thread[c] = "pool" => stage[c] \notin Working
        BY <3>1
      <4>2. thread[c] # "pool"
        BY <3>2, <4>1 DEF ChainStep, GetTask, SubmitTask, SubmitFails, OnReSubmitTask,
               Process, ProcessPanics, PopTask, Working
      <4>3. finishing' = finishing
        BY <3>1, <3>2, <4>2 DEF ChainStep, GetTask, SubmitTask, SubmitFails,
               OnReSubmitTask, Process, ProcessPanics, PopTask, LeaveFinish
      <4>4. \A d \in Task : thread'[d] = "pool" => thread[d] = "pool" /\ d # c
        BY <3>1, <3>2, <4>2 DEF ChainStep, GetTask, SubmitTask, SubmitFails,
               OnReSubmitTask, Process, ProcessPanics, PopTask, TypeOK
      <4>5. \A d \in Task : d # c => stage'[d] = stage[d]
        BY <3>2 DEF ChainStep, GetTask, SubmitTask, SubmitFails, OnReSubmitTask,
               Process, ProcessPanics, PopTask, TypeOK
      <4> QED
        BY <3>1, <4>3, <4>4, <4>5 DEF Working
    <3>3. ASSUME NEW t \in Task, ResponseCommandTask(t) PROVE Idle'
      BY <3>1, <3>3 DEF ResponseCommandTask
    <3>4. ASSUME NEW t \in Task, AddTask(t) PROVE Idle'
      BY <3>1, <3>4 DEF AddTask
    <3>5. ASSUME StopDrained \/ StopRelease \/ UNCHANGED vars PROVE Idle'
      BY <3>1, <3>5 DEF StopDrained, StopRelease, vars, chains
    <3>6. Idle'
      BY <2>3, <3>2, <3>3, <3>4, <3>5 DEF Next
    <3> QED
      BY <2>0, <2>1, <3>6 DEF ClosedInv, QuietAfterStop
  <2>4. CASE stop' # "stopped"
    BY <2>1, <2>4 DEF ClosedInv, QuietAfterStop
  <2> QED
    BY <2>2, <2>3, <2>4
<1>3. ClosedInv => QuietAfterStop
  BY DEF ClosedInv
<1> QED
  BY <1>1, <1>2, <1>3, TypeCorrect, PTL DEF Spec

(***************************************************************************)
(* The order of the commands                                               *)
(***************************************************************************)

\* A command is pushed once, by the AddTask call that starts its chain, so no
\* list holds it twice and nobody has met it before.
Met(t) == t = nil \/ stage[t] # "new"

OrderInv ==
    /\ \A e \in Entity : \A i \in 1..Len(queue[e]) : Met(queue[e][i])
    /\ \A e \in Entity : \A i, j \in 1..Len(queue[e]) : i # j => queue[e][i] # queue[e][j]
    /\ \A c \in Task : Met(doing[c]) /\ Met(got[c])
    /\ StartedFromFront

\* A step that changes no list and lets no chain look at another command keeps
\* the order.
LEMMA SameLists ==
    ASSUME TypeOK, OrderInv, queue' = queue,
           \A t \in Task : stage[t] # "new" => stage'[t] # "new",
           \A c \in Task : doing'[c] \in {doing[c], got[c], nil} /\ got'[c] \in {got[c], nil}
    PROVE  OrderInv'
<1>1. \A e \in Entity : \A i \in 1..Len(queue[e]) : queue[e][i] \in Task
  BY DEF TypeOK
<1>2. \A c \in Task : Owner[c] \in Entity
  BY TaskAssumption
<1>3. \A c \in Task : doing[c] \in Task \cup {nil} /\ got[c] \in Task \cup {nil}
  BY DEF TypeOK
<1>4. (\A e \in Entity : \A i \in 1..Len(queue[e]) : Met(queue[e][i]))'
  BY <1>1 DEF OrderInv, Met
<1>5. (\A c \in Task : Met(doing[c]) /\ Met(got[c]))'
  BY <1>3 DEF OrderInv, Met
<1>6. StartedFromFront'
  <2> SUFFICES ASSUME NEW c \in Task, NEW i \in 2..Len(queue[Owner[c]])
               PROVE  queue[Owner[c]][i] \notin {doing'[c], got'[c]}
    BY DEF StartedFromFront
  <2>1. queue[Owner[c]][i] \notin {doing[c], got[c]}
    BY DEF OrderInv, StartedFromFront
  <2>2. Len(queue[Owner[c]]) \in Nat
    BY <1>2 DEF TypeOK
  <2>3. queue[Owner[c]][i] # nil
    BY <1>1, <1>2, <2>2, TaskAssumption
  <2> QED
    BY <2>1, <2>3
<1> QED
  BY <1>4, <1>5, <1>6 DEF OrderInv

\* Commands start in the order of their arrival, for every interleaving of the
\* chains of an entity: the property StartedFromFront of the runs.
THEOREM OrderKept == Spec => []StartedFromFront
<1>1. Init => OrderInv
  BY TaskAssumption DEF Init, OrderInv, Met, StartedFromFront
<1>2. TypeOK /\ OrderInv /\ [Next]_vars => OrderInv'
  <2> SUFFICES ASSUME TypeOK, OrderInv, [Next]_vars PROVE OrderInv'
    OBVIOUS
  <2>0. /\ \A e \in Entity : queue[e] \in Seq(Task) /\ Len(queue[e]) \in Nat
        /\ \A e \in Entity : \A i \in 1..Len(queue[e]) : queue[e][i] \in Task
        /\ \A c \in Task : Owner[c] \in Entity
        /\ nil \notin Task
    BY TaskAssumption DEF TypeOK
  <2>1. ASSUME NEW t \in Task, AddTask(t) PROVE OrderInv'
    <3> DEFINE q == queue[Owner[t]]
    <3>1. /\ \A e \in Entity : e # Owner[t] => queue'[e] = queue[e]
          /\ queue'[Owner[t]] = Append(q, t)
          /\ doing' = doing /\ got' = got
          /\ stage[t] = "new"
          /\ \A d \in Task : stage'[d] # "new" <=> (stage[d] # "new" \/ d = t)
      BY <2>0, <2>1 DEF AddTask, TypeOK
    <3>2. /\ Len(Append(q, t)) = Len(q) + 1
          /\ \A i \in 1..Len(q) : Append(q, t)[i] = q[i]
          /\ Append(q, t)[Len(q) + 1] = t
      BY <2>0
    <3>3. \A i \in 1..Len(q) : q[i] # t
      BY <2>0, <3>1 DEF OrderInv, Met
    <3>4. \A c \in Task : doing[c] # t /\ got[c] # t
      BY <2>0, <3>1 DEF OrderInv, Met
    <3>5. \A e \in Entity : \A i \in 1..Len(queue'[e]) :
             \/ i \in 1..Len(queue[e]) /\ queue'[e][i] = queue[e][i]
             \/ e = Owner[t] /\ i = Len(queue[e]) + 1 /\ queue'[e][i] = t
      <4> SUFFICES ASSUME NEW e \in Entity, NEW i \in 1..Len(queue'[e])
                   PROVE  \/ i \in 1..Len(queue[e]) /\ queue'[e][i] = queue[e][i]
                          \/ e = Owner[t] /\ i = Len(queue[e]) + 1 /\ queue'[e][i] = t
        OBVIOUS
      <4>1. CASE e # Owner[t]
        BY <3>1, <4>1
      <4>2. CASE e = Owner[t]
        <5>1. queue'[e] = Append(q, t) /\ q = queue[e] /\ Len(q) \in Nat
          BY <2>0, <3>1, <4>2
        <5>2. i \in 1..Len(q) \/ i = Len(q) + 1
          <6> HIDE DEF q
          <6> QED
            BY <3>2, <5>1
        <5> QED
          BY <3>2, <4>2, <5>1, <5>2
      <4> QED
        BY <4>1, <4>2
    <3>6. \A u \in Task \cup {nil} : Met(u) => Met(u)'
      BY <3>1 DEF Met
    <3>7. Met(t)'
      BY <3>1 DEF Met
    <3>8. (\A e \in Entity : \A i \in 1..Len(queue[e]) : Met(queue[e][i]))'
      <4> SUFFICES ASSUME NEW e \in Entity, NEW i \in 1..Len(queue'[e])
                   PROVE  Met(queue[e][i])'
        OBVIOUS
      <4>1. CASE i \in 1..Len(queue[e]) /\ queue'[e][i] = queue[e][i]
        BY <2>0, <3>1, <4>1 DEF OrderInv, Met
      <4>2. CASE queue'[e][i] = t
        BY <3>7, <4>2 DEF Met
      <4> QED
        BY <3>5, <4>1, <4>2
    <3>9. (\A e \in Entity : \A i, j \in 1..Len(queue[e]) : i # j => queue[e][i] # queue[e][j])'
      <4> SUFFICES ASSUME NEW e \in Entity, NEW i \in 1..Len(queue'[e]),
                          NEW j \in 1..Len(queue'[e]), i # j
                   PROVE  queue'[e][i] # queue'[e][j]
        OBVIOUS
      <4>1. \A k, l \in 1..Len(queue[e]) : k # l => queue[e][k] # queue[e][l]
        BY DEF OrderInv
      <4> QED
        BY <3>3, <3>5, <4>1
    <3>10. (\A c \in Task : Met(doing[c]) /\ Met(got[c]))'
      BY <3>1 DEF OrderInv, Met, TypeOK
    <3>11. StartedFromFront'
      <4> SUFFICES ASSUME NEW c \in Task, NEW i \in 2..Len(queue'[Owner[c]])
                   PROVE  queue'[Owner[c]][i] \notin {doing[c], got[c]}
        BY <3>1 DEF StartedFromFront
      <4>1. i \in 1..Len(queue'[Owner[c]])
        OBVIOUS
      <4>2. CASE i \in 1..Len(queue[Owner[c]]) /\ queue'[Owner[c]][i] = queue[Owner[c]][i]
        BY <2>0, <4>2 DEF OrderInv, StartedFromFront
      <4>3. CASE queue'[Owner[c]][i] = t
        BY <3>4, <4>3
      <4> QED
        BY <2>0, <3>5, <4>1, <4>2, <4>3
    <3> QED
      BY <3>8, <3>9, <3>10, <3>11 DEF OrderInv
  <2>2. ASSUME NEW c \in Task, GetTask(c) PROVE OrderInv'
    <3> DEFINE q == queue[Owner[c]]
    <3>1. CASE q = << >>
      BY <2>2, <3>1, SameLists DEF GetTask, TypeOK
    <3>2. CASE q # << >>
      <4>1. /\ queue' = queue /\ doing' = doing
            /\ got' = [got EXCEPT ![c] = q[1]]
            /\ \A d \in Task : stage[d] # "new" <=> stage'[d] # "new"
        BY <2>2, <3>2 DEF GetTask, TypeOK
      <4>2. q[1] \in Task /\ Met(q[1]) /\ \A i \in 2..Len(q) : q[i] # q[1]
        <5>1. q \in Seq(Task) /\ q # << >>
          BY <2>0, <3>2
        <5>2. 1 \in 1..Len(q) /\ \A i \in 2..Len(q) : i \in 1..Len(q) /\ i # 1
          BY <5>1
        <5> QED
          BY <2>0, <5>2 DEF OrderInv
      <4>3. (\A e \in Entity : \A i \in 1..Len(queue[e]) : Met(queue[e][i]))'
        BY <2>0, <4>1 DEF OrderInv, Met
      <4>4. (\A d \in Task : Met(doing[d]) /\ Met(got[d]))'
        BY <4>1, <4>2 DEF OrderInv, Met, TypeOK
      <4>5. StartedFromFront'
        BY <4>1, <4>2 DEF OrderInv, StartedFromFront, TypeOK
      <4> QED
        BY <4>1, <4>3, <4>4, <4>5 DEF OrderInv
    <3> QED
      BY <3>1, <3>2
  <2>3. ASSUME NEW c \in Task,
               SubmitTask(c) \/ SubmitFails(c) \/ OnReSubmitTask(c) \/ Process(c)
                 \/ ProcessPanics(c)
        PROVE  OrderInv'
    <3>1. queue' = queue
      BY <2>3 DEF SubmitTask, SubmitFails, OnReSubmitTask, Process, ProcessPanics
    <3>2. \A d \in Task : stage[d] # "new" => stage'[d] # "new"
      BY <2>3 DEF SubmitTask, SubmitFails, OnReSubmitTask, Process, ProcessPanics, TypeOK
    <3>3. \A d \in Task : doing'[d] \in {doing[d], got[d], nil} /\ got'[d] \in {got[d], nil}
      BY <2>3 DEF SubmitTask, SubmitFails, OnReSubmitTask, Process, ProcessPanics, TypeOK
    <3> QED
      BY <3>1, <3>2, <3>3, SameLists
  <2>4. ASSUME NEW c \in Task, PopTask(c) PROVE OrderInv'
    <3> DEFINE q == queue[Owner[c]]
    <3>1. /\ \A e \in Entity : e # Owner[c] => queue'[e] = queue[e]
          /\ queue'[Owner[c]] = IF q = << >> THEN q ELSE Tail(q)
          /\ doing' = doing /\ got' = got
          /\ \A d \in Task : stage[d] # "new" <=> stage'[d] # "new"
      BY <2>0, <2>4 DEF PopTask, TypeOK
    <3>2. q # << >> => /\ Len(Tail(q)) = Len(q) - 1
                       /\ \A i \in 1..Len(Tail(q)) : Tail(q)[i] = q[i + 1]
      BY <2>0
    <3>3. \A e \in Entity : \E k \in 0..1 : \A i \in 1..Len(queue'[e]) :
             i + k \in 1..Len(queue[e]) /\ queue'[e][i] = queue[e][i + k]
      <4> SUFFICES ASSUME NEW e \in Entity
                   PROVE  \E k \in 0..1 : \A i \in 1..Len(queue'[e]) :
                             i + k \in 1..Len(queue[e]) /\ queue'[e][i] = queue[e][i + k]
        OBVIOUS
      <4>1. CASE e = Owner[c] /\ q # << >>
        <5>1. queue'[e] = Tail(q) /\ queue[e] = q /\ Len(q) \in Nat
          BY <2>0, <3>1, <4>1
        <5>2. \A i \in 1..Len(Tail(q)) : i + 1 \in 1..Len(q)
          BY <3>2, <4>1, <5>1
        <5>3. \A i \in 1..Len(queue'[e]) :
                 i + 1 \in 1..Len(queue[e]) /\ queue'[e][i] = queue[e][i + 1]
          BY <3>2, <4>1, <5>1, <5>2
        <5> QED
          BY <5>3
      <4>2. CASE e # Owner[c] \/ q = << >>
        <5>1. queue'[e] = queue[e]
          BY <3>1, <4>2
        <5>2. \A i \in 1..Len(queue[e]) : i + 0 = i
          BY <2>0
        <5>3. \A i \in 1..Len(queue'[e]) :
                 i + 0 \in 1..Len(queue[e]) /\ queue'[e][i] = queue[e][i + 0]
          BY <5>1, <5>2
        <5> QED
          BY <5>3
      <4> QED
        BY <4>1, <4>2
    <3>4. (\A e \in Entity : \A i \in 1..Len(queue[e]) : Met(queue[e][i]))'
      <4> SUFFICES ASSUME NEW e \in Entity, NEW i \in 1..Len(queue'[e])
                   PROVE  Met(queue[e][i])'
        OBVIOUS
      <4>1. PICK k \in 0..1 : i + k \in 1..Len(queue[e]) /\ queue'[e][i] = queue[e][i + k]
        BY <3>3
      <4> QED
        BY <2>0, <3>1, <4>1 DEF OrderInv, Met
    <3>5. (\A e \in Entity : \A i, j \in 1..Len(queue[e]) : i # j => queue[e][i] # queue[e][j])'
      <4> SUFFICES ASSUME NEW e \in Entity, NEW i \in 1..Len(queue'[e]),
                          NEW j \in 1..Len(queue'[e]), i # j
                   PROVE  queue'[e][i] # queue'[e][j]
        OBVIOUS
      <4>1. PICK k \in 0..1 : \A m \in 1..Len(queue'[e]) :
               m + k \in 1..Len(queue[e]) /\ queue'[e][m] = queue[e][m + k]
        BY <3>3
      <4>2. i + k # j + k
        OBVIOUS
      <4> QED
        BY <4>1, <4>2 DEF OrderInv
    <3>6. (\A d \in Task : Met(doing[d]) /\ Met(got[d]))'
      BY <3>1 DEF OrderInv, Met, TypeOK
    <3>7. StartedFromFront'
      <4> SUFFICES ASSUME NEW d \in Task, NEW i \in 2..Len(queue'[Owner[d]])
                   PROVE  queue'[Owner[d]][i] \notin {doing[d], got[d]}
        BY <3>1 DEF StartedFromFront
      <4>1. i \in 1..Len(queue'[Owner[d]])
        OBVIOUS
      <4>2. PICK k \in 0..1 : /\ i + k \in 1..Len(queue[Owner[d]])
                              /\ queue'[Owner[d]][i] = queue[Owner[d]][i + k]
        BY <2>0, <3>3, <4>1
      <4>3. i + k \in 2..Len(queue[Owner[d]])
        BY <2>0, <4>2
      <4> QED
        BY <4>2, <4>3 DEF OrderInv, StartedFromFront
    <3> QED
      BY <3>4, <3>5, <3>6, <3>7 DEF OrderInv
  <2>5. ASSUME NEW t \in Task, ResponseCommandTask(t) PROVE OrderInv'
    BY <2>5, SameLists DEF ResponseCommandTask
  <2>6. CASE StopDrained \/ StopRelease \/ StopQuit \/ UNCHANGED vars
    BY <2>6, SameLists DEF StopDrained, StopRelease, StopQuit, chains, vars
  <2> QED
    BY <2>1, <2>2, <2>3, <2>4, <2>5, <2>6 DEF Next, ChainStep
<1>3. OrderInv => StartedFromFront
  BY DEF OrderInv
<1> QED
  BY <1>1, <1>2, <1>3, TypeCorrect, PTL DEF Spec

(***************************************************************************)
(* Serial use                                                              *)
(***************************************************************************)

\* A chain works on commands of its own entity.
OwnInv ==
    /\ \A e \in Entity : \A i \in 1..Len(queue[e]) : Owner[queue[e][i]] = e
    /\ \A c \in Task : /\ doing[c] # nil => Owner[doing[c]] = Owner[c]
                       /\ got[c] # nil => Owner[got[c]] = Owner[c]

\* nothing has been done for the command
Untouched(t) == runs[t] = 0 /\ answered[t] = 0 /\ finishing[t] = 0

\* the front of a list is a command that panics: nothing ever leaves this list
Blocked(q) == q # << >> /\ Head(q) \in Poison

Only(q, t) == Len(q) = 1 /\ Head(q) = t

\* the chain of the command has not executed anything
Waiting(t) == Untouched(t) /\ (Blocked(queue[Owner[t]]) \/ Only(queue[Owner[t]], t))

\* the chain has executed its own command and not answered it
Executed(t) ==
    /\ runs[t] = 1 /\ answered[t] = 0 /\ finishing[t] = 0
    /\ doing[t] = t /\ thread[t] = "pool" /\ t \notin Poison

\* Where a command and its chain are, in serial use.
Exact(t) ==
    /\ stage[t] = "new" => Untouched(t) /\ thread[t] # "pool"
    /\ stage[t] = "get" /\ thread[t] # "pool" => Waiting(t)
    /\ stage[t] = "retry" => Waiting(t) /\ thread[t] # "pool"
    /\ stage[t] = "submit" =>
          Waiting(t) /\ thread[t] # "pool" /\ got[t] = Head(queue[Owner[t]])
    /\ stage[t] = "run" =>
          Waiting(t) /\ thread[t] = "pool" /\ doing[t] = Head(queue[Owner[t]])
    /\ stage[t] = "pop" => Executed(t) /\ Only(queue[Owner[t]], t)
    /\ stage[t] = "get" /\ thread[t] = "pool" => Executed(t) /\ queue[Owner[t]] = << >>
    /\ stage[t] = "panicked" => Untouched(t) /\ Blocked(queue[Owner[t]])
    /\ stage[t] = "end" => runs[t] = 1 /\ answered[t] + finishing[t] = 1 /\ t \notin Poison

\* An entity that is used serially has one chain at a time, and a list that is
\* empty, blocked, or holds the command of that chain.
Serial(e) ==
    /\ \A c, d \in Task : (Owner[c] = e /\ Owner[d] = e /\ stage[c] \in Working
                             /\ stage[d] \in Working) => c = d
    /\ \A t \in Task : Owner[t] = e => Exact(t)
    /\ queue[e] # << >> => \/ Head(queue[e]) \in Poison
                           \/ \E c \in Task : Owner[c] = e /\ stage[c] \in Working

SerialInv == OwnInv /\ \A e \in Entity : ~overlapped[e] => Serial(e)

Same(d) ==
    /\ stage'[d] = stage[d] /\ thread'[d] = thread[d] /\ doing'[d] = doing[d]
    /\ got'[d] = got[d] /\ runs'[d] = runs[d] /\ answered'[d] = answered[d]
    /\ finishing'[d] = finishing[d]

\* Steps for other entities change nothing here.
LEMMA OtherEntity ==
    ASSUME NEW e \in Entity, Serial(e), queue'[e] = queue[e],
           \A d \in Task : Owner[d] = e => Same(d)
    PROVE  Serial(e)'
<1>1. \A d \in Task : Owner[d] = e => Exact(d)'
  BY DEF Serial, Same, Exact, Waiting, Executed, Untouched, Blocked, Only
<1> QED
  BY <1>1 DEF Serial, Same

\* The chain c of e makes a step that neither adds nor ends anything: it is enough
\* to look at c.
LEMMA OwnChain ==
    ASSUME NEW e \in Entity, NEW c \in Task, Owner[c] = e, Serial(e), stage[c] \in Working,
           queue'[e] = queue[e],
           \A d \in Task : Owner[d] = e /\ d # c => Same(d),
           Exact(c)',
           \/ stage'[c] \in Working
           \/ queue[e] # << >> => Head(queue[e]) \in Poison
    PROVE  Serial(e)'
<1>1. \A d \in Task : Owner[d] = e => Exact(d)'
  BY DEF Serial, Same, Exact, Waiting, Executed, Untouched, Blocked, Only
<1>2. \A d \in Task : (Owner[d] = e /\ stage'[d] \in Working) => d = c
  BY DEF Serial, Same
<1>3. queue'[e] # << >> => \/ Head(queue'[e]) \in Poison
                           \/ \E d \in Task : Owner[d] = e /\ stage'[d] \in Working
  OBVIOUS
<1> QED
  BY <1>1, <1>2, <1>3 DEF Serial

LEMMA OwnStep ==
    ASSUME TypeOK, OwnInv, [Next]_vars
    PROVE  OwnInv'
<1>0. /\ \A e \in Entity : queue[e] \in Seq(Task) /\ Len(queue[e]) \in Nat
      /\ \A e \in Entity : \A i \in 1..Len(queue[e]) : queue[e][i] \in Task
      /\ \A c \in Task : Owner[c] \in Entity
      /\ nil \notin Task
  BY TaskAssumption DEF TypeOK
<1>1. ASSUME NEW t \in Task, AddTask(t) PROVE OwnInv'
  <2> DEFINE q == queue[Owner[t]]
  <2>1. /\ \A e \in Entity : e # Owner[t] => queue'[e] = queue[e]
        /\ queue'[Owner[t]] = Append(q, t) /\ doing' = doing /\ got' = got
    BY <1>0, <1>1 DEF AddTask, TypeOK
  <2>2. /\ Len(Append(q, t)) = Len(q) + 1 /\ Len(q) \in Nat
        /\ \A i \in 1..Len(q) : Append(q, t)[i] = q[i]
        /\ Append(q, t)[Len(q) + 1] = t
    BY <1>0
  <2>3. \A i \in 1..Len(queue'[Owner[t]]) : Owner[queue'[Owner[t]][i]] = Owner[t]
    <3> SUFFICES ASSUME NEW i \in 1..Len(Append(q, t)) PROVE Owner[Append(q, t)[i]] = Owner[t]
      BY <2>1
    <3>1. CASE i \in 1..Len(q)
      BY <1>0, <2>2, <3>1 DEF OwnInv
    <3>2. CASE i = Len(q) + 1
      BY <2>2, <3>2
    <3> QED
      BY <2>2, <3>1, <3>2
  <2> QED
    BY <2>1, <2>3 DEF OwnInv
<1>2. ASSUME NEW c \in Task, GetTask(c) PROVE OwnInv'
  <2> DEFINE q == queue[Owner[c]]
  <2>1. /\ queue' = queue
        /\ \/ got' = got
           \/ q # << >> /\ got' = [got EXCEPT ![c] = Head(q)]
        /\ doing' = doing \/ doing' = [doing EXCEPT ![c] = nil]
    BY <1>2 DEF GetTask
  <2>2. q # << >> => Owner[Head(q)] = Owner[c]
    BY <1>0 DEF OwnInv
  <2> HIDE DEF q
  <2> QED
    BY <2>1, <2>2 DEF OwnInv, TypeOK
<1>3. ASSUME NEW c \in Task,
             SubmitTask(c) \/ SubmitFails(c) \/ OnReSubmitTask(c) \/ Process(c) \/ ProcessPanics(c)
      PROVE  OwnInv'
  <2>1. queue' = queue
    BY <1>3 DEF SubmitTask, SubmitFails, OnReSubmitTask, Process, ProcessPanics
  <2>2. \A d \in Task : doing'[d] \in {doing[d], got[d], nil} /\ got'[d] \in {got[d], nil}
    BY <1>3 DEF SubmitTask, SubmitFails, OnReSubmitTask, Process, ProcessPanics, TypeOK
  <2> QED
    BY <2>1, <2>2 DEF OwnInv
<1>4. ASSUME NEW c \in Task, PopTask(c) PROVE OwnInv'
  <2> DEFINE q == queue[Owner[c]]
  <2>1. /\ \A e \in Entity : e # Owner[c] => queue'[e] = queue[e]
        /\ queue'[Owner[c]] = IF q = << >> THEN q ELSE Tail(q)
        /\ doing' = doing /\ got' = got
    BY <1>0, <1>4 DEF PopTask, TypeOK
  <2>2. q # << >> => \A i \in 1..Len(Tail(q)) : i + 1 \in 1..Len(q) /\ Tail(q)[i] = q[i + 1]
    BY <1>0
  <2>3. \A i \in 1..Len(queue'[Owner[c]]) : Owner[queue'[Owner[c]][i]] = Owner[c]
    BY <1>0, <2>1, <2>2 DEF OwnInv
  <2> QED
    BY <2>1, <2>3 DEF OwnInv
<1>5. CASE (\E t \in Task : ResponseCommandTask(t)) \/ StopDrained \/ StopRelease \/ StopQuit
             \/ UNCHANGED vars
  BY <1>5 DEF OwnInv, ResponseCommandTask, StopDrained, StopRelease, StopQuit, chains, vars
<1> QED
  BY <1>1, <1>2, <1>3, <1>4, <1>5 DEF Next, ChainStep

LEMMA SerialStep ==
    ASSUME TypeOK, TypeOK', SerialInv, [Next]_vars
    PROVE  \A e \in Entity : ~overlapped'[e] => Serial(e)'
<1> SUFFICES ASSUME NEW e \in Entity, ~overlapped'[e] PROVE Serial(e)'
  OBVIOUS
<1>0. /\ queue[e] \in Seq(Task)
      /\ \A c \in Task : Owner[c] \in Entity
      /\ nil \notin Task
      /\ overlapped \in [Entity -> BOOLEAN]
      /\ \A c \in Task : runs[c] \in Nat /\ answered[c] \in Nat /\ finishing[c] \in Nat
  BY TaskAssumption DEF TypeOK
<1>a. \A c \in Task : (doing[c] # nil => Owner[doing[c]] = Owner[c])
  BY DEF SerialInv, OwnInv
\* a pool goroutine of another entity counts for its own entity only
<1>b. ASSUME NEW c \in Task, LeaveFinish(c), NEW d \in Task, Owner[d] # Owner[c]
      PROVE  finishing'[d] = finishing[d]
  <2>1. d # doing[c]
    BY <1>0, <1>a, <1>b
  <2> QED
    BY <1>b, <2>1 DEF LeaveFinish, TypeOK
<1>1. ASSUME NEW t \in Task, AddTask(t) PROVE Serial(e)'
  <2>1. CASE Owner[t] # e
    <3>1. queue'[e] = queue[e] /\ ~overlapped[e] /\ \A d \in Task : Owner[d] = e => Same(d)
      BY <1>0, <1>1, <2>1 DEF AddTask, Same, TypeOK
    <3> QED
      BY <3>1, OtherEntity DEF SerialInv
  <2>2. CASE Owner[t] = e
    <3>1. ~overlapped[e] /\ Alive(e) = {}
      BY <1>0, <1>1, <2>2 DEF AddTask
    <3>2. Serial(e)
      BY <3>1 DEF SerialInv
    <3>3. \A d \in Task : Owner[d] = e => stage[d] \notin Working
      BY <3>1 DEF Alive
    <3>4. /\ queue'[e] = Append(queue[e], t) /\ stage'[t] = "get" /\ stage[t] = "new"
          /\ thread' = thread /\ runs' = runs /\ answered' = answered /\ finishing' = finishing
          /\ \A d \in Task : Owner[d] = e /\ d # t => Same(d)
      BY <1>1, <2>2 DEF AddTask, Same, TypeOK
    <3>5. queue[e] = << >> \/ Blocked(queue[e])
      BY <3>2, <3>3 DEF Serial, Blocked
    <3>6. /\ Blocked(queue[e]) => Blocked(queue'[e])
          /\ queue[e] = << >> => Only(queue'[e], t)
          /\ queue'[e] # << >>
      BY <1>0, <3>4 DEF Blocked, Only
    <3>7. Exact(t)'
      BY <2>2, <3>2, <3>4, <3>5, <3>6 DEF Serial, Exact, Waiting, Untouched
    <3>8. ASSUME NEW d \in Task, Owner[d] = e, d # t PROVE Exact(d)'
      <4>1. Exact(d) /\ Same(d) /\ stage[d] \notin Working
        BY <3>2, <3>3, <3>4, <3>8 DEF Serial
      <4> QED
        BY <3>6, <3>8, <4>1 DEF Exact, Same, Untouched, Working
    <3>9. \A d \in Task : Owner[d] = e /\ stage'[d] \in Working => d = t
      BY <3>3, <3>4 DEF Same
    <3> QED
      BY <2>2, <3>4, <3>7, <3>8, <3>9 DEF Serial, Working
  <2> QED
    BY <2>1, <2>2
\* the steps of a chain
<1>2. ASSUME NEW c \in Task, ChainStep(c), Owner[c] # e PROVE Serial(e)'
  <2>1. overlapped' = overlapped /\ answered' = answered
    BY <1>2 DEF ChainStep, GetTask, SubmitTask, SubmitFails, OnReSubmitTask, Process, ProcessPanics,
                PopTask, history
  <2>2. queue'[e] = queue[e]
    BY <1>2 DEF ChainStep, GetTask, SubmitTask, SubmitFails, OnReSubmitTask, Process, ProcessPanics,
                PopTask, TypeOK
  <2>3. LeaveFinish(c) \/ finishing' = finishing
    BY <1>2 DEF ChainStep, GetTask, SubmitTask, SubmitFails, OnReSubmitTask, Process, ProcessPanics,
                PopTask
  <2>4. \A d \in Task : d # c => /\ stage'[d] = stage[d] /\ thread'[d] = thread[d]
                                 /\ doing'[d] = doing[d] /\ got'[d] = got[d]
    <3>1. CASE GetTask(c)
      BY <3>1 DEF GetTask, TypeOK
    <3>2. CASE SubmitTask(c) \/ SubmitFails(c)
      BY <3>2 DEF SubmitTask, SubmitFails, TypeOK
    <3>3. CASE OnReSubmitTask(c) \/ Process(c) \/ ProcessPanics(c) \/ PopTask(c)
      BY <3>3 DEF OnReSubmitTask, Process, ProcessPanics, PopTask, TypeOK
    <3> QED
      BY <1>2, <3>1, <3>2, <3>3 DEF ChainStep
  <2>5. runs' = runs \/ runs' = [runs EXCEPT ![doing[c]] = @ + 1]
    BY <1>2 DEF ChainStep, GetTask, SubmitTask, SubmitFails, OnReSubmitTask, Process, ProcessPanics,
                PopTask, history
  <2>6. ASSUME NEW d \in Task, Owner[d] = e PROVE Same(d)
    <3>1. finishing'[d] = finishing[d]
      BY <1>2, <1>b, <2>3, <2>6
    <3>2. d # doing[c] /\ d # c
      BY <1>0, <1>2, <1>a, <2>6
    <3>3. runs'[d] = runs[d]
      BY <2>5, <3>2 DEF TypeOK
    <3> QED
      BY <2>1, <2>4, <3>1, <3>2, <3>3 DEF Same
  <2> QED
    BY <2>1, <2>2, <2>6, OtherEntity DEF SerialInv
<1>3. ASSUME NEW c \in Task, ChainStep(c), Owner[c] = e PROVE Serial(e)'
  <2>0. overlapped' = overlapped /\ answered' = answered
    BY <1>3 DEF ChainStep, GetTask, SubmitTask, SubmitFails, OnReSubmitTask, Process, ProcessPanics,
                PopTask, history
  <2>1. Serial(e) /\ Exact(c)
    BY <1>3, <2>0 DEF SerialInv, Serial
  <2>2. ASSUME GetTask(c) PROVE Serial(e)'
    <3>1. CASE queue[e] = << >>
      <4>1. thread[c] = "pool" /\ Executed(c)
        BY <1>3, <2>1, <2>2, <3>1 DEF GetTask, Exact, Waiting, Blocked, Only
      <4>2. /\ finishing' = [finishing EXCEPT ![c] = @ + 1]
            /\ stage'[c] = "end" /\ queue' = queue /\ runs' = runs
        BY <1>3, <2>2, <3>1, <4>1 DEF GetTask, LeaveFinish, Executed, TypeOK
      <4>3. \A d \in Task : d # c => Same(d)
        BY <1>3, <2>0, <2>2, <3>1, <4>2 DEF GetTask, Same, TypeOK
      <4>4. finishing'[c] = 1
        BY <4>1, <4>2 DEF Executed, TypeOK
      <4>5. Exact(c)'
        BY <2>0, <4>1, <4>2, <4>4 DEF Exact, Executed
      <4> QED
        BY <1>3, <2>1, <2>2, <3>1, <4>2, <4>3, <4>5, OwnChain DEF GetTask, Working
    <3>2. CASE queue[e] # << >>
      <4>1. /\ stage'[c] = "submit" /\ got'[c] = Head(queue[e]) /\ queue' = queue
            /\ thread' = thread /\ runs' = runs /\ finishing' = finishing
            /\ \A d \in Task : d # c => Same(d)
        BY <1>3, <2>0, <2>2, <3>2 DEF GetTask, Same, TypeOK
      <4>2. thread[c] # "pool" /\ Waiting(c)
        BY <1>3, <2>1, <2>2, <3>2 DEF GetTask, Exact
      <4>3. Exact(c)'
        BY <1>3, <2>0, <4>1, <4>2 DEF Exact, Waiting, Untouched
      <4> QED
        BY <1>3, <2>1, <2>2, <4>1, <4>3, OwnChain DEF GetTask, Working
    <3> QED
      BY <3>1, <3>2
  <2>3. ASSUME SubmitTask(c) PROVE Serial(e)'
    <3>1. thread[c] # "pool" /\ Waiting(c) /\ got[c] = Head(queue[e])
      BY <1>3, <2>1, <2>3 DEF SubmitTask, Exact
    <3>2. /\ stage'[c] = "run" /\ doing'[c] = Head(queue[e]) /\ queue' = queue /\ thread'[c] = "pool"
          /\ runs' = runs /\ finishing' = finishing
          /\ \A d \in Task : d # c => Same(d)
      BY <1>3, <2>0, <2>3, <3>1 DEF SubmitTask, LeaveFinish, Same, TypeOK
    <3>3. Exact(c)'
      BY <1>3, <2>0, <3>1, <3>2 DEF Exact, Waiting, Untouched
    <3> QED
      BY <1>3, <2>1, <2>3, <3>2, <3>3, OwnChain DEF SubmitTask, Working
  <2>4. ASSUME SubmitFails(c) PROVE Serial(e)'
    <3>1. thread[c] # "pool" /\ Waiting(c)
      BY <1>3, <2>1, <2>4 DEF SubmitFails, Exact
    <3>2. /\ stage'[c] = "retry" /\ queue' = queue /\ thread'[c] = "ticker"
          /\ runs' = runs /\ finishing' = finishing
          /\ \A d \in Task : d # c => Same(d)
      BY <1>3, <2>0, <2>4, <3>1 DEF SubmitFails, LeaveFinish, Same, TypeOK
    <3>3. Exact(c)'
      BY <1>3, <2>0, <3>1, <3>2 DEF Exact, Waiting, Untouched
    <3> QED
      BY <1>3, <2>1, <2>4, <3>2, <3>3, OwnChain DEF SubmitFails, Working
  <2>5. ASSUME OnReSubmitTask(c) PROVE Serial(e)'
    <3>1. thread[c] # "pool" /\ Waiting(c)
      BY <1>3, <2>1, <2>5 DEF OnReSubmitTask, Exact
    <3>2. /\ stage'[c] = "get" /\ queue' = queue /\ thread' = thread
          /\ runs' = runs /\ finishing' = finishing
          /\ \A d \in Task : d # c => Same(d)
      BY <1>3, <2>0, <2>5, <3>1 DEF OnReSubmitTask, history, Same, TypeOK
    <3>3. Exact(c)'
      BY <1>3, <2>0, <3>1, <3>2 DEF Exact, Waiting, Untouched
    <3> QED
      BY <1>3, <2>1, <2>5, <3>2, <3>3, OwnChain DEF OnReSubmitTask, Working
  <2>6. ASSUME Process(c) PROVE Serial(e)'
    <3>1. thread[c] = "pool" /\ Waiting(c) /\ doing[c] = Head(queue[e]) /\ doing[c] \notin Poison
      BY <1>3, <2>1, <2>6 DEF Process, Exact
    <3>2. Only(queue[e], c) /\ doing[c] = c
      BY <1>3, <3>1 DEF Waiting, Blocked, Only
    <3>3. /\ stage'[c] = "pop" /\ queue' = queue /\ thread' = thread /\ doing' = doing
          /\ runs'[c] = runs[c] + 1 /\ finishing' = finishing
          /\ \A d \in Task : d # c => Same(d)
      BY <1>3, <2>0, <2>6, <3>2 DEF Process, Same, TypeOK
    <3>4. Exact(c)'
      BY <1>3, <2>0, <3>1, <3>2, <3>3 DEF Exact, Waiting, Untouched, Executed
    <3> QED
      BY <1>3, <2>1, <2>6, <3>3, <3>4, OwnChain DEF Process, Working
  <2>7. ASSUME ProcessPanics(c) PROVE Serial(e)'
    <3>1. Waiting(c) /\ doing[c] = Head(queue[e]) /\ doing[c] \in Poison
      BY <1>3, <2>1, <2>7 DEF ProcessPanics, Exact
    <3>2. Blocked(queue[e])
      BY <1>0, <1>3, <3>1 DEF Waiting, Only, Blocked
    <3>3. /\ stage'[c] = "panicked" /\ queue' = queue /\ runs' = runs /\ finishing' = finishing
          /\ \A d \in Task : d # c => Same(d)
      BY <1>3, <2>0, <2>7 DEF ProcessPanics, history, Same, TypeOK
    <3>4. Exact(c)'
      BY <1>3, <2>0, <3>1, <3>2, <3>3 DEF Exact, Waiting, Untouched
    <3> QED
      BY <1>3, <2>1, <2>7, <3>2, <3>3, <3>4, OwnChain DEF ProcessPanics, Working, Blocked
  <2>8. ASSUME PopTask(c) PROVE Serial(e)'
    <3>1. Executed(c) /\ Only(queue[e], c)
      BY <1>3, <2>1, <2>8 DEF PopTask, Exact
    <3>2. queue'[e] = << >>
      <4>1. queue[e] # << >> /\ Len(queue[e]) = 1
        BY <1>0, <3>1 DEF Only
      <4>2. queue'[e] = Tail(queue[e])
        BY <1>3, <2>8, <4>1 DEF PopTask, TypeOK
      <4>3. Tail(queue[e]) \in Seq(Task) /\ Len(Tail(queue[e])) = 0
        BY <1>0, <4>1
      <4>4. \A s \in Seq(Task) : Len(s) = 0 => s = << >>
        OBVIOUS
      <4> QED
        BY <4>2, <4>3, <4>4, Zenon
    <3>3. /\ stage'[c] = "get" /\ thread' = thread /\ doing' = doing /\ runs' = runs
          /\ finishing' = finishing /\ \A d \in Task : d # c => Same(d)
      BY <1>3, <2>0, <2>8 DEF PopTask, history, Same, TypeOK
    <3>4. Exact(c)'
      BY <1>3, <2>0, <3>1, <3>2, <3>3 DEF Exact, Executed
    <3>5. ASSUME NEW d \in Task, Owner[d] = e, d # c PROVE Exact(d)' /\ stage'[d] \notin Working
      <4>1. Exact(d) /\ Same(d) /\ stage[d] \notin Working
        BY <1>3, <2>1, <2>8, <3>3, <3>5 DEF Serial, PopTask, Working
      <4>2. stage[d] # "panicked"
        BY <3>1, <3>5, <4>1 DEF Exact, Executed, Only, Blocked
      <4> QED
        BY <4>1, <4>2 DEF Exact, Same, Untouched, Working
    <3> QED
      BY <1>3, <3>2, <3>3, <3>4, <3>5 DEF Serial
  <2> QED
    BY <1>3, <2>2, <2>3, <2>4, <2>5, <2>6, <2>7, <2>8 DEF ChainStep
<1>4. ASSUME NEW t \in Task, ResponseCommandTask(t) PROVE Serial(e)'
  <2>1. /\ queue' = queue /\ stage' = stage /\ thread' = thread /\ doing' = doing /\ got' = got
        /\ runs' = runs /\ overlapped' = overlapped /\ finishing[t] > 0
        /\ finishing'[t] = finishing[t] - 1 /\ answered'[t] = answered[t] + 1
        /\ \A d \in Task : d # t => Same(d)
    BY <1>4 DEF ResponseCommandTask, Same, TypeOK
  <2>2. Serial(e)
    BY <2>1 DEF SerialInv
  <2>3. CASE Owner[t] # e
    BY <2>1, <2>2, <2>3, OtherEntity
  <2>4. CASE Owner[t] = e
    <3>1. Exact(t)
      BY <2>2, <2>4 DEF Serial
    <3>2. stage[t] = "end"
      BY <1>0, <2>1, <3>1 DEF Exact, Waiting, Untouched, Executed, TypeOK, Working
    <3>3. Exact(t)'
      BY <1>0, <2>1, <3>1, <3>2 DEF Exact
    <3>4. \A d \in Task : Owner[d] = e /\ d # t => Exact(d)'
      BY <2>1, <2>2 DEF Serial, Same, Exact, Waiting, Executed, Untouched, Blocked, Only
    <3> QED
      BY <2>1, <2>2, <3>3, <3>4 DEF Serial
  <2> QED
    BY <2>3, <2>4
<1>5. CASE StopDrained \/ StopRelease \/ StopQuit \/ UNCHANGED vars
  <2>1. overlapped' = overlapped /\ queue' = queue /\ \A d \in Task : Same(d)
    BY <1>5 DEF StopDrained, StopRelease, StopQuit, chains, history, vars, Same
  <2> QED
    BY <2>1, OtherEntity DEF SerialInv
<1> QED
  BY <1>1, <1>2, <1>3, <1>4, <1>5 DEF Next

\* Used one command at a time, the queue executes and answers every command exactly
\* once: the property SerialUseIsExact of the runs.
THEOREM SerialUse == Spec => []SerialUseIsExact
<1>1. Init => SerialInv
  BY TaskAssumption
  DEF Init, SerialInv, OwnInv, Serial, Exact, Untouched, Working
<1>2. TypeOK /\ TypeOK' /\ SerialInv /\ [Next]_vars => SerialInv'
  BY OwnStep, SerialStep DEF SerialInv
<1>3. TypeOK /\ SerialInv => SerialUseIsExact
  <2> SUFFICES ASSUME TypeOK, SerialInv, NEW t \in Task, ~overlapped[Owner[t]]
               PROVE  /\ runs[t] <= 1 /\ answered[t] + finishing[t] <= runs[t]
                      /\ stage[t] = "end" => answered[t] + finishing[t] = 1 /\ t \notin Poison
    BY DEF SerialUseIsExact
  <2>1. Exact(t)
    BY TaskAssumption DEF SerialInv, Serial
  <2> QED
    BY <2>1 DEF Exact, Waiting, Untouched, Executed, TypeOK, Working
<1> QED
  BY <1>1, <1>2, <1>3, TypeCorrect, PTL DEF Spec
=============================================================================
