---------------------------- MODULE BufferedTasks ----------------------------
(***************************************************************************)
(* The command queues of the dbmanager process (buffered_tasks.go, task.go,*)
(* task_pool.go, signal.go): one list of tasks per entity behind a mutex,  *)
(* a goroutine pool that executes the task at the front, and the shutdown  *)
(* of the process.                                                         *)
(*                                                                         *)
(* Every AddTask call starts a chain of work: look at the front, submit it *)
(* to the pool, execute it, pop the front, look at the new front, ...  A   *)
(* chain is named after the task whose AddTask call started it; it ends    *)
(* when it finds the list empty.  The mutex protects the single list       *)
(* operations only, so the chains of one entity interleave between them.   *)
(***************************************************************************)
EXTENDS Integers, Sequences, FiniteSets

CONSTANTS
    Entity,      \* entities (id 0 stands for all the raw commands)
    Task,        \* the DB commands that arrive, one AddTask call each
    Owner,       \* the entity a command is for
    Poison,      \* commands whose Process panics (a database that is not configured)
    PoolSize,    \* capacity of the goroutine pool
    nil

ASSUME TaskAssumption ==
    /\ IsFiniteSet(Task)
    /\ nil \notin Task
    /\ Owner \in [Task -> Entity]
    /\ Poison \subseteq Task

ASSUME PoolAssumption == PoolSize \in Nat \ {0}

VARIABLES
    queue,       \* entityTasksMap: the list of every entity
    stage,       \* where the chain of a task is
    thread,      \* the goroutine that executes the chain
    doing,       \* the task the chain's pool goroutine has executed or executes
    got,         \* the task GetTask has returned to the chain
    finishing,   \* pool goroutines that have left FinishProcessTask, by task
    pool,        \* "open" or "closed"
    stop,        \* progress of stopServer
    runs,        \* history: how often a command was executed
    answered,    \* history: how often a command was answered
    overlapped   \* history: an entity got a command while a chain of it was alive

chains == <<stage, thread, doing, got>>
history == <<runs, answered, overlapped>>
vars == <<queue, stage, thread, doing, got, finishing, pool, stop, runs, answered, overlapped>>

Working == {"get", "submit", "run", "pop", "retry"}

\* chains of entity e that will look at its list again
Alive(e) == {c \in Task : Owner[c] = e /\ stage[c] \in Working}

\* the event loop and the ticker are single goroutines
Free(g) == \A c \in Task : thread[c] = g => stage[c] \notin {"get", "submit"}

\* pool goroutines that have not returned: executing, in FinishProcessTask or answering
Running ==
    {<<"chain", c>> : c \in {x \in Task : thread[x] = "pool" /\ stage[x] \in Working}}
    \cup UNION {{<<"end", t, i>> : i \in 1..finishing[t]} : t \in Task}

Init ==
    /\ queue = [e \in Entity |-> << >>]
    /\ stage = [c \in Task |-> "new"]
    /\ thread = [c \in Task |-> "loop"]
    /\ doing = [c \in Task |-> nil]
    /\ got = [c \in Task |-> nil]
    /\ finishing = [t \in Task |-> 0]
    /\ pool = "open"
    /\ stop = "serving"
    /\ runs = [t \in Task |-> 0]
    /\ answered = [t \in Task |-> 0]
    /\ overlapped = [e \in Entity |-> FALSE]

\* React -> doDBCommand -> AddTask, up to the unlock; ProcessTask follows on
\* the event loop, which takes no other command meanwhile.
AddTask(t) ==
    LET e == Owner[t] IN
    /\ stop # "stopped"
    /\ stage[t] = "new"
    /\ Free("loop")
    /\ queue' = [queue EXCEPT ![e] = Append(@, t)]
    /\ stage' = [stage EXCEPT ![t] = "get"]
    /\ overlapped' = [overlapped EXCEPT ![e] = @ \/ Alive(e) # {}]
    /\ UNCHANGED <<thread, doing, got, finishing, pool, stop, runs, answered>>

\* The goroutine of chain c leaves FinishProcessTask: if it is one of the pool
\* it still has to answer the command it executed.
LeaveFinish(c) ==
    finishing' = IF thread[c] = "pool"
                 THEN [finishing EXCEPT ![doing[c]] = @ + 1]
                 ELSE finishing

\* wrong variant: takes the newest command
GetTaskLast(c) ==
    LET q == queue[Owner[c]] IN
    /\ stage[c] = "get"
    /\ IF q = << >>
       THEN /\ stage' = [stage EXCEPT ![c] = "end"]
            /\ LeaveFinish(c)
            /\ doing' = [doing EXCEPT ![c] = nil]
            /\ UNCHANGED got
       ELSE /\ stage' = [stage EXCEPT ![c] = "submit"]
            /\ got' = [got EXCEPT ![c] = q[Len(q)]]
            /\ UNCHANGED <<finishing, doing>>
    /\ UNCHANGED <<queue, thread, pool, stop, runs, answered, overlapped>>

\* ProcessTask, first half: GetTask under the mutex
GetTask(c) ==
    LET q == queue[Owner[c]] IN
    /\ stage[c] = "get"
    /\ IF q = << >>
       THEN /\ stage' = [stage EXCEPT ![c] = "end"]
            /\ LeaveFinish(c)
            /\ doing' = [doing EXCEPT ![c] = nil]
            /\ UNCHANGED got
       ELSE /\ stage' = [stage EXCEPT ![c] = "submit"]
            /\ got' = [got EXCEPT ![c] = Head(q)]
            /\ UNCHANGED <<finishing, doing>>
    /\ UNCHANGED <<queue, thread, pool, stop, runs, answered, overlapped>>

\* ProcessTask, second half: the pool takes the task; Submit blocks while all
\* its goroutines are busy
SubmitTask(c) ==
    /\ stage[c] = "submit"
    /\ pool = "open"
    /\ Cardinality(Running) < PoolSize
    /\ LeaveFinish(c)
    /\ stage' = [stage EXCEPT ![c] = "run"]
    /\ thread' = [thread EXCEPT ![c] = "pool"]
    /\ doing' = [doing EXCEPT ![c] = got[c]]
    /\ got' = [got EXCEPT ![c] = nil]
    /\ UNCHANGED <<queue, pool, stop, runs, answered, overlapped>>

\* wrong variant: no timer is started
SubmitFailsGivesUp(c) ==
    /\ stage[c] = "submit"
    /\ pool = "closed"
    /\ LeaveFinish(c)
    /\ stage' = [stage EXCEPT ![c] = "end"]
    /\ doing' = [doing EXCEPT ![c] = nil]
    /\ got' = [got EXCEPT ![c] = nil]
    /\ UNCHANGED <<queue, thread, pool, stop, runs, answered, overlapped>>

\* wrong variant: tries again at once, on the goroutine it runs on
SubmitFailsSpins(c) ==
    /\ stage[c] = "submit"
    /\ pool = "closed"
    /\ stage' = [stage EXCEPT ![c] = "get"]
    /\ UNCHANGED <<queue, thread, doing, got, finishing, pool, stop, history>>

\* ProcessTask, second half: the pool is closed, a timer will try again
SubmitFails(c) ==
    /\ stage[c] = "submit"
    /\ pool = "closed"
    /\ LeaveFinish(c)
    /\ stage' = [stage EXCEPT ![c] = "retry"]
    /\ thread' = [thread EXCEPT ![c] = "ticker"]
    /\ doing' = [doing EXCEPT ![c] = nil]
    /\ got' = [got EXCEPT ![c] = nil]
    /\ UNCHANGED <<queue, pool, stop, runs, answered, overlapped>>

\* the timer fires on the ticker goroutine
OnReSubmitTask(c) ==
    /\ stop # "stopped"
    /\ stage[c] = "retry"
    /\ Free("ticker")
    /\ stage' = [stage EXCEPT ![c] = "get"]
    /\ UNCHANGED <<queue, thread, doing, got, finishing, pool, stop, history>>

\* Process: one database operation; it may fail, but the error only goes into
\* the answer
Process(c) ==
    /\ stage[c] = "run"
    /\ doing[c] \notin Poison
    /\ stage' = [stage EXCEPT ![c] = "pop"]
    /\ runs' = [runs EXCEPT ![doing[c]] = @ + 1]
    /\ UNCHANGED <<queue, thread, doing, got, finishing, pool, stop, answered, overlapped>>

\* Process panics: the pool logs it and the goroutine is gone; the task stays
\* at the front
ProcessPanics(c) ==
    /\ stage[c] = "run"
    /\ doing[c] \in Poison
    /\ stage' = [stage EXCEPT ![c] = "panicked"]
    /\ UNCHANGED <<queue, thread, doing, got, finishing, pool, stop, history>>

\* wrong variant: the last command is never removed
PopTaskKeepsLast(c) ==
    LET e == Owner[c] IN
    /\ stage[c] = "pop"
    /\ queue' = [queue EXCEPT ![e] = IF Len(@) <= 1 THEN @ ELSE Tail(@)]
    /\ stage' = [stage EXCEPT ![c] = "get"]
    /\ UNCHANGED <<thread, doing, got, finishing, pool, stop, history>>

\* OnTaskFinished -> FinishProcessTask -> PopTask under the mutex: removes the
\* front, whatever it is by now
PopTask(c) ==
    LET e == Owner[c] IN
    /\ stage[c] = "pop"
    /\ queue' = [queue EXCEPT ![e] = IF @ = << >> THEN @ ELSE Tail(@)]
    /\ stage' = [stage EXCEPT ![c] = "get"]
    /\ UNCHANGED <<thread, doing, got, finishing, pool, stop, history>>

\* wrong variant: gives two goroutines back to the pool
ResponseReturnsTwice(t) ==
    /\ finishing[t] > 0
    /\ finishing' = [finishing EXCEPT ![t] = @ - 2]
    /\ answered' = [answered EXCEPT ![t] = @ + 1]
    /\ UNCHANGED <<queue, stage, thread, doing, got, pool, stop, runs, overlapped>>

\* responseCommandTask, and the pool goroutine returns
ResponseCommandTask(t) ==
    /\ finishing[t] > 0
    /\ finishing' = [finishing EXCEPT ![t] = @ - 1]
    /\ answered' = [answered EXCEPT ![t] = @ + 1]
    /\ UNCHANGED <<queue, stage, thread, doing, got, pool, stop, runs, overlapped>>

(***************************************************************************)
(* stopServer, on the signal goroutine                                     *)
(***************************************************************************)

\* the first loop ends: TaskSize() is 0 at this moment
StopDrained ==
    /\ stop = "serving"
    /\ \A e \in Entity : queue[e] = << >>
    /\ stop' = "drained"
    /\ UNCHANGED <<queue, chains, finishing, pool, history>>

\* TaskPool.Release()
StopRelease ==
    /\ stop = "drained"
    /\ stop' = "released"
    /\ pool' = "closed"
    /\ UNCHANGED <<queue, chains, finishing, history>>

\* wrong variant: does not wait for the pool
StopQuitAtOnce ==
    /\ stop = "released"
    /\ stop' = "stopped"
    /\ UNCHANGED <<queue, chains, finishing, pool, history>>

\* the second loop ends: Running() is 0, gnet.Stop
StopQuit ==
    /\ stop = "released"
    /\ Running = {}
    /\ stop' = "stopped"
    /\ UNCHANGED <<queue, chains, finishing, pool, history>>

ChainStep(c) ==
    \/ GetTask(c) \/ SubmitTask(c) \/ SubmitFails(c) \/ OnReSubmitTask(c)
    \/ Process(c) \/ ProcessPanics(c) \/ PopTask(c)

Next ==
    \/ \E t \in Task : AddTask(t) \/ ChainStep(t) \/ ResponseCommandTask(t)
    \/ StopDrained \/ StopRelease \/ StopQuit

Spec == Init /\ [][Next]_vars

\* Goroutines are scheduled fairly, every database operation ends within
\* mongoOperationTimeout, the ticker keeps firing, and stopServer runs to its
\* end once it has found the lists empty.  Nobody is obliged to send a command
\* or the signal.
FairSpec ==
    /\ Spec
    /\ \A t \in Task : WF_vars(ChainStep(t))
    /\ WF_vars(\E t \in Task : ResponseCommandTask(t))
    /\ WF_vars(StopRelease \/ StopQuit)
-----------------------------------------------------------------------------
(***************************************************************************)
(* Properties                                                              *)
(***************************************************************************)

\* Type invariant of the lists, the chains and the pool.
TypeOK ==
    /\ queue \in [Entity -> Seq(Task)]
    /\ stage \in [Task -> Working \cup {"new", "panicked", "end"}]
    /\ thread \in [Task -> {"loop", "ticker", "pool"}]
    /\ doing \in [Task -> Task \cup {nil}]
    /\ got \in [Task -> Task \cup {nil}]
    /\ finishing \in [Task -> Nat]
    /\ pool \in {"open", "closed"}
    /\ stop \in {"serving", "drained", "released", "stopped"}
    /\ runs \in [Task -> Nat]
    /\ answered \in [Task -> Nat]
    /\ overlapped \in [Entity -> BOOLEAN]

Panicked(e) == {c \in Task : Owner[c] = e /\ stage[c] = "panicked"}

\* No list is forgotten: an entity with n queued commands has at least n chains
\* that will look at its list again.  A chain that a panic has killed counts too,
\* although it looks at nothing any more: its command stays at the front and
\* blocks the list, which this property records and does not exclude.
\* AddTask and FinishProcessTask start ProcessTask after the mutex is released,
\* so a command could be pushed just when the last chain decides to end.
EveryTaskHasAChain ==
    \A e \in Entity : Len(queue[e]) <= Cardinality(Alive(e) \cup Panicked(e))

\* Commands start in the order of their arrival: a command that is submitted or
\* executed is at the front of its list or has left it, so nothing that
\* arrived earlier still waits behind it.
StartedFromFront ==
    \A c \in Task : \A i \in 2..Len(queue[Owner[c]]) :
        queue[Owner[c]][i] \notin {doing[c], got[c]}

\* Used one command at a time (no command arrives for an entity while a chain of
\* it is alive) the queue is exact: nothing is executed twice or dropped, and a
\* command is answered once, after its execution.
SerialUseIsExact ==
    \A t \in Task : ~overlapped[Owner[t]] =>
        /\ runs[t] <= 1 /\ answered[t] + finishing[t] <= runs[t]
        /\ stage[t] = "end" => answered[t] + finishing[t] = 1 /\ t \notin Poison

\* When stopServer has stopped the network no goroutine of the pool executes or
\* answers a command any more.
QuietAfterStop == stop = "stopped" => Running = {}

\* A list does not stay as it is: every queued command leaves its list, unless a
\* command of the entity panicked or the pool was closed in between.
EveryTaskLeaves ==
    \A t \in Task :
        (\E i \in DOMAIN queue[Owner[t]] : queue[Owner[t]][i] = t)
            ~> \/ \A i \in DOMAIN queue[Owner[t]] : queue[Owner[t]][i] # t
               \/ Panicked(Owner[t]) # {}
               \/ pool = "closed"

\* stopServer ends once it has seen the lists empty, whatever arrives meanwhile.
StopEnds == (stop = "drained") ~> (stop = "stopped")
=============================================================================
