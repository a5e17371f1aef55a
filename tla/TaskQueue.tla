------------------------------ MODULE TaskQueue ------------------------------
(***************************************************************************)
(* The lock-free queue of engine/LockFree/task_queue.go, at the grain of   *)
(* its atomic operations.  The event loops of gnet (React, OnClosed), the  *)
(* etcd watchers and the signal handler enqueue; the tick goroutine of the *)
(* process dequeues.  A node is allocated by one Enqueue call and carries  *)
(* the task of that call, so a task is identified with its node.  Nodes    *)
(* are garbage collected, so an address is never reused while a goroutine  *)
(* still holds it: a node is allocated at most once.                       *)
(***************************************************************************)
EXTENDS Integers, Sequences, FiniteSets

CONSTANTS
    Node,        \* nodes that can be allocated
    Dummy,       \* the node NewTaskQueue allocates
    Producer,    \* goroutines that call Enqueue
    Consumer,    \* goroutines that call Dequeue
    nil          \* the nil pointer

ASSUME NodeAssumption == Dummy \notin Node /\ nil \notin Node \cup {Dummy}

ASSUME ThreadAssumption ==
    /\ Producer \cap Consumer = {}
    /\ IsFiniteSet(Producer)
    /\ IsFiniteSet(Consumer)

Ptr == Node \cup {Dummy}
Thread == Producer \cup Consumer

VARIABLES
    next,        \* next field of every node
    head, tail,  \* the two pointers of the TaskQueue
    count,       \* the approximate length
    pc,          \* which atomic operation a goroutine executes next
    newNode,     \* Enqueue's local newNode
    lHead,       \* Dequeue's local head
    lTail,       \* the local tail of Enqueue and of Dequeue
    lNext,       \* the local next of Enqueue and of Dequeue
    linked,      \* history: every node ever linked, in the order of the links
    taken        \* history: every task Dequeue has taken, in order

locals == <<newNode, lHead, lTail, lNext>>
vars == <<next, head, tail, count, pc, newNode, lHead, lTail, lNext, linked, taken>>

\* nodes some Enqueue call has allocated already
Allocated ==
    {linked[i] : i \in 1..Len(linked)} \cup {newNode[p] : p \in Producer}

Init ==
    /\ next = [n \in Ptr |-> nil]
    /\ head = Dummy
    /\ tail = Dummy
    /\ count = 0
    /\ pc = [t \in Thread |-> "idle"]
    /\ newNode = [t \in Thread |-> nil]
    /\ lHead = [t \in Thread |-> nil]
    /\ lTail = [t \in Thread |-> nil]
    /\ lNext = [t \in Thread |-> nil]
    /\ linked = <<Dummy>>
    /\ taken = << >>

Goto(t, from, to) ==
    /\ pc[t] = from
    /\ pc' = [pc EXCEPT ![t] = to]

(***************************************************************************)
(* Enqueue                                                                 *)
(***************************************************************************)

\* newNode := &node{value: task}; which free address the allocator picks is
\* immaterial, so it always picks the same one
Enqueue(p) ==
    /\ Goto(p, "idle", "enqTail")
    /\ Node \ Allocated # {}
    /\ newNode' = [newNode EXCEPT ![p] = CHOOSE n \in Node \ Allocated : TRUE]
    /\ UNCHANGED <<next, head, tail, count, lHead, lTail, lNext, linked, taken>>

\* tail := atomic.LoadPointer(&m.tail)
EnqLoadTail(p) ==
    /\ Goto(p, "enqTail", "enqNext")
    /\ lTail' = [lTail EXCEPT ![p] = tail]
    /\ UNCHANGED <<next, head, tail, count, newNode, lHead, lNext, linked, taken>>

\* next := atomic.LoadPointer(&tailNode.next), and the branch on it
EnqLoadNext(p) ==
    /\ Goto(p, "enqNext", IF next[lTail[p]] = nil THEN "enqLink" ELSE "enqHelp")
    /\ lNext' = [lNext EXCEPT ![p] = next[lTail[p]]]
    /\ UNCHANGED <<next, head, tail, count, newNode, lHead, lTail, linked, taken>>

\* wrong variant: a store in place of the CAS
EnqLinkStores(p) ==
    /\ Goto(p, "enqLink", "enqSwing")
    /\ next' = [next EXCEPT ![lTail[p]] = newNode[p]]
    /\ linked' = Append(linked, newNode[p])
    /\ UNCHANGED <<head, tail, count, newNode, lHead, lTail, lNext, taken>>

\* CompareAndSwapPointer(&tailNode.next, nil, newNode) succeeds
EnqLink(p) ==
    /\ Goto(p, "enqLink", "enqSwing")
    /\ next[lTail[p]] = nil
    /\ next' = [next EXCEPT ![lTail[p]] = newNode[p]]
    /\ linked' = Append(linked, newNode[p])
    /\ UNCHANGED <<head, tail, count, newNode, lHead, lTail, lNext, taken>>

\* wrong variant: a lost CAS is not retried and the task is dropped
EnqLinkFailsDrops(p) ==
    /\ Goto(p, "enqLink", "enqCount")
    /\ next[lTail[p]] # nil
    /\ UNCHANGED <<next, head, tail, count, newNode, lHead, lTail, lNext, linked, taken>>

\* the same CAS fails: another producer linked first
EnqLinkFails(p) ==
    /\ Goto(p, "enqLink", "enqTail")
    /\ next[lTail[p]] # nil
    /\ UNCHANGED <<next, head, tail, count, newNode, lHead, lTail, lNext, linked, taken>>

\* wrong variant: a store in place of the CAS
EnqHelpStores(p) ==
    /\ Goto(p, "enqHelp", "enqTail")
    /\ tail' = lNext[p]
    /\ UNCHANGED <<next, head, count, newNode, lHead, lTail, lNext, linked, taken>>

\* CompareAndSwapPointer(&m.tail, tail, next), then another round
EnqHelp(p) ==
    /\ Goto(p, "enqHelp", "enqTail")
    /\ tail' = IF tail = lTail[p] THEN lNext[p] ELSE tail
    /\ UNCHANGED <<next, head, count, newNode, lHead, lTail, lNext, linked, taken>>

\* wrong variant: swings tail to the next that was loaded before the link
EnqSwingToNext(p) ==
    /\ Goto(p, "enqSwing", "enqCount")
    /\ tail' = IF tail = lTail[p] THEN lNext[p] ELSE tail
    /\ UNCHANGED <<next, head, count, newNode, lHead, lTail, lNext, linked, taken>>

\* CompareAndSwapPointer(&m.tail, tail, newNode)
EnqSwing(p) ==
    /\ Goto(p, "enqSwing", "enqCount")
    /\ tail' = IF tail = lTail[p] THEN newNode[p] ELSE tail
    /\ UNCHANGED <<next, head, count, newNode, lHead, lTail, lNext, linked, taken>>

\* AddInt32(&m.count, 1) and return
EnqCount(p) ==
    /\ Goto(p, "enqCount", "idle")
    /\ count' = count + 1
    /\ newNode' = [newNode EXCEPT ![p] = nil]
    /\ lTail' = [lTail EXCEPT ![p] = nil]
    /\ lNext' = [lNext EXCEPT ![p] = nil]
    /\ UNCHANGED <<next, head, tail, lHead, linked, taken>>

(***************************************************************************)
(* Dequeue                                                                 *)
(***************************************************************************)

\* head := atomic.LoadPointer(&m.head)
DeqLoadHead(c) ==
    /\ pc[c] \in {"idle", "deqHead"}
    /\ pc' = [pc EXCEPT ![c] = "deqTail"]
    /\ lHead' = [lHead EXCEPT ![c] = head]
    /\ UNCHANGED <<next, head, tail, count, newNode, lTail, lNext, linked, taken>>

\* tail := atomic.LoadPointer(&m.tail)
DeqLoadTail(c) ==
    /\ Goto(c, "deqTail", "deqNext")
    /\ lTail' = [lTail EXCEPT ![c] = tail]
    /\ UNCHANGED <<next, head, tail, count, newNode, lHead, lNext, linked, taken>>

\* wrong variant: no test of head == tail
DeqLoadNextUnchecked(c) ==
    /\ Goto(c, "deqNext", "deqSwap")
    /\ lNext' = [lNext EXCEPT ![c] = next[lHead[c]]]
    /\ UNCHANGED <<next, head, tail, count, newNode, lHead, lTail, linked, taken>>

\* next := atomic.LoadPointer(&headNode.next), and the branch on head == tail
DeqLoadNext(c) ==
    /\ Goto(c, "deqNext", IF lHead[c] = lTail[c] THEN "deqHelp" ELSE "deqSwap")
    /\ lHead[c] = lTail[c] => next[lHead[c]] # nil
    /\ lNext' = [lNext EXCEPT ![c] = next[lHead[c]]]
    /\ UNCHANGED <<next, head, tail, count, newNode, lHead, lTail, linked, taken>>

\* wrong variant: head == tail is taken for an empty queue
DeqEmptyUnchecked(c) ==
    /\ Goto(c, "deqNext", "idle")
    /\ lHead[c] = lTail[c]
    /\ lHead' = [lHead EXCEPT ![c] = nil]
    /\ lTail' = [lTail EXCEPT ![c] = nil]
    /\ lNext' = [lNext EXCEPT ![c] = nil]
    /\ UNCHANGED <<next, head, tail, count, newNode, linked, taken>>

\* the same load finds nil behind the last node: return nil
DeqEmpty(c) ==
    /\ Goto(c, "deqNext", "idle")
    /\ lHead[c] = lTail[c]
    /\ next[lHead[c]] = nil
    /\ lHead' = [lHead EXCEPT ![c] = nil]
    /\ lTail' = [lTail EXCEPT ![c] = nil]
    /\ lNext' = [lNext EXCEPT ![c] = nil]
    /\ UNCHANGED <<next, head, tail, count, newNode, linked, taken>>

\* CompareAndSwapPointer(&m.tail, tail, next), then another round
DeqHelp(c) ==
    /\ Goto(c, "deqHelp", "deqHead")
    /\ tail' = IF tail = lTail[c] THEN lNext[c] ELSE tail
    /\ UNCHANGED <<next, head, count, newNode, lHead, lTail, lNext, linked, taken>>

\* wrong variant: a store in place of the CAS
DeqSwapStores(c) ==
    /\ Goto(c, "deqSwap", "deqCount")
    /\ head' = lNext[c]
    /\ taken' = Append(taken, lNext[c])
    /\ UNCHANGED <<next, tail, count, newNode, lHead, lTail, lNext, linked>>

\* CompareAndSwapPointer(&m.head, head, next) succeeds
DeqSwap(c) ==
    /\ Goto(c, "deqSwap", "deqCount")
    /\ head = lHead[c]
    /\ head' = lNext[c]
    /\ taken' = Append(taken, lNext[c])
    /\ UNCHANGED <<next, tail, count, newNode, lHead, lTail, lNext, linked>>

\* the same CAS fails: another consumer took the task
DeqSwapFails(c) ==
    /\ Goto(c, "deqSwap", "deqHead")
    /\ head # lHead[c]
    /\ UNCHANGED <<next, head, tail, count, newNode, lHead, lTail, lNext, linked, taken>>

\* AddInt32(&m.count, -1) and return the value
DeqCount(c) ==
    /\ Goto(c, "deqCount", "idle")
    /\ count' = count - 1
    /\ lHead' = [lHead EXCEPT ![c] = nil]
    /\ lTail' = [lTail EXCEPT ![c] = nil]
    /\ lNext' = [lNext EXCEPT ![c] = nil]
    /\ UNCHANGED <<next, head, tail, newNode, linked, taken>>

EnqueueStep(p) ==
    \/ EnqLoadTail(p) \/ EnqLoadNext(p) \/ EnqLink(p) \/ EnqLinkFails(p)
    \/ EnqHelp(p) \/ EnqSwing(p) \/ EnqCount(p)

DequeueStep(c) ==
    \/ DeqLoadHead(c) \/ DeqLoadTail(c) \/ DeqLoadNext(c) \/ DeqEmpty(c)
    \/ DeqHelp(c) \/ DeqSwap(c) \/ DeqSwapFails(c) \/ DeqCount(c)

Next ==
    \/ \E p \in Producer : Enqueue(p) \/ EnqueueStep(p)
    \/ \E c \in Consumer : DequeueStep(c)

Spec == Init /\ [][Next]_vars

\* The Go scheduler preempts goroutines fairly, and TaskManager.Tick calls
\* Dequeue on every tick; nobody is obliged to call Enqueue.  Every step moves pc.
FairSpec ==
    /\ Spec
    /\ \A p \in Producer : WF_pc(EnqueueStep(p))
    /\ \A c \in Consumer : WF_pc(DequeueStep(c))

-----------------------------------------------------------------------------
(***************************************************************************)
(* Properties                                                              *)
(***************************************************************************)

Labels == {"idle", "enqTail", "enqNext", "enqLink", "enqHelp", "enqSwing", "enqCount",
           "deqHead", "deqTail", "deqNext", "deqHelp", "deqSwap", "deqCount"}

\* Type invariant: every pointer is nil or a node, and only threads have locals.
TypeOK ==
    /\ next \in [Ptr -> Ptr \cup {nil}]
    /\ head \in Ptr
    /\ tail \in Ptr
    /\ count \in Int
    /\ pc \in [Thread -> Labels]
    /\ newNode \in [Thread -> Node \cup {nil}]
    /\ lHead \in [Thread -> Ptr \cup {nil}]
    /\ lTail \in [Thread -> Ptr \cup {nil}]
    /\ lNext \in [Thread -> Ptr \cup {nil}]
    /\ linked \in Seq(Ptr)
    /\ taken \in Seq(Ptr)

\* The tasks in the queue: linked and not taken yet, oldest first.
Pending == SubSeq(linked, Len(taken) + 2, Len(linked))

\* No task is lost, duplicated or overtaken: whatever the interleaving of the
\* CAS operations, the tasks Dequeue has returned are, in this order, the
\* first ones that Enqueue linked, and head sits on the last of them.
TakenInLinkOrder ==
    /\ Len(taken) < Len(linked)
    /\ \A i \in 1..Len(taken) : taken[i] = linked[i + 1]
    /\ head = linked[Len(taken) + 1]

\* m.tail is the last node or the one before it, and never falls behind
\* m.head, although both Enqueue and Dequeue help it forward with stale
\* local copies and ignore the result of the CAS.
TailNearEnd ==
    \E i \in (Len(taken) + 1)..Len(linked) :
        /\ tail = linked[i]
        /\ i >= Len(linked) - 1

\* Dequeue dereferences next without a check when head # tail: it is never
\* nil there, although head, tail and next were loaded at different times.
NextIsNotNil == \A c \in Consumer : pc[c] = "deqSwap" => lNext[c] # nil

\* Dequeue returns nil only at a moment at which the queue is really empty:
\* TaskManager.Tick ends its drain loop on nil, so a wrong nil would leave
\* tasks behind.
NilMeansEmpty == [][\A c \in Consumer : DeqEmpty(c) => Pending = << >>]_vars

Fifo == INSTANCE FifoQueue WITH Task <- Node, queue <- Pending, delivered <- taken

\* Linearizability: the linked list implements the atomic queue; the links are
\* its Put steps and the swings of head its Take steps.
ImplementsFifo == Fifo!Spec

\* Every task handed to Enqueue is eventually taken by the tick goroutine, although
\* its CAS may lose against other producers: each loss is the success of another
\* Enqueue, and there are finitely many of those (Node is finite).
EventuallyTaken ==
    \A n \in Node :
        (\E p \in Producer : newNode[p] = n) ~> (\E i \in 1..Len(taken) : taken[i] = n)
=============================================================================
