--------------------------- MODULE TreeQueueProofs ---------------------------
(***************************************************************************)
(* Theorems about TreeQueue, for every set of nodes.                       *)
(***************************************************************************)
EXTENDS TreeQueue, FiniteSetTheorems, SequenceTheorems, WellFoundedInduction, TLAPS

-----------------------------------------------------------------------------
(* Facts about the helpers.                                                *)

\* The turn given to a node that is enqueued is a positive number.
LEMMA NextTurn ==
    ASSUME TypeOK
    PROVE  /\ IsFiniteSet(Enqueued)
           /\ Cardinality(Enqueued) \in Nat
           /\ 1 + Cardinality(Enqueued) \in Nat \ {0}
<1>1. IsFiniteSet(Enqueued)
  BY NodesAssumption, FS_Subset DEF Enqueued
<1>2. Cardinality(Enqueued) \in Nat
  BY <1>1, FS_CardinalityType
<1> QED
  BY <1>1, <1>2

\* Every action keeps the variables in their types, whatever the commands.
LEMMA TypeStep == TypeOK /\ [Next]_vars => TypeOK'
<1> SUFFICES ASSUME TypeOK, [Next]_vars PROVE TypeOK'
  OBVIOUS
<1> USE RootAssumption, NoNodeAssumption DEF TypeOK, MessageState, Reasons, Phases
<1>1. CASE CreateTree
  BY <1>1, NextTurn DEF CreateTree, Enqueue, nodeVars, procVars, clearVars
<1>2. ASSUME NEW n \in Nodes, NEW p \in Nodes, Receive(n, p) PROVE TypeOK'
  BY <1>2 DEF Receive, Resolves, nodeVars, queueVars, procVars, taskVars, clearVars
<1>3. ASSUME NEW n \in Nodes, Admit(n) PROVE TypeOK'
  <2>1. CASE attached /\ parent[n] \in nodes /\ isProcessing
    BY <1>3, <2>1, NextTurn DEF Admit, CanBeAdded, add_node, Enqueue, nodeVars, procVars, clearVars
  <2>2. CASE attached /\ parent[n] \in nodes /\ ~isProcessing
    BY <1>3, <2>2, NextTurn DEF Admit, CanBeAdded, add_node, Enqueue, nodeVars, clearVars
  <2>3. CASE ~(attached /\ parent[n] \in nodes)
    BY <1>3, <2>3 DEF Admit, CanBeAdded, add_node, nodeVars, queueVars, procVars, clearVars
  <2> QED
    BY <2>1, <2>2, <2>3
<1>4. ASSUME NEW n \in Nodes, SendFails(n) PROVE TypeOK'
  BY <1>4 DEF SendFails, nodeVars, queueVars, procVars, taskVars, clearVars
<1>5. ASSUME NEW n \in Nodes, TaskStep(n) PROVE TypeOK'
  <2>1. CASE DieUnstarted(n)
    BY <2>1 DEF DieUnstarted, treeVars, nodeVars, queueVars, procVars, clearVars
  <2>2. ASSUME ProcessNext(n), UNCHANGED <<treeVars, nodeVars, arrival, cancelReq, clearVars>>
        PROVE  TypeOK'
    BY <2>2 DEF ProcessNext, MarkFree, Dequeue, treeVars, nodeVars, clearVars
  <2>20. CASE Skip(n)
    BY <2>20, <2>2 DEF Skip
  <2>21. CASE Finish(n)
    BY <2>21, <2>2 DEF Finish
  <2>3. CASE Start(n)
    BY <2>3 DEF Start, treeVars, queueVars, procVars, clearVars
  <2>4. CASE SessionInfo(n)
    BY <2>4 DEF SessionInfo, treeVars, queueVars, procVars, taskVars, clearVars
  <2>5. CASE ErrorEvent(n)
    BY <2>5 DEF ErrorEvent, MarkNodeError, MarkedReason, treeVars, queueVars, procVars,
                taskVars, clearVars
  <2>6. CASE TaskFails(n)
    BY <2>6 DEF TaskFails, MarkNodeError, MarkedReason, treeVars, queueVars, procVars,
                clearVars
  <2>7. CASE ExitZero(n)
    BY <2>7 DEF ExitZero, treeVars, queueVars, procVars, clearVars
  <2>8. CASE ExitNonZero(n)
    BY <2>8 DEF ExitNonZero, MarkedReason, treeVars, queueVars, procVars, clearVars
  <2>9. CASE DeliverCancel(n)
    BY <2>9 DEF DeliverCancel, treeVars, queueVars, procVars, clearVars
  <2> QED
    BY <1>5, <2>1, <2>20, <2>21, <2>3, <2>4, <2>5, <2>6, <2>7, <2>8, <2>9
    DEF TaskStep
<1>6. ASSUME NEW S, CancelNodes(S)
      PROVE  /\ queue' \subseteq Nodes
             /\ state' \in [Nodes -> MessageState]
             /\ reason' \in [Nodes -> Reasons]
             /\ cancelReq' \in [Nodes -> BOOLEAN]
  BY <1>6 DEF CancelNodes, CancelCurrentTask, CurrentTaskLive
<1>7. ASSUME CancelTree
      PROVE  /\ queue' \subseteq Nodes
             /\ state' \in [Nodes -> MessageState]
             /\ reason' \in [Nodes -> Reasons]
             /\ cancelReq' \in [Nodes -> BOOLEAN]
             /\ isProcessing' \in BOOLEAN
             /\ currentNode' \in Nodes \cup {NoNode}
             /\ currentTask' \in Nodes \cup {NoNode}
  BY <1>7 DEF CancelTree, CancelCurrentTask, CurrentTaskLive
<1>8. ASSUME NEW n \in Nodes, Stop(n) PROVE TypeOK'
  BY <1>8, <1>6 DEF Stop, treeVars, procVars, clearVars
<1>9. CASE StopAll
  BY <1>9, <1>7 DEF StopAll, treeVars, clearVars
<1>10. ASSUME NEW n \in Nodes, ClearBranch(n) PROVE TypeOK'
  BY <1>10, <1>6 DEF ClearBranch, cancel_branch, treeVars, procVars
<1>11. ASSUME NEW n \in Nodes, RemoveBranch(n) PROVE TypeOK'
  BY <1>11, <1>7 DEF RemoveBranch, WithoutBranch, remove_tree, procVars
<1>12. CASE ClearAll
  BY <1>12, <1>7 DEF ClearAll, treeVars
<1>13. CASE ReplaceTreeQueue
  BY <1>13 DEF ReplaceTreeQueue, nodeVars, queueVars, procVars, taskVars
<1>14. CASE UNCHANGED vars
  BY <1>14 DEF vars, treeVars, nodeVars, queueVars, procVars, taskVars, clearVars
<1> QED
  BY <1>1, <1>2, <1>3, <1>4, <1>5, <1>8, <1>9, <1>10, <1>11, <1>12, <1>13, <1>14
  DEF Next, MessageStep, CommandStep

\* The program starts with the variables in their types.
LEMMA TypeInit == Init => TypeOK
<1> SUFFICES ASSUME Init PROVE TypeOK
  OBVIOUS
<1>1. session \in [Nodes -> BOOLEAN] /\ cancelReq \in [Nodes -> BOOLEAN]
  BY DEF Init
<1>2. arrival \in [Nodes -> Nat]
  BY DEF Init
<1>3. /\ state \in [Nodes -> MessageState] /\ reason \in [Nodes -> Reasons]
      /\ pc \in [Nodes -> Phases]
      /\ parent \in [Nodes -> Nodes \cup {NoNode}]
  BY DEF Init, MessageState, Reasons, Phases
<1> QED
  BY <1>1, <1>2, <1>3 DEF Init, TypeOK

\* The variables of a tree always have their types.
THEOREM TypeCorrect == Spec => []TypeOK
BY TypeInit, TypeStep, PTL DEF Spec

-----------------------------------------------------------------------------
(* No message is left behind in the queue of a tree that is marked free.   *)

\* Whatever the commands, a tree with a backlog is marked as processing.
THEOREM NoIdleBacklogHolds == Spec => []NoIdleBacklog
<1>1. Init => NoIdleBacklog
  BY DEF Init, NoIdleBacklog
<1>2. NoIdleBacklog /\ [Next]_vars => NoIdleBacklog'
  <2> SUFFICES ASSUME NoIdleBacklog, [Next]_vars PROVE NoIdleBacklog'
    OBVIOUS
  <2> USE DEF NoIdleBacklog
  <2>1. ASSUME UNCHANGED queueVars, UNCHANGED procVars PROVE NoIdleBacklog'
    BY <2>1 DEF queueVars, procVars
  <2>2. ASSUME NEW n, Enqueue(n) PROVE NoIdleBacklog'
    BY <2>2 DEF Enqueue, procVars
  <2>3. ASSUME NEW n, ProcessNext(n) PROVE NoIdleBacklog'
    BY <2>3 DEF ProcessNext, MarkFree, Dequeue
  <2>4. ASSUME NEW S, CancelNodes(S), UNCHANGED procVars PROVE NoIdleBacklog'
    BY <2>4 DEF CancelNodes, procVars
  <2>5. CASE CancelTree
    BY <2>5 DEF CancelTree
  <2>6. CASE MessageStep
    <3>1. CASE CreateTree
      BY <3>1, <2>2 DEF CreateTree
    <3>2. ASSUME NEW n \in Nodes, Admit(n) PROVE NoIdleBacklog'
      BY <3>2, <2>1, <2>2 DEF Admit, CanBeAdded, add_node
    <3>3. ASSUME NEW n \in Nodes, SendFails(n) PROVE NoIdleBacklog'
      BY <3>3, <2>1 DEF SendFails
    <3>4. ASSUME NEW n \in Nodes, NEW m \in Nodes, Receive(n, m) PROVE NoIdleBacklog'
      BY <3>4, <2>1 DEF Receive, Resolves
    <3> QED
      BY <2>6, <3>1, <3>2, <3>3, <3>4 DEF MessageStep
  <2>7. CASE CommandStep
    <3>1. CASE StopAll \/ ClearAll
      BY <3>1, <2>5 DEF StopAll, ClearAll
    <3>2. CASE ReplaceTreeQueue
      BY <3>2, <2>1 DEF ReplaceTreeQueue
    <3>3. ASSUME NEW n \in Nodes, Stop(n) \/ ClearBranch(n) PROVE NoIdleBacklog'
      BY <3>3, <2>4 DEF Stop, ClearBranch, cancel_branch
    <3>4. ASSUME NEW n \in Nodes, RemoveBranch(n) PROVE NoIdleBacklog'
      <4>1. CASE attached /\ n = Root
        BY <3>4, <4>1, <2>5 DEF RemoveBranch, WithoutBranch, remove_tree
      <4>2. CASE ~(attached /\ n = Root)
        BY <3>4, <4>2 DEF RemoveBranch, WithoutBranch, remove_tree, procVars
      <4> QED
        BY <4>1, <4>2
    <3> QED
      BY <2>7, <3>1, <3>2, <3>3, <3>4 DEF CommandStep
  <2>8. ASSUME NEW n \in Nodes, TaskStep(n) PROVE NoIdleBacklog'
    BY <2>8, <2>1, <2>3
    DEF TaskStep, DieUnstarted, Skip, Start, SessionInfo, ErrorEvent, TaskFails, ExitZero,
        ExitNonZero, DeliverCancel, Finish
  <2>9. CASE UNCHANGED vars
    BY <2>9, <2>1 DEF vars
  <2> QED
    BY <2>6, <2>7, <2>8, <2>9 DEF Next
<1> QED
  BY <1>1, <1>2, PTL DEF Spec

-----------------------------------------------------------------------------
(* The inductive invariant of a tree whose users issue no chat-wide        *)
(* command: what the helpers of the actions do to it.                      *)

\* Enqueueing a node keeps the invariant.
LEMMA EnqueueKeeps ==
    ASSUME TypeOK, NoIdleBacklog, ScopedInv, NEW n \in Nodes, arrival[n] = 0,
           Enqueue(n),
           attached' = TRUE, nodes' \subseteq nodes \cup {n}, sending' \subseteq sending \ {n},
           UNCHANGED <<parent, state, reason, cancelReq, clearingAll>>,
           IF n = Root THEN Enqueued = {}
           ELSE attached /\ parent[n] # NoNode /\ arrival[parent[n]] # 0 /\ arrival[Root] # 0
    PROVE  ScopedInv'
<1> DEFINE t == 1 + Cardinality(Enqueued)
<1> USE DEF Live, Executing
<1>1. t \in Nat \ {0} /\ IsFiniteSet(Enqueued) /\ Cardinality(Enqueued) \in Nat
  BY NextTurn
<1>2. \A m \in Nodes : arrival[m] < t
  BY <1>1 DEF ScopedInv, TurnsInOrder, TypeOK
<1>3. arrival' = [arrival EXCEPT ![n] = t]
  BY DEF Enqueue
<1>4. Enqueued' = Enqueued \cup {n} /\ n \notin Enqueued
  BY <1>1, <1>3 DEF Enqueued, TypeOK
<1>5. Cardinality(Enqueued') = t
  <2>1. Cardinality(Enqueued \cup {n}) = t
    BY <1>1, <1>4, FS_AddElement
  <2> QED
    BY <2>1, <1>4
<1>6. /\ pc[n] = "none" /\ n \notin queue
      /\ \A m \in Nodes \ {n} : pc'[m] = pc[m]
      /\ queue' \subseteq queue \cup {n}
      /\ isProcessing => queue' = queue \cup {n} /\ pc' = pc /\ UNCHANGED procVars
      /\ ~isProcessing => /\ queue' = queue /\ pc'[n] = "created"
                          /\ isProcessing' = TRUE /\ currentNode' = n /\ currentTask' = n
  BY DEF Enqueue, ScopedInv, EnqueuedOnce, TypeOK
<1>7. EnqueuedOnce'
  BY <1>1, <1>3, <1>4, <1>6 DEF ScopedInv, EnqueuedOnce, TypeOK, Enqueued
<1>8. TurnsInOrder'
  <2>1. \A m \in Nodes : arrival'[m] <= t
    BY <1>1, <1>2, <1>3 DEF TypeOK
  <2>2. ASSUME NEW m \in Nodes, arrival'[m] # 0, parent[m] # NoNode
        PROVE  arrival'[parent[m]] # 0 /\ arrival'[parent[m]] < arrival'[m]
    <3>1. parent[m] \in Nodes
      BY <2>2 DEF TypeOK
    <3>2. CASE m = n
      BY <2>2, <3>1, <3>2, <1>1, <1>2, <1>3 DEF TypeOK, ScopedInv, EnqueuedOnce
    <3>3. CASE m # n
      BY <2>2, <3>1, <3>3, <1>1, <1>2, <1>3 DEF TypeOK, ScopedInv, TurnsInOrder
    <3> QED
      BY <3>2, <3>3
  <2>3. ASSUME NEW k \in Enqueued', NEW m \in Enqueued', arrival'[k] = arrival'[m]
        PROVE  k = m
    BY <2>3, <1>1, <1>2, <1>3, <1>4 DEF TypeOK, ScopedInv, TurnsInOrder, Enqueued
  <2> QED
    BY <2>1, <2>2, <2>3, <1>5 DEF TurnsInOrder
<1>9. \A m \in Nodes : Live(m) => attached /\ isProcessing /\ currentTask = m /\ currentNode = m
  BY DEF ScopedInv, LiveIsCurrent, EnqueuedOnce, Enqueued
<1>10. LiveIsCurrent'
  <2>1. CASE isProcessing
    BY <2>1, <1>6, <1>9 DEF LiveIsCurrent, procVars
  <2>2. CASE ~isProcessing
    BY <2>2, <1>6, <1>9 DEF LiveIsCurrent
  <2> QED
    BY <2>1, <2>2
<1>11. QueueWaits'
  <2>1. CASE isProcessing
    <3>1. ASSUME NEW q \in queue', NEW m \in Nodes, Live(m)'
          PROVE  pc'[q] = "none" /\ arrival'[m] < arrival'[q]
      <4>1. m # n /\ Live(m) /\ arrival'[m] = arrival[m]
        BY <3>1, <2>1, <1>6, <1>3 DEF TypeOK
      <4>2. CASE q = n
        BY <4>1, <4>2, <2>1, <1>1, <1>2, <1>3, <1>6 DEF TypeOK
      <4>3. CASE q # n
        BY <4>1, <4>3, <2>1, <1>3, <1>6 DEF TypeOK, ScopedInv, QueueWaits
      <4> QED
        BY <4>2, <4>3
    <3>2. ASSUME NEW q \in queue' PROVE pc'[q] = "none"
      BY <3>2, <2>1, <1>6 DEF TypeOK, ScopedInv, QueueWaits
    <3> QED
      BY <3>1, <3>2 DEF QueueWaits
  <2>2. CASE ~isProcessing
    BY <2>2, <1>6 DEF QueueWaits, NoIdleBacklog
  <2> QED
    BY <2>1, <2>2
<1>12. StopIsDelivered'
  BY <1>6 DEF ScopedInv, StopIsDelivered, TypeOK
<1> QED
  BY <1>7, <1>8, <1>10, <1>11, <1>12 DEF ScopedInv

\* Handing the tree over to the next queued node keeps the invariant.
LEMMA ProcessNextKeeps ==
    ASSUME TypeOK, ScopedInv, NEW last \in Nodes, Live(last), ProcessNext(last),
           UNCHANGED <<treeVars, nodeVars, arrival, cancelReq, clearVars>>
    PROVE  ScopedInv'
<1> USE DEF Live, Executing
<1>1. Enqueued' = Enqueued
  BY DEF Enqueued
<1>2. \A m \in Nodes : Live(m) => m = last
  BY DEF ScopedInv, LiveIsCurrent
<1>3. arrival[last] # 0
  BY DEF ScopedInv, EnqueuedOnce
<1>4. CASE MarkFree(last)
  <2>1. queue = {} /\ queue' = {} /\ pc' = [pc EXCEPT ![last] = "done"]
    BY <1>4 DEF MarkFree
  <2>2. \A m \in Nodes : ~Live(m)'
    BY <2>1, <1>2 DEF TypeOK
  <2>3. EnqueuedOnce' /\ TurnsInOrder' /\ StopIsDelivered'
    BY <1>1, <1>3, <2>1
    DEF ScopedInv, EnqueuedOnce, TurnsInOrder, StopIsDelivered, treeVars, nodeVars, TypeOK
  <2> QED
    BY <2>1, <2>2, <2>3 DEF ScopedInv, LiveIsCurrent, QueueWaits, treeVars, clearVars
<1>5. ASSUME NEW next \in Nodes, Dequeue(last, next)
      PROVE  ScopedInv'
  <2>1. /\ next \in queue /\ queue' = queue \ {next}
        /\ \A m \in queue : arrival[next] <= arrival[m]
        /\ isProcessing' = TRUE /\ currentNode' = next
    BY <1>5 DEF Dequeue, IsHead
  <2>2. pc[next] = "none" /\ next # last
    BY <2>1 DEF ScopedInv, QueueWaits
  <2>3. \A m \in Nodes \ {last, next} : pc'[m] = pc[m]
    BY <1>5 DEF Dequeue, TypeOK
  <2>4. pc'[last] = "done" /\ (pc'[next] = "none" \/ (pc'[next] = "created" /\ currentTask' = next))
    BY <1>5, <2>2 DEF Dequeue, TypeOK
  <2>5. arrival[next] # 0
    BY <2>1 DEF ScopedInv, EnqueuedOnce
  <2>6. EnqueuedOnce' /\ TurnsInOrder' /\ StopIsDelivered'
    BY <1>1, <1>3, <2>1, <2>2, <2>3, <2>4, <2>5
    DEF ScopedInv, EnqueuedOnce, TurnsInOrder, StopIsDelivered, treeVars, nodeVars, TypeOK
  <2>7. \A m \in Nodes : Live(m)' => m = next
    BY <1>2, <2>3, <2>4
  <2>8. LiveIsCurrent'
    BY <2>1, <2>4, <2>7 DEF LiveIsCurrent
  <2>9. \A m \in queue : m # next => arrival[next] < arrival[m]
    BY <2>1, <2>5 DEF ScopedInv, EnqueuedOnce, TurnsInOrder, Enqueued, TypeOK
  <2>10. QueueWaits'
    BY <2>1, <2>3, <2>4, <2>7, <2>9 DEF ScopedInv, QueueWaits, TypeOK
  <2> QED
    BY <2>1, <2>6, <2>8, <2>10 DEF ScopedInv, treeVars, clearVars
<1> QED
  BY <1>4, <1>5 DEF ProcessNext

\* A step of a task that only moves the task on keeps all but StopIsDelivered.
LEMMA TaskMoveKeeps ==
    ASSUME TypeOK, ScopedInv, NEW n \in Nodes, Live(n),
           pc' = pc \/ \E phase \in Phases \ {"none"} : pc' = [pc EXCEPT ![n] = phase],
           UNCHANGED <<treeVars, queueVars, procVars, clearVars>>,
           StopIsDelivered'
    PROVE  ScopedInv'
<1> USE DEF Live, Executing
<1>1. Enqueued' = Enqueued
  BY DEF Enqueued, queueVars
<1>2. \A m \in Nodes : Live(m)' => Live(m)
  BY DEF TypeOK
<1>3. arrival[n] # 0 /\ n \notin queue
  BY DEF ScopedInv, EnqueuedOnce, QueueWaits
<1>4. \A m \in Nodes : pc[m] = "none" /\ m # n => pc'[m] = "none"
  BY DEF TypeOK
<1>5. EnqueuedOnce' /\ TurnsInOrder'
  BY <1>1, <1>3, <1>4
  DEF ScopedInv, EnqueuedOnce, TurnsInOrder, treeVars, queueVars, TypeOK
<1>6. LiveIsCurrent' /\ QueueWaits'
  BY <1>2, <1>3, <1>4
  DEF ScopedInv, LiveIsCurrent, QueueWaits, treeVars, queueVars, procVars, TypeOK
<1> QED
  BY <1>5, <1>6 DEF ScopedInv, treeVars, queueVars, clearVars

\* So does a command that takes nodes off the queue or out of the tree.
LEMMA CommandKeeps ==
    ASSUME TypeOK, ScopedInv,
           queue' \subseteq queue, nodes' \subseteq nodes, pc' = pc,
           attached' => attached /\ UNCHANGED procVars,
           ~attached' /\ attached => queue' = {},
           currentTask' = currentTask,
           UNCHANGED <<parent, sending, arrival, clearingAll>>,
           StopIsDelivered'
    PROVE  ScopedInv'
<1> USE DEF Live, Executing
<1>1. Enqueued' = Enqueued
  BY DEF Enqueued
<1>2. EnqueuedOnce'
  BY <1>1 DEF ScopedInv, EnqueuedOnce, TypeOK
<1>3. TurnsInOrder'
  BY <1>1 DEF ScopedInv, TurnsInOrder, TypeOK
<1>4. LiveIsCurrent'
  BY DEF ScopedInv, LiveIsCurrent, procVars, TypeOK
<1>5. QueueWaits'
  BY DEF ScopedInv, QueueWaits, TypeOK
<1> QED
  BY <1>2, <1>3, <1>4, <1>5 DEF ScopedInv

\* A running node that waits for the CLI and can be reached was not stopped.
LEMMA AwaitingNotStopped ==
    ASSUME ScopedInv, NEW n \in Nodes, Awaiting(n), Reachable(n)
    PROVE  reason[n] # "cancelled"
BY DEF ScopedInv, StopIsDelivered, Awaiting, Reachable

\* Marking a failure does not touch a stopped node.
LEMMA FailureKeepsStops ==
    ASSUME TypeOK, ScopedInv, NEW n \in Nodes, Awaiting(n), NEW m \in Nodes,
           MarkedReason(n)[m] = "cancelled"
    PROVE  m \notin Affected(n) /\ reason[m] = "cancelled"
BY DEF MarkedReason

\* Cancelling the nodes of a branch cancels the task of the one that runs.
LEMMA CancelNodesDelivers ==
    ASSUME TypeOK, ScopedInv, attached, NEW S, CancelNodes(S), UNCHANGED <<pc, nodes>>
    PROVE  StopIsDelivered'
<1> USE DEF Live, Executing
<1>1. ASSUME NEW m \in Nodes, reason'[m] = "cancelled"
      PROVE  state'[m] = "error"
  BY <1>1 DEF CancelNodes, ScopedInv, StopIsDelivered
<1>2. ASSUME NEW m \in Nodes, reason'[m] = "cancelled", pc[m] = "running", m \in nodes
      PROVE  cancelReq'[m]
  <2>1. currentTask = m /\ currentNode = m
    BY <1>2 DEF ScopedInv, LiveIsCurrent
  <2>2. CASE m \in S /\ ~Terminal(m)
    <3>1. currentNode \in {k \in S \cap nodes : ~Terminal(k)}
      BY <1>2, <2>1, <2>2
    <3>2. CancelCurrentTask
      BY <3>1 DEF CancelNodes
    <3>3. CurrentTaskLive
      BY <1>2, <2>1, NoNodeAssumption DEF CurrentTaskLive
    <3> QED
      BY <2>1, <3>2, <3>3 DEF CancelCurrentTask, TypeOK
  <2>3. CASE ~(m \in S /\ ~Terminal(m))
    <3>1. reason[m] = "cancelled"
      BY <1>2, <2>3 DEF CancelNodes
    <3>2. cancelReq[m]
      BY <1>2, <3>1 DEF ScopedInv, StopIsDelivered
    <3> QED
      BY <3>2 DEF CancelNodes, CancelCurrentTask, TypeOK
  <2> QED
    BY <2>2, <2>3
<1> QED
  BY <1>1, <1>2 DEF StopIsDelivered

\* So does cancelling the whole tree.
LEMMA CancelTreeDelivers ==
    ASSUME TypeOK, ScopedInv, attached, CancelTree, UNCHANGED <<pc, nodes>>
    PROVE  StopIsDelivered'
<1> USE DEF Live, Executing
<1>1. ASSUME NEW m \in Nodes, reason'[m] = "cancelled"
      PROVE  state'[m] = "error"
  BY <1>1 DEF CancelTree, ScopedInv, StopIsDelivered
<1>2. ASSUME NEW m \in Nodes, reason'[m] = "cancelled", pc[m] = "running", m \in nodes
      PROVE  cancelReq'[m]
  <2>1. currentTask = m /\ currentNode = m
    BY <1>2 DEF ScopedInv, LiveIsCurrent
  <2>2. CurrentTaskLive
    BY <1>2, <2>1, NoNodeAssumption DEF CurrentTaskLive
  <2> QED
    BY <2>1, <2>2 DEF CancelTree, CancelCurrentTask, TypeOK
<1> QED
  BY <1>1, <1>2 DEF StopIsDelivered

-----------------------------------------------------------------------------
(* Every action keeps the invariant.                                       *)

\* What the event loop and the CLI do for a node.
LEMMA TaskStepKeeps ==
    ASSUME TypeOK, ScopedInv, NEW n \in Nodes, TaskStep(n)
    PROVE  ScopedInv'
<1> USE DEF Live, Executing
<1>1. CASE DieUnstarted(n)
  <2>1. StopIsDelivered'
    BY <1>1 DEF DieUnstarted, ScopedInv, StopIsDelivered, treeVars, nodeVars, TypeOK
  <2> QED
    BY <1>1, <2>1, TaskMoveKeeps DEF DieUnstarted, Phases
<1>2. CASE Skip(n) \/ Finish(n)
  BY <1>2, ProcessNextKeeps DEF Skip, Finish
<1>3. CASE Start(n)
  <2>1. reason[n] # "cancelled"
    BY <1>3 DEF Start, ScopedInv, StopIsDelivered
  <2>2. StopIsDelivered'
    BY <1>3, <2>1 DEF Start, ScopedInv, StopIsDelivered, treeVars, TypeOK
  <2> QED
    BY <1>3, <2>2, TaskMoveKeeps DEF Start, Phases
<1>4. CASE SessionInfo(n)
  <2>1. reason[n] # "cancelled"
    BY <1>4, AwaitingNotStopped DEF SessionInfo
  <2>2. StopIsDelivered'
    BY <1>4, <2>1 DEF SessionInfo, ScopedInv, StopIsDelivered, treeVars, taskVars, TypeOK
  <2>3. pc' = pc
    BY <1>4 DEF SessionInfo, taskVars
  <2> QED
    BY <1>4, <2>2, <2>3, TaskMoveKeeps DEF SessionInfo, Awaiting
<1>5. ASSUME MarkNodeError(n), Awaiting(n), UNCHANGED <<nodes, cancelReq>>,
             pc' = pc \/ pc' = [pc EXCEPT ![n] = "closing"]
      PROVE  StopIsDelivered'
  BY <1>5, FailureKeepsStops DEF MarkNodeError, ScopedInv, StopIsDelivered, TypeOK
<1>6. CASE ErrorEvent(n)
  <2>1. pc' = pc /\ cancelReq' = cancelReq /\ nodes' = nodes
    BY <1>6 DEF ErrorEvent, taskVars, treeVars
  <2>2. StopIsDelivered'
    BY <1>6, <2>1, <1>5 DEF ErrorEvent
  <2> QED
    BY <1>6, <2>1, <2>2, TaskMoveKeeps DEF ErrorEvent, Awaiting
<1>7. CASE TaskFails(n)
  <2>1. StopIsDelivered'
    BY <1>7, <1>5 DEF TaskFails, treeVars
  <2> QED
    BY <1>7, <2>1, TaskMoveKeeps DEF TaskFails, Awaiting, Phases
<1>8. CASE ExitZero(n)
  <2>1. Reachable(n) => reason[n] # "cancelled"
    BY <1>8, AwaitingNotStopped DEF ExitZero
  <2>2. StopIsDelivered'
    BY <1>8, <2>1 DEF ExitZero, ScopedInv, StopIsDelivered, treeVars, TypeOK
  <2> QED
    BY <1>8, <2>2, TaskMoveKeeps DEF ExitZero, Awaiting, Phases
<1>9. CASE ExitNonZero(n)
  <2>1. Reachable(n) => reason[n] # "cancelled"
    BY <1>9, AwaitingNotStopped DEF ExitNonZero
  <2>2. ASSUME NEW m \in Nodes, reason'[m] = "cancelled"
        PROVE  m \notin Affected(n) /\ reason[m] = "cancelled" /\ ~(m = n /\ Reachable(n))
    BY <1>9, <2>1, <2>2, FailureKeepsStops DEF ExitNonZero
  <2>3. StopIsDelivered'
    BY <1>9, <2>2 DEF ExitNonZero, ScopedInv, StopIsDelivered, treeVars, TypeOK
  <2> QED
    BY <1>9, <2>3, TaskMoveKeeps DEF ExitNonZero, Awaiting, Phases
<1>10. CASE DeliverCancel(n)
  <2>1. StopIsDelivered'
    BY <1>10 DEF DeliverCancel, ScopedInv, StopIsDelivered, treeVars, TypeOK
  <2> QED
    BY <1>10, <2>1, TaskMoveKeeps DEF DeliverCancel, Phases
<1> QED
  BY <1>1, <1>2, <1>3, <1>4, <1>6, <1>7, <1>8, <1>9, <1>10 DEF TaskStep

\* The arrival of messages.
LEMMA MessageStepKeeps ==
    ASSUME TypeOK, NoIdleBacklog, ScopedInv, MessageStep
    PROVE  ScopedInv'
<1> USE RootAssumption DEF Live, Executing
<1>1. CASE CreateTree
  <2>1. Enqueued = {} /\ nodes' \subseteq nodes \cup {Root} /\ sending \subseteq sending \ {Root}
    BY <1>1 DEF CreateTree, ScopedInv, EnqueuedOnce
  <2> QED
    BY <1>1, <2>1, EnqueueKeeps DEF CreateTree, nodeVars, clearVars
<1>2. ASSUME NEW n \in Nodes, Admit(n) PROVE ScopedInv'
  <2>1. n # Root /\ parent[n] # NoNode /\ arrival[n] = 0
    BY <1>2 DEF Admit, CanBeAdded, add_node, ScopedInv, EnqueuedOnce
  <2>2. CASE attached /\ parent[n] \in nodes
    <3>1. arrival[parent[n]] # 0 /\ arrival[Root] # 0
      BY <2>2 DEF ScopedInv, EnqueuedOnce, TypeOK
    <3> QED
      BY <1>2, <2>1, <2>2, <3>1, EnqueueKeeps DEF Admit, CanBeAdded, add_node, nodeVars, clearVars
  <2>3. CASE ~(attached /\ parent[n] \in nodes)
    <3>1. Enqueued' = Enqueued
      BY <1>2, <2>3 DEF Admit, CanBeAdded, add_node, Enqueued, queueVars
    <3> QED
      BY <1>2, <2>3, <3>1
      DEF Admit, CanBeAdded, add_node, ScopedInv, EnqueuedOnce, TurnsInOrder, LiveIsCurrent, QueueWaits,
          StopIsDelivered, nodeVars, queueVars, procVars, clearVars
  <2> QED
    BY <2>2, <2>3
<1>3. ASSUME NEW n \in Nodes, SendFails(n) PROVE ScopedInv'
  <2>1. Enqueued' = Enqueued
    BY <1>3 DEF SendFails, Enqueued, queueVars
  <2> QED
    BY <1>3, <2>1
    DEF SendFails, ScopedInv, EnqueuedOnce, TurnsInOrder, LiveIsCurrent, QueueWaits,
        StopIsDelivered, nodeVars, queueVars, procVars, taskVars, clearVars
<1>4. ASSUME NEW n \in Nodes, NEW p \in Nodes, Receive(n, p) PROVE ScopedInv'
  <2>1. Enqueued' = Enqueued /\ n # Root /\ arrival[n] = 0 /\ p # NoNode
    BY <1>4, NoNodeAssumption DEF Receive, Resolves, Enqueued, queueVars, ScopedInv, EnqueuedOnce
  <2>2. parent' = [parent EXCEPT ![n] = p] /\ sending' = sending \cup {n}
    BY <1>4 DEF Receive, Resolves
  <2>3. UNCHANGED <<nodes, attached, state, reason, arrival, queue, procVars, pc, cancelReq,
                    clearingAll>>
    BY <1>4 DEF Receive, Resolves, nodeVars, queueVars, taskVars, clearVars
  <2>4. EnqueuedOnce' /\ TurnsInOrder'
    BY <2>1, <2>2, <2>3 DEF ScopedInv, EnqueuedOnce, TurnsInOrder, TypeOK
  <2>5. LiveIsCurrent' /\ QueueWaits' /\ StopIsDelivered'
    BY <2>3 DEF ScopedInv, LiveIsCurrent, QueueWaits, StopIsDelivered, procVars
  <2> QED
    BY <2>3, <2>4, <2>5 DEF ScopedInv
<1> QED
  BY <1>1, <1>2, <1>3, <1>4 DEF MessageStep

\* Commands, none of which stops the whole chat.
LEMMA CommandStepKeeps ==
    ASSUME ScopedCommands, TypeOK, ScopedInv, CommandStep
    PROVE  ScopedInv'
<1>1. ~StopAll /\ ~ClearAll /\ ~ReplaceTreeQueue
  BY DEF ScopedCommands, StopAll, ClearAll, ReplaceTreeQueue, ScopedInv
<1>2. ASSUME NEW n \in Nodes, Stop(n) PROVE ScopedInv'
  <2>1. StopIsDelivered'
    BY <1>2, CancelNodesDelivers DEF Stop, treeVars
  <2> QED
    BY <1>2, <2>1, CommandKeeps DEF Stop, CancelNodes, treeVars, procVars, clearVars
<1>3. ASSUME NEW n \in Nodes, ClearBranch(n) PROVE ScopedInv'
  <2>1. StopIsDelivered'
    BY <1>3, CancelNodesDelivers DEF ClearBranch, cancel_branch, treeVars
  <2> QED
    BY <1>3, <2>1, CommandKeeps DEF ClearBranch, cancel_branch, CancelNodes, treeVars, procVars
<1>4. ASSUME NEW n \in Nodes, RemoveBranch(n) PROVE ScopedInv'
  <2>1. CASE attached /\ n = Root
    <3>1. CancelTree /\ UNCHANGED <<pc, nodes>>
      BY <1>4, <2>1 DEF RemoveBranch, WithoutBranch, remove_tree
    <3>2. StopIsDelivered'
      BY <2>1, <3>1, CancelTreeDelivers
    <3> QED
      BY <1>4, <2>1, <3>1, <3>2, CommandKeeps DEF RemoveBranch, WithoutBranch, remove_tree, CancelTree
  <2>2. CASE ~(attached /\ n = Root)
    <3>1. UNCHANGED <<attached, state, reason, cancelReq, queue, procVars, parent, sending,
                      arrival, pc, clearingAll>> /\ nodes' \subseteq nodes
      BY <1>4, <2>2 DEF RemoveBranch, WithoutBranch, remove_tree
    <3>2. StopIsDelivered'
      BY <3>1 DEF ScopedInv, StopIsDelivered
    <3> QED
      BY <3>1, <3>2, CommandKeeps DEF procVars
  <2> QED
    BY <2>1, <2>2
<1> QED
  BY <1>1, <1>2, <1>3, <1>4 DEF CommandStep

\* The inductive invariant.
LEMMA ScopedInvHolds ==
    ASSUME ScopedCommands
    PROVE  Spec => [](TypeOK /\ ScopedInv)
<1>1. Init => TypeOK /\ NoIdleBacklog /\ ScopedInv
  <2> SUFFICES ASSUME Init PROVE NoIdleBacklog /\ ScopedInv
    BY TypeInit
  <2>1. Enqueued = {}
    BY DEF Init, Enqueued
  <2>2. IsFiniteSet({}) /\ Cardinality(Enqueued) = 0
    BY <2>1, FS_EmptySet
  <2>3. TurnsInOrder
    BY <2>1, <2>2 DEF Init, TurnsInOrder
  <2> QED
    BY <2>1, <2>3, RootAssumption
    DEF Init, ScopedInv, EnqueuedOnce, LiveIsCurrent, QueueWaits, StopIsDelivered,
        Live, Executing, NoIdleBacklog
<1>2. TypeOK /\ NoIdleBacklog /\ ScopedInv /\ [Next]_vars => ScopedInv'
  <2> SUFFICES ASSUME TypeOK, NoIdleBacklog, ScopedInv, [Next]_vars PROVE ScopedInv'
    OBVIOUS
  <2>1. CASE MessageStep
    BY <2>1, MessageStepKeeps
  <2>2. CASE CommandStep
    BY <2>2, CommandStepKeeps
  <2>3. CASE \E n \in Nodes : TaskStep(n)
    BY <2>3, TaskStepKeeps
  <2>4. CASE UNCHANGED vars
    BY <2>4
    DEF vars, treeVars, nodeVars, queueVars, procVars, taskVars, clearVars, ScopedInv,
        EnqueuedOnce, TurnsInOrder, LiveIsCurrent, QueueWaits, StopIsDelivered, Live,
        Executing, Enqueued
  <2> QED
    BY <2>1, <2>2, <2>3, <2>4 DEF Next
<1> QED
  BY <1>1, <1>2, TypeCorrect, NoIdleBacklogHolds, PTL DEF Spec

-----------------------------------------------------------------------------
(* The properties.                                                         *)

\* Where users stop and clear single messages and branches only, a conversation
\* never has two CLIs at work.
THEOREM OneAtATimeHolds ==
    ASSUME ScopedCommands
    PROVE  Spec => []OneAtATime
<1>1. ScopedInv => OneAtATime
  BY DEF ScopedInv, LiveIsCurrent, OneAtATime, Live
<1> QED
  BY <1>1, ScopedInvHolds, PTL

\* There a reply is not worked on before the message it replies to is over with.
THEOREM ReplyAfterParentHolds ==
    ASSUME ScopedCommands
    PROVE  Spec => []ReplyAfterParent
<1>1. TypeOK /\ ScopedInv => ReplyAfterParent
  <2> SUFFICES ASSUME TypeOK, ScopedInv, NEW n \in Nodes, Live(n), parent[n] # NoNode
               PROVE  parent[n] \notin queue /\ ~Live(parent[n])
    BY DEF ReplyAfterParent
  <2>1. arrival[n] # 0 /\ parent[n] \in Nodes
    BY DEF ScopedInv, EnqueuedOnce, Live, Executing, TypeOK
  <2>2. arrival[parent[n]] < arrival[n] /\ arrival[n] \in Nat /\ arrival[parent[n]] \in Nat
    BY <2>1 DEF ScopedInv, TurnsInOrder, TypeOK
  <2>3. parent[n] \notin queue
    BY <2>2 DEF ScopedInv, QueueWaits
  <2>4. ~Live(parent[n])
    BY <2>1, <2>2 DEF ScopedInv, LiveIsCurrent
  <2> QED
    BY <2>3, <2>4
<1> QED
  BY <1>1, ScopedInvHolds, PTL

\* There a request that was reported as stopped stays stopped.
THEOREM StoppedNeverCompletesHolds ==
    ASSUME ScopedCommands
    PROVE  Spec => []StoppedNeverCompletes
<1>1. ScopedInv => StoppedNeverCompletes
  BY DEF ScopedInv, StopIsDelivered, StoppedNeverCompletes
<1> QED
  BY <1>1, ScopedInvHolds, PTL

\* There a tree that was dropped is quiet: its one task was cancelled with it.
THEOREM DroppedTreeIsQuietHolds ==
    ASSUME ScopedCommands
    PROVE  Spec => []DroppedTreeIsQuiet
<1> USE DEF Live, Executing
<1>1. Init => DroppedTreeIsQuiet
  BY RootAssumption DEF Init, DroppedTreeIsQuiet
<1>2. ASSUME TypeOK, ScopedInv, DroppedTreeIsQuiet, [Next]_vars
      PROVE  DroppedTreeIsQuiet'
  <2> USE DEF DroppedTreeIsQuiet
  <2>1. ASSUME UNCHANGED <<attached, pc, cancelReq>>, arrival'[Root] = arrival[Root]
        PROVE  DroppedTreeIsQuiet'
    BY <1>2, <2>1
  <2>2. ASSUME ~attached, arrival[Root] # 0, NEW n \in Nodes, Live(n)
        PROVE  cancelReq[n] \/ pc[n] = "closing"
    BY <1>2, <2>2
  <2>3. CASE MessageStep
    <3>1. CASE CreateTree
      BY <3>1 DEF CreateTree
    <3>2. ASSUME NEW n \in Nodes, Admit(n) PROVE DroppedTreeIsQuiet'
      <4>1. CASE CanBeAdded(n)
        BY <3>2, <4>1 DEF Admit, CanBeAdded
      <4>2. CASE ~CanBeAdded(n)
        BY <3>2, <4>2, <2>1 DEF Admit, queueVars
      <4> QED
        BY <4>1, <4>2
    <3>3. ASSUME NEW n \in Nodes, SendFails(n) PROVE DroppedTreeIsQuiet'
      BY <3>3, <2>1 DEF SendFails, queueVars, taskVars
    <3>4. ASSUME NEW n \in Nodes, NEW p \in Nodes, Receive(n, p) PROVE DroppedTreeIsQuiet'
      BY <3>4, <2>1 DEF Receive, queueVars, taskVars
    <3> QED
      BY <2>3, <3>1, <3>2, <3>3, <3>4 DEF MessageStep
  <2>4. CASE CommandStep
    <3>1. ~StopAll /\ ~ClearAll /\ ~ReplaceTreeQueue
      BY <1>2 DEF ScopedCommands, StopAll, ClearAll, ReplaceTreeQueue, ScopedInv
    <3>2. ASSUME NEW n \in Nodes, Stop(n) \/ ClearBranch(n) PROVE DroppedTreeIsQuiet'
      BY <3>2 DEF Stop, ClearBranch, treeVars
    <3>3. ASSUME NEW n \in Nodes, RemoveBranch(n) PROVE DroppedTreeIsQuiet'
      <4>1. CASE attached /\ n = Root
        <5>1. CancelTree /\ pc' = pc
          BY <3>3, <4>1 DEF RemoveBranch
        <5>2. ASSUME NEW m \in Nodes, Live(m) PROVE cancelReq'[m]
          <6>1. currentTask = m /\ CurrentTaskLive
            BY <1>2, <5>2, NoNodeAssumption DEF ScopedInv, LiveIsCurrent, CurrentTaskLive
          <6> QED
            BY <1>2, <5>1, <6>1 DEF CancelTree, CancelCurrentTask, TypeOK
        <5> QED
          BY <5>1, <5>2
      <4>2. CASE ~(attached /\ n = Root)
        BY <3>3, <4>2, <2>1 DEF RemoveBranch
      <4> QED
        BY <4>1, <4>2
    <3> QED
      BY <2>4, <3>1, <3>2, <3>3 DEF CommandStep
  <2>5. ASSUME NEW n \in Nodes, TaskStep(n) PROVE DroppedTreeIsQuiet'
    <3>1. attached' = attached /\ arrival' = arrival /\ cancelReq' = cancelReq
      BY <2>5
      DEF TaskStep, DieUnstarted, Skip, Start, SessionInfo, ErrorEvent, TaskFails, ExitZero,
          ExitNonZero, DeliverCancel, Finish, treeVars, queueVars, taskVars
    <3> SUFFICES ASSUME ~attached, arrival[Root] # 0, NEW m \in Nodes, Live(m)'
                 PROVE  cancelReq[m] \/ pc'[m] = "closing"
      BY <3>1
    <3>2. queue = {}
      BY <1>2 DEF ScopedInv
    <3>3. CASE m # n
      <4>1. pc'[m] = pc[m]
        BY <1>2, <2>5, <3>2, <3>3
        DEF TaskStep, DieUnstarted, Skip, Start, SessionInfo, ErrorEvent, TaskFails, ExitZero,
            ExitNonZero, DeliverCancel, Finish, ProcessNext, MarkFree, Dequeue, IsHead,
            taskVars, TypeOK
      <4> QED
        BY <4>1, <2>2
    <3>4. CASE m = n
      <4>1. CASE pc' = pc
        BY <3>4, <4>1, <2>2
      <4>2. CASE Start(n)
        <5>1. pc[n] = "created" /\ ~cancelReq[n]
          BY <4>2 DEF Start
        <5> QED
          BY <5>1, <2>2
      <4>3. CASE pc' # pc /\ ~Start(n)
        BY <1>2, <2>5, <3>2, <3>4, <4>3
        DEF TaskStep, DieUnstarted, Skip, SessionInfo, ErrorEvent, TaskFails, ExitZero,
            ExitNonZero, DeliverCancel, Finish, ProcessNext, MarkFree, Dequeue, IsHead,
            taskVars, TypeOK
      <4> QED
        BY <4>1, <4>2, <4>3
    <3> QED
      BY <3>3, <3>4
  <2>6. CASE UNCHANGED vars
    BY <2>6, <2>1 DEF vars, treeVars, queueVars, taskVars
  <2> QED
    BY <1>2, <2>3, <2>4, <2>5, <2>6 DEF Next
<1> QED
  BY <1>1, <1>2, ScopedInvHolds, PTL DEF Spec

-----------------------------------------------------------------------------
(* Nothing is in limbo, whatever the commands.                             *)

\* Enqueueing a node that was not enqueued keeps the invariant.
LEMMA EnqueueKeepsLimbo ==
    ASSUME TypeOK, LimboInv, NEW n \in Nodes, arrival[n] = 0, Enqueue(n),
           attached' = TRUE, sending' \subseteq sending \ {n},
           UNCHANGED <<parent, state, cancelReq>>,
           IF n = Root THEN nodes' = {n}
           ELSE attached /\ parent[n] # NoNode /\ nodes' = nodes \cup {n}
    PROVE  LimboInv'
<1> USE DEF LimboInv
<1>1. arrival'[n] # 0 /\ \A m \in Nodes \ {n} : arrival'[m] = arrival[m]
  BY NextTurn DEF Enqueue, TypeOK
<1>2. /\ pc[n] = "none" /\ n \notin queue /\ n # currentNode /\ ~cancelReq[n]
      /\ \A m \in Nodes \ {n} : pc'[m] = pc[m]
      /\ queue \subseteq queue' /\ queue' \subseteq queue \cup {n}
      /\ n \in queue' \/ pc'[n] = "created"
  BY DEF Enqueue, EnqueuedOnce, CurrentIsKnown, TypeOK
<1>3. EnqueuedOnce'
  <2>1. n = Root \/ arrival[Root] # 0
    BY DEF EnqueuedOnce
  <2>2. arrival'[Root] # 0
    BY <1>1, <2>1, RootAssumption
  <2> QED
    BY <1>1, <1>2, <2>2 DEF EnqueuedOnce, TypeOK
<1>4. CurrentIsKnown'
  <2>1. UNCHANGED <<currentNode, currentTask>> \/ (currentNode' = n /\ currentTask' = n)
    BY DEF Enqueue, procVars
  <2>2. nodes' \subseteq nodes \cup {n}
    OBVIOUS
  <2> QED
    BY <1>1, <1>2, <2>1, <2>2 DEF CurrentIsKnown
<1>5. CancelledIsMarked' /\ PendingMeansQueued'
  BY <1>2 DEF CancelledIsMarked, PendingMeansQueued, TypeOK
<1> QED
  BY <1>3, <1>4, <1>5

\* So does handing the tree over, unless the node that ends has not been started.
LEMMA ProcessNextKeepsLimbo ==
    ASSUME TypeOK, LimboInv, NEW last \in Nodes, ProcessNext(last),
           pc[last] # "none", pc[last] = "created" => state[last] # "pending",
           UNCHANGED <<treeVars, nodeVars, arrival, cancelReq, clearVars>>
    PROVE  LimboInv'
<1> USE DEF LimboInv
<1>1. Enqueued' = Enqueued /\ arrival[last] # 0
  BY DEF Enqueued, EnqueuedOnce
<1>2. CASE MarkFree(last)
  BY <1>1, <1>2, NoNodeAssumption
  DEF MarkFree, EnqueuedOnce, CurrentIsKnown, CancelledIsMarked, PendingMeansQueued,
      treeVars, nodeVars, TypeOK
<1>3. ASSUME NEW next \in Nodes, Dequeue(last, next) PROVE LimboInv'
  <2>1. next \in queue /\ arrival[next] # 0
    BY <1>3 DEF Dequeue, IsHead, EnqueuedOnce
  <2>2. /\ queue' = queue \ {next} /\ currentNode' = next
        /\ \A m \in Nodes \ {last, next} : pc'[m] = pc[m]
        /\ next \in nodes => currentTask' = next /\ pc'[next] = "created"
        /\ next \notin nodes => currentTask' = currentTask
    BY <1>3 DEF Dequeue, TypeOK
  <2>3. EnqueuedOnce'
    BY <1>1, <2>1, <2>2 DEF EnqueuedOnce, treeVars, TypeOK
  <2>4. CurrentIsKnown' /\ CancelledIsMarked'
    BY <2>1, <2>2 DEF CurrentIsKnown, CancelledIsMarked, treeVars, nodeVars
  <2>5. PendingMeansQueued'
    BY <2>2 DEF PendingMeansQueued, treeVars, nodeVars, TypeOK
  <2> QED
    BY <2>3, <2>4, <2>5
<1> QED
  BY <1>2, <1>3 DEF ProcessNext

\* And so does a step of a task that is not about to start, or is started or was cancelled.
LEMMA TaskMoveKeepsLimbo ==
    ASSUME TypeOK, LimboInv, NEW n \in Nodes, pc[n] # "none",
           \A m \in Nodes \ {n} : pc'[m] = pc[m], pc' \in [Nodes -> Phases],
           pc[n] = "created" /\ pc'[n] # "created" /\ attached /\ n \in nodes =>
               state'[n] # "pending",
           \A m \in Nodes : state'[m] = "pending" => state[m] = "pending",
           UNCHANGED <<treeVars, queueVars, procVars, cancelReq>>
    PROVE  LimboInv'
<1> USE DEF LimboInv
<1>1. Enqueued' = Enqueued /\ arrival[n] # 0
  BY DEF Enqueued, EnqueuedOnce, queueVars
<1>2. EnqueuedOnce' /\ CurrentIsKnown' /\ CancelledIsMarked'
  BY <1>1
  DEF EnqueuedOnce, CurrentIsKnown, CancelledIsMarked, treeVars, queueVars, procVars, TypeOK
<1>3. PendingMeansQueued'
  BY DEF PendingMeansQueued, treeVars, queueVars, TypeOK
<1> QED
  BY <1>2, <1>3

\* A command marks every node whose task it cancels, or whose place it takes away.
LEMMA CancelKeepsLimbo ==
    ASSUME TypeOK, LimboInv, attached, NEW S, (CancelNodes(S) /\ UNCHANGED procVars) \/ CancelTree,
           nodes' = nodes, parent' = parent, sending' = sending, arrival' = arrival, pc' = pc
    PROVE  LimboInv'
<1> USE DEF LimboInv
<1>1. \A n \in Nodes : cancelReq'[n] => cancelReq[n] \/ (n = currentTask /\ CurrentTaskLive)
  BY DEF CancelNodes, CancelTree, CancelCurrentTask, TypeOK
<1>2. CASE CancelTree
  <2>1. \A n \in nodes : state'[n] # "pending"
    BY <1>2 DEF CancelTree, Terminal, TypeOK, MessageState
  <2> QED
    BY <1>1, <1>2, <2>1, NoNodeAssumption
    DEF CancelTree, EnqueuedOnce, CurrentIsKnown, CancelledIsMarked, PendingMeansQueued, TypeOK,
        Enqueued
<1>3. CASE CancelNodes(S) /\ UNCHANGED procVars
  <2>1. \A n \in nodes : state'[n] = "pending" =>
            state[n] = "pending" /\ (n \in queue => n \in queue') /\ n \notin S
    BY <1>3 DEF CancelNodes, Terminal, TypeOK
  <2>2. ASSUME NEW n \in nodes, cancelReq'[n] PROVE state'[n] # "pending"
    <3>1. CASE cancelReq[n]
      BY <2>1, <3>1 DEF CancelledIsMarked
    <3>2. CASE ~cancelReq[n]
      <4>1. currentNode \in {k \in S \cap nodes : ~Terminal(k)} /\ n = currentTask
        BY <1>1, <1>3, <2>2, <3>2 DEF CancelNodes, TypeOK
      <4>2. n = currentNode
        BY <4>1 DEF CurrentIsKnown
      <4> QED
        BY <2>1, <4>1, <4>2
    <3> QED
      BY <3>1, <3>2
  <2>3. queue' \subseteq queue
    BY <1>3 DEF CancelNodes
  <2>4. CurrentIsKnown'
    <3>1. ASSUME NEW n \in Nodes, arrival[n] = 0 PROVE ~cancelReq'[n]
      BY <1>1, <3>1 DEF CurrentIsKnown
    <3> QED
      BY <1>3, <3>1 DEF CurrentIsKnown, procVars
  <2> QED
    BY <2>1, <2>2, <2>3, <2>4
    DEF EnqueuedOnce, Enqueued, CancelledIsMarked, PendingMeansQueued
<1> QED
  BY <1>2, <1>3

\* Every step of a task keeps the invariant.
LEMMA TaskStepKeepsLimbo ==
    ASSUME TypeOK, LimboInv, NEW n \in Nodes, TaskStep(n)
    PROVE  LimboInv'
<1>1. CASE Skip(n) \/ Finish(n)
  BY <1>1, ProcessNextKeepsLimbo DEF Skip, Finish
<1>2. ASSUME ~Skip(n), ~Finish(n) PROVE UNCHANGED <<treeVars, queueVars, procVars, cancelReq>>
  BY <1>2
  DEF TaskStep, DieUnstarted, Start, SessionInfo, ErrorEvent, TaskFails, ExitZero,
      ExitNonZero, DeliverCancel, taskVars
<1>3. CASE DieUnstarted(n)
  <2>1. attached /\ n \in nodes => state[n] # "pending"
    BY <1>3 DEF DieUnstarted, LimboInv, CancelledIsMarked
  <2> QED
    BY <1>3, <2>1, TaskMoveKeepsLimbo DEF DieUnstarted, nodeVars, TypeOK, Phases
<1>4. CASE Start(n)
  BY <1>4, TaskMoveKeepsLimbo DEF Start, TypeOK, Phases
<1>5. CASE SessionInfo(n)
  BY <1>5, <1>2, TaskMoveKeepsLimbo DEF SessionInfo, Awaiting, Reachable, taskVars, TypeOK, Phases
<1>6. CASE ErrorEvent(n)
  BY <1>6, TaskMoveKeepsLimbo
  DEF ErrorEvent, MarkNodeError, Awaiting, taskVars, TypeOK, Phases
<1>7. CASE TaskFails(n)
  BY <1>7, TaskMoveKeepsLimbo DEF TaskFails, MarkNodeError, Awaiting, TypeOK, Phases
<1>8. CASE ExitZero(n)
  BY <1>8, TaskMoveKeepsLimbo DEF ExitZero, Awaiting, TypeOK, Phases
<1>9. CASE ExitNonZero(n)
  BY <1>9, TaskMoveKeepsLimbo DEF ExitNonZero, Awaiting, TypeOK, Phases
<1>10. CASE DeliverCancel(n)
  BY <1>10, TaskMoveKeepsLimbo DEF DeliverCancel, TypeOK, Phases
<1> QED
  BY <1>1, <1>3, <1>4, <1>5, <1>6, <1>7, <1>8, <1>9, <1>10 DEF TaskStep

\* So does the arrival of messages ...
LEMMA MessageStepKeepsLimbo ==
    ASSUME TypeOK, LimboInv, MessageStep
    PROVE  LimboInv'
<1>1. CASE CreateTree
  <2>1. sending \subseteq sending \ {Root}
    BY DEF LimboInv, EnqueuedOnce
  <2> QED
    BY <1>1, <2>1, RootAssumption, EnqueueKeepsLimbo DEF CreateTree, nodeVars
<1>2. ASSUME NEW n \in Nodes, Admit(n) PROVE LimboInv'
  <2>1. n # Root /\ parent[n] # NoNode /\ arrival[n] = 0
    BY <1>2 DEF Admit, LimboInv, EnqueuedOnce
  <2>2. CASE CanBeAdded(n)
    BY <1>2, <2>1, <2>2, EnqueueKeepsLimbo DEF Admit, CanBeAdded, add_node, nodeVars
  <2>3. CASE ~CanBeAdded(n)
    BY <1>2, <2>3
    DEF Admit, LimboInv, EnqueuedOnce, CurrentIsKnown, CancelledIsMarked, PendingMeansQueued,
        nodeVars, queueVars, procVars, Enqueued
  <2> QED
    BY <2>2, <2>3
<1>3. ASSUME NEW n \in Nodes, SendFails(n) PROVE LimboInv'
  BY <1>3
  DEF SendFails, LimboInv, EnqueuedOnce, CurrentIsKnown, CancelledIsMarked, PendingMeansQueued,
      nodeVars, queueVars, procVars, taskVars, Enqueued
<1>4. ASSUME NEW n \in Nodes, NEW p \in Nodes, Receive(n, p) PROVE LimboInv'
  <2>1. n # Root /\ arrival[n] = 0 /\ p # NoNode
    BY <1>4, NoNodeAssumption DEF Receive, LimboInv, EnqueuedOnce
  <2>2. /\ parent' = [parent EXCEPT ![n] = p] /\ sending' = sending \cup {n}
        /\ UNCHANGED <<nodes, attached, nodeVars, queueVars, procVars, taskVars>>
    BY <1>4 DEF Receive
  <2>3. EnqueuedOnce'
    BY <2>1, <2>2 DEF LimboInv, EnqueuedOnce, queueVars, taskVars, Enqueued, TypeOK
  <2>4. CurrentIsKnown' /\ CancelledIsMarked' /\ PendingMeansQueued'
    BY <2>2
    DEF LimboInv, CurrentIsKnown, CancelledIsMarked, PendingMeansQueued, nodeVars, queueVars,
        procVars, taskVars
  <2> QED
    BY <2>3, <2>4 DEF LimboInv
<1> QED
  BY <1>1, <1>2, <1>3, <1>4 DEF MessageStep

\* ... and every command.
LEMMA CommandStepKeepsLimbo ==
    ASSUME TypeOK, LimboInv, CommandStep
    PROVE  LimboInv'
<1>1. CASE StopAll \/ ClearAll
  BY <1>1, CancelKeepsLimbo DEF StopAll, ClearAll, treeVars
<1>2. ASSUME NEW n \in Nodes, Stop(n) \/ ClearBranch(n) PROVE LimboInv'
  BY <1>2, CancelKeepsLimbo DEF Stop, ClearBranch, cancel_branch, treeVars
<1>3. ASSUME NEW n \in Nodes, RemoveBranch(n) PROVE LimboInv'
  <2>1. CASE attached /\ n = Root
    BY <1>3, <2>1, CancelKeepsLimbo DEF RemoveBranch
  <2>2. CASE ~(attached /\ n = Root)
    <3>1. /\ UNCHANGED <<attached, state, cancelReq, queue, procVars, parent, sending, arrival, pc>>
          /\ nodes' \subseteq nodes
      BY <1>3, <2>2 DEF RemoveBranch, WithoutBranch
    <3> QED
      BY <3>1
      DEF LimboInv, EnqueuedOnce, CurrentIsKnown, CancelledIsMarked, PendingMeansQueued,
          procVars, Enqueued
  <2> QED
    BY <2>1, <2>2
<1>4. CASE ReplaceTreeQueue
  BY <1>4
  DEF ReplaceTreeQueue, LimboInv, EnqueuedOnce, CurrentIsKnown, CancelledIsMarked,
      PendingMeansQueued, nodeVars, queueVars, procVars, taskVars, Enqueued
<1> QED
  BY <1>1, <1>2, <1>3, <1>4 DEF CommandStep

\* The invariant behind NothingInLimbo holds, whatever the commands.
LEMMA LimboInvHolds == Spec => []LimboInv
<1>1. Init => LimboInv
  BY RootAssumption, NoNodeAssumption
  DEF Init, LimboInv, EnqueuedOnce, CurrentIsKnown, CancelledIsMarked, PendingMeansQueued,
      Enqueued
<1>2. TypeOK /\ LimboInv /\ [Next]_vars => LimboInv'
  <2> SUFFICES ASSUME TypeOK, LimboInv, [Next]_vars PROVE LimboInv'
    OBVIOUS
  <2>1. CASE UNCHANGED vars
    BY <2>1
    DEF vars, treeVars, nodeVars, queueVars, procVars, taskVars, LimboInv, EnqueuedOnce,
        CurrentIsKnown, CancelledIsMarked, PendingMeansQueued, Enqueued
  <2> QED
    BY <2>1, TaskStepKeepsLimbo, MessageStepKeepsLimbo, CommandStepKeepsLimbo DEF Next
<1> QED
  BY <1>1, <1>2, TypeCorrect, PTL DEF Spec

\* Whatever the commands, no message is in limbo: a free tree has an empty queue, and a
\* node that is shown as waiting is on the queue or about to start.
THEOREM NothingInLimboHolds == Spec => []NothingInLimbo
<1>1. LimboInv /\ NoIdleBacklog => NothingInLimbo
  BY DEF LimboInv, NothingInLimbo
<1> QED
  BY <1>1, LimboInvHolds, NoIdleBacklogHolds, PTL

-----------------------------------------------------------------------------
(* A busy tree is worked on, whatever the commands.                        *)

\* A node that is enqueued is live if it becomes the current one.
LEMMA EnqueueKeepsBusy ==
    ASSUME TypeOK, LimboInv, BusyIsWorkedOn, NEW n \in Nodes, arrival[n] = 0, Enqueue(n),
           nodes' \subseteq nodes \cup {n}, cancelReq' = cancelReq
    PROVE  BusyIsWorkedOn'
<1>1. n # currentNode
  BY DEF LimboInv, CurrentIsKnown
<1>2. CASE isProcessing
  BY <1>1, <1>2 DEF Enqueue, procVars, BusyIsWorkedOn, Live, Executing
<1>3. CASE ~isProcessing
  BY <1>3 DEF Enqueue, BusyIsWorkedOn, Live, TypeOK
<1> QED
  BY <1>2, <1>3

\* A task that ends leaves the tree free, or to a node that is live or not of the tree.
LEMMA ProcessNextKeepsBusy ==
    ASSUME TypeOK, NEW last \in Nodes, ProcessNext(last), nodes' = nodes
    PROVE  BusyIsWorkedOn'
<1>1. CASE MarkFree(last)
  BY <1>1 DEF MarkFree, BusyIsWorkedOn
<1>2. ASSUME NEW next \in Nodes, Dequeue(last, next) PROVE BusyIsWorkedOn'
  BY <1>2 DEF Dequeue, BusyIsWorkedOn, Live, TypeOK
<1> QED
  BY <1>1, <1>2 DEF ProcessNext

\* A task that goes on, or that dies cancelled, does not change whose the tree is.
LEMMA TaskStepKeepsBusy ==
    ASSUME TypeOK, BusyIsWorkedOn, NEW n \in Nodes, TaskStep(n)
    PROVE  BusyIsWorkedOn'
<1>1. CASE Skip(n) \/ Finish(n)
  BY <1>1, ProcessNextKeepsBusy DEF Skip, Finish, treeVars
<1>2. ASSUME ~Skip(n), ~Finish(n)
      PROVE  /\ UNCHANGED <<nodes, isProcessing, currentNode, cancelReq>>
             /\ \A m \in Nodes : Live(m) /\ ~cancelReq[m] => Live(m)'
  <2>1. UNCHANGED <<nodes, isProcessing, currentNode, cancelReq>>
    BY <1>2
    DEF TaskStep, DieUnstarted, Start, SessionInfo, ErrorEvent, TaskFails, ExitZero,
        ExitNonZero, DeliverCancel, treeVars, procVars, taskVars
  <2>2. ASSUME NEW m \in Nodes, Live(m), ~cancelReq[m] PROVE Live(m)'
    BY <1>2, <2>2
    DEF TaskStep, DieUnstarted, Start, SessionInfo, ErrorEvent, TaskFails, ExitZero,
        ExitNonZero, DeliverCancel, taskVars, Live, Executing, TypeOK
  <2> QED
    BY <2>1, <2>2
<1> QED
  BY <1>1, <1>2 DEF BusyIsWorkedOn, TypeOK

\* Commands cancel tasks, free the tree or take nodes from it, and end no task.
LEMMA CommandStepKeepsBusy ==
    ASSUME TypeOK, BusyIsWorkedOn, CommandStep
    PROVE  BusyIsWorkedOn'
<1>1. ASSUME CancelTree PROVE ~isProcessing'
  BY <1>1 DEF CancelTree
<1>2. ASSUME NEW S, CancelNodes(S)
      PROVE  \A m \in Nodes : cancelReq[m] => cancelReq'[m]
  BY <1>2 DEF CancelNodes, CancelCurrentTask, TypeOK
<1>3. CASE StopAll \/ ClearAll
  BY <1>1, <1>3 DEF StopAll, ClearAll, BusyIsWorkedOn
<1>4. ASSUME NEW n \in Nodes, Stop(n) \/ ClearBranch(n) PROVE BusyIsWorkedOn'
  <2>1. \E S : CancelNodes(S)
    BY <1>4 DEF Stop, ClearBranch, cancel_branch
  <2>2. \A m \in Nodes : cancelReq[m] => cancelReq'[m]
    BY <1>2, <2>1
  <2>3. UNCHANGED <<nodes, isProcessing, currentNode, pc>>
    BY <1>4 DEF Stop, ClearBranch, treeVars, procVars
  <2> QED
    BY <2>2, <2>3 DEF BusyIsWorkedOn, Live, Executing, TypeOK
<1>5. ASSUME NEW n \in Nodes, RemoveBranch(n) PROVE BusyIsWorkedOn'
  <2>1. CASE attached /\ n = Root
    BY <1>1, <1>5, <2>1 DEF RemoveBranch, BusyIsWorkedOn
  <2>2. CASE ~(attached /\ n = Root)
    BY <1>5, <2>2
    DEF RemoveBranch, WithoutBranch, procVars, BusyIsWorkedOn, Live, Executing
  <2> QED
    BY <2>1, <2>2
<1>6. CASE ReplaceTreeQueue
  BY <1>6 DEF ReplaceTreeQueue, procVars, taskVars, BusyIsWorkedOn, Live, Executing
<1> QED
  BY <1>3, <1>4, <1>5, <1>6 DEF CommandStep

\* Whatever the commands, a tree that is marked as processing is worked on, unless the
\* task of its current node was cancelled or the node removed.
THEOREM BusyIsWorkedOnHolds == Spec => []BusyIsWorkedOn
<1>1. Init => BusyIsWorkedOn
  BY DEF Init, BusyIsWorkedOn
<1>2. TypeOK /\ LimboInv /\ BusyIsWorkedOn /\ [Next]_vars => BusyIsWorkedOn'
  <2> SUFFICES ASSUME TypeOK, LimboInv, BusyIsWorkedOn, [Next]_vars PROVE BusyIsWorkedOn'
    OBVIOUS
  <2>1. CASE CreateTree
    <3>1. cancelReq' = cancelReq /\ nodes' \subseteq nodes \cup {Root}
      BY <2>1 DEF CreateTree
    <3> QED
      BY <2>1, <3>1, RootAssumption, EnqueueKeepsBusy DEF CreateTree
  <2>2. ASSUME NEW n \in Nodes, Admit(n), CanBeAdded(n) PROVE BusyIsWorkedOn'
    <3>1. arrival[n] = 0
      BY <2>2 DEF Admit, LimboInv, EnqueuedOnce
    <3> QED
      BY <2>2, <3>1, EnqueueKeepsBusy DEF Admit, CanBeAdded, add_node
  <2>3. ASSUME UNCHANGED <<nodes, isProcessing, currentNode, pc, cancelReq>>
        PROVE  BusyIsWorkedOn'
    BY <2>3 DEF BusyIsWorkedOn, Live, Executing
  <2>4. ASSUME NEW n \in Nodes, Admit(n), ~CanBeAdded(n) PROVE BusyIsWorkedOn'
    BY <2>3, <2>4 DEF Admit, procVars
  <2>5. ASSUME NEW n \in Nodes, SendFails(n) \/ \E p \in Nodes : Receive(n, p)
        PROVE  BusyIsWorkedOn'
    BY <2>3, <2>5 DEF SendFails, Receive, procVars, taskVars
  <2>6. CASE UNCHANGED vars
    BY <2>3, <2>6 DEF vars, treeVars, procVars, taskVars
  <2> QED
    BY <2>1, <2>2, <2>4, <2>5, <2>6, TaskStepKeepsBusy, CommandStepKeepsBusy
    DEF Next, MessageStep
<1> QED
  BY <1>1, <1>2, TypeCorrect, LimboInvHolds, PTL DEF Spec

-----------------------------------------------------------------------------
(* The queue as a sequence.                                                *)

\* No two nodes of S have the same turn.
Distinct(S, turn) == \A m, n \in S : turn[m] = turn[n] => m = n

\* The least of some numbers.
LEMMA Least ==
    ASSUME NEW S \in SUBSET Nat, S # {}
    PROVE  \E x \in S : \A y \in S : x <= y
<1>1. PICK x \in S : \A y \in S : ~(<<y, x>> \in OpToRel(<, Nat))
  BY NatLessThanWellFounded, WFMin
<1>2. \A y \in S : ~(y < x)
  BY <1>1 DEF OpToRel
<1> QED
  BY <1>2

\* A set of nodes that includes one whose turn is first, and the rest in order, are all
\* in order.
LEMMA FirstThenRest ==
    ASSUME NEW S \in SUBSET Nodes, NEW turn \in [Nodes -> Nat], NEW k \in Nat,
           NEW m \in S, \A n \in S \ {m} : turn[m] < turn[n],
           NEW s \in [1..k -> S \ {m}], InTurn(s, S \ {m}, turn)
    PROVE  \E t \in [1..(k + 1) -> S] : InTurn(t, S, turn)
<1> DEFINE t == [i \in 1..(k + 1) |-> IF i = 1 THEN m ELSE s[i - 1]]
<1>1. \A i \in 2..(k + 1) : i - 1 \in 1..k /\ t[i] = s[i - 1] /\ s[i - 1] \in S \ {m}
  OBVIOUS
<1>2. t[1] = m /\ t \in [1..(k + 1) -> S] /\ DOMAIN t = 1..(k + 1)
  BY <1>1
<1> HIDE DEF t
<1>3. ASSUME NEW n \in S PROVE \E i \in 1..(k + 1) : t[i] = n
  <2>1. CASE n = m
    BY <1>2, <2>1
  <2>2. CASE n # m
    <3>1. PICK i \in 1..k : s[i] = n
      BY <2>2 DEF InTurn
    <3>2. i + 1 \in 2..(k + 1) /\ (i + 1) - 1 = i
      OBVIOUS
    <3>3. t[i + 1] = n
      BY <1>1, <3>1, <3>2
    <3> QED
      BY <3>2, <3>3
  <2> QED
    BY <2>1, <2>2
<1>4. ASSUME NEW i \in 1..(k + 1), NEW j \in 1..(k + 1), i < j
      PROVE  turn[t[i]] < turn[t[j]]
  <2>1. j \in 2..(k + 1)
    BY <1>4
  <2>2. CASE i = 1
    BY <1>1, <1>2, <2>1, <2>2
  <2>3. CASE i # 1
    <3>1. i \in 2..(k + 1) /\ i - 1 < j - 1
      BY <1>4, <2>3
    <3>2. turn[s[i - 1]] < turn[s[j - 1]]
      BY <1>1, <2>1, <3>1 DEF InTurn
    <3> QED
      BY <1>1, <2>1, <3>1, <3>2
  <2> QED
    BY <2>2, <2>3
<1>5. /\ \A n \in S : \E i \in DOMAIN t : t[i] = n
      /\ \A i, j \in DOMAIN t : i < j => turn[t[i]] < turn[t[j]]
  BY <1>2, <1>3, <1>4
<1> QED
  BY <1>2, <1>5 DEF InTurn

\* Nodes with turns of their own can be put in the order of their turns: of the sets
\* for which that is not so, none has the fewest elements.
LEMMA OrderExists ==
    ASSUME NEW S \in SUBSET Nodes, NEW turn \in [Nodes -> Nat], Distinct(S, turn)
    PROVE  \E s \in [1..Cardinality(S) -> S] : InTurn(s, S, turn)
<1> DEFINE Ordered(T) == \E s \in [1..Cardinality(T) -> T] : InTurn(s, T, turn)
           bad == {k \in Nat : \E T \in SUBSET S : Cardinality(T) = k /\ ~Ordered(T)}
<1>1. \A T \in SUBSET S : IsFiniteSet(T) /\ Cardinality(T) \in Nat
  BY NodesAssumption, FS_Subset, FS_CardinalityType
<1>2. SUFFICES ASSUME ~Ordered(S) PROVE FALSE
  OBVIOUS
<1>3. bad \in SUBSET Nat /\ bad # {}
  BY <1>1, <1>2
<1>4. PICK k \in bad : \A l \in bad : k <= l
  BY <1>3, Least
<1>5. PICK T \in SUBSET S : Cardinality(T) = k /\ ~Ordered(T)
  BY <1>4
<1>6. T # {}
  <2> SUFFICES ASSUME T = {} PROVE FALSE
    OBVIOUS
  <2>1. Cardinality(T) = 0 /\ 1..0 = {}
    BY FS_EmptySet
  <2>2. <<>> \in [1..0 -> T] /\ DOMAIN <<>> = 1..0
    BY <2>1
  <2>3. InTurn(<<>>, T, turn)
    BY <2>1, <2>2 DEF InTurn
  <2> QED
    BY <1>5, <2>1, <2>2, <2>3
<1>7. PICK m \in T : \A n \in T : turn[m] <= turn[n]
  <2>1. {turn[n] : n \in T} \in SUBSET Nat /\ {turn[n] : n \in T} # {}
    BY <1>6
  <2>2. PICK x \in {turn[n] : n \in T} : \A y \in {turn[n] : n \in T} : x <= y
    BY <2>1, Least
  <2> QED
    BY <2>2
<1>8. \A n \in T \ {m} : turn[m] < turn[n]
  BY <1>7 DEF Distinct
<1>9. Cardinality(T \ {m}) = k - 1 /\ k - 1 \in Nat /\ T \ {m} \in SUBSET S
  <2>1. T \ {m} \in SUBSET S
    OBVIOUS
  <2>2. IsFiniteSet(T) /\ Cardinality(T) \in Nat /\ Cardinality(T \ {m}) \in Nat
    BY <1>1, <2>1
  <2>3. Cardinality(T \ {m}) = Cardinality(T) - 1
    BY <2>2, FS_RemoveElement
  <2> QED
    BY <1>5, <2>1, <2>2, <2>3
<1>10. Ordered(T \ {m})
  <2> HIDE DEF Ordered
  <2>1. ~Ordered(T \ {m}) => k - 1 \in bad
    BY <1>9
  <2>2. k \in Nat /\ ~(k <= k - 1)
    BY <1>3, <1>4
  <2> QED
    BY <1>4, <2>1, <2>2
<1>11. PICK s \in [1..(k - 1) -> T \ {m}] : InTurn(s, T \ {m}, turn)
  BY <1>9, <1>10
<1>12. \E t \in [1..((k - 1) + 1) -> T] : InTurn(t, T, turn)
  BY <1>8, <1>9, <1>11, FirstThenRest
<1>13. (k - 1) + 1 = Cardinality(T)
  BY <1>5
<1> QED
  BY <1>5, <1>12, <1>13

\* There is one order.
LEMMA OrderUnique ==
    ASSUME NEW S \in SUBSET Nodes, NEW turn \in [Nodes -> Nat],
           NEW s \in Seq(S), InTurn(s, S, turn), NEW t \in Seq(S), InTurn(t, S, turn)
    PROVE  s = t
<1> DEFINE n == IF Len(s) < Len(t) THEN Len(s) ELSE Len(t)
           apart == {i \in 1..n : s[i] # t[i]}
<1>1. /\ Len(s) \in Nat /\ DOMAIN s = 1..Len(s) /\ \A i \in DOMAIN s : s[i] \in S
      /\ Len(t) \in Nat /\ DOMAIN t = 1..Len(t) /\ \A i \in DOMAIN t : t[i] \in S
  OBVIOUS
<1>2. \A x \in S : turn[x] \in Nat
  OBVIOUS
<1>3. apart = {}
  <2> SUFFICES ASSUME apart # {} PROVE FALSE
    OBVIOUS
  <2>1. apart \in SUBSET Nat
    BY <1>1
  <2>2. PICK i \in apart : \A j \in apart : i <= j
    BY <2>1, Least
  <2>3. /\ i \in DOMAIN s /\ i \in DOMAIN t /\ s[i] # t[i]
        /\ \A j \in 1..(i - 1) : s[j] = t[j]
    BY <1>1, <2>2
  <2>4. PICK j \in DOMAIN t : t[j] = s[i]
    BY <1>1, <2>3 DEF InTurn
  <2>5. PICK l \in DOMAIN s : s[l] = t[i]
    BY <1>1, <2>3 DEF InTurn
  <2>6. i < j
    <3>1. j # i
      BY <2>3, <2>4
    <3>2. ASSUME j < i PROVE FALSE
      <4>1. s[j] = s[i] /\ j \in DOMAIN s
        <5>1. j \in 1..(i - 1) /\ j \in 1..Len(s)
          BY <1>1, <2>3, <2>4, <3>2
        <5> QED
          BY <1>1, <2>3, <2>4, <5>1
      <4>2. turn[s[j]] < turn[s[i]]
        BY <2>3, <3>2, <4>1 DEF InTurn
      <4> QED
        BY <1>1, <1>2, <2>3, <4>1, <4>2
    <3> QED
      BY <1>1, <2>3, <3>1, <3>2
  <2>7. i < l
    <3>1. l # i
      BY <2>3, <2>5
    <3>2. ASSUME l < i PROVE FALSE
      <4>1. t[l] = t[i] /\ l \in DOMAIN t
        <5>1. l \in 1..(i - 1) /\ l \in 1..Len(t)
          BY <1>1, <2>3, <2>5, <3>2
        <5> QED
          BY <1>1, <2>3, <2>5, <5>1
      <4>2. turn[t[l]] < turn[t[i]]
        BY <2>3, <3>2, <4>1 DEF InTurn
      <4> QED
        BY <1>1, <1>2, <2>3, <4>1, <4>2
    <3> QED
      BY <1>1, <2>3, <3>1, <3>2
  <2>8. turn[t[i]] < turn[t[j]] /\ turn[s[i]] < turn[s[l]]
    BY <2>3, <2>6, <2>7 DEF InTurn
  <2> QED
    BY <1>1, <1>2, <2>3, <2>4, <2>5, <2>8
<1>4. \A i \in 1..n : s[i] = t[i]
  BY <1>3
<1>5. Len(s) = Len(t)
  <2>1. ASSUME Len(s) < Len(t) PROVE FALSE
    <3>1. Len(t) \in DOMAIN t
      BY <1>1, <2>1
    <3>2. PICK i \in DOMAIN s : s[i] = t[Len(t)]
      BY <1>1, <3>1 DEF InTurn
    <3>3. i \in DOMAIN t /\ i < Len(t) /\ t[i] = t[Len(t)]
      BY <1>1, <1>4, <2>1, <3>2
    <3>4. turn[t[i]] < turn[t[Len(t)]]
      BY <3>1, <3>3 DEF InTurn
    <3> QED
      BY <1>1, <1>2, <3>1, <3>3, <3>4
  <2>2. ASSUME Len(t) < Len(s) PROVE FALSE
    <3>1. Len(s) \in DOMAIN s
      BY <1>1, <2>2
    <3>2. PICK i \in DOMAIN t : t[i] = s[Len(s)]
      BY <1>1, <3>1 DEF InTurn
    <3>3. i \in DOMAIN s /\ i < Len(s) /\ s[i] = s[Len(s)]
      BY <1>1, <1>4, <2>2, <3>2
    <3>4. turn[s[i]] < turn[s[Len(s)]]
      BY <3>1, <3>3 DEF InTurn
    <3> QED
      BY <1>1, <1>2, <3>1, <3>3, <3>4
  <2>3. Len(s) \in Nat /\ Len(t) \in Nat
    BY <1>1
  <2> QED
    BY <2>1, <2>2, <2>3
<1> QED
  BY <1>1, <1>4, <1>5, SeqEqual

\* ByTurn is that order.
LEMMA ByTurnIs ==
    ASSUME NEW S \in SUBSET Nodes, NEW turn \in [Nodes -> Nat], Distinct(S, turn)
    PROVE  /\ ByTurn(S, turn) \in Seq(S) /\ InTurn(ByTurn(S, turn), S, turn)
           /\ \A s \in Seq(S) : InTurn(s, S, turn) => s = ByTurn(S, turn)
<1>1. Cardinality(S) \in Nat
  BY NodesAssumption, FS_Subset, FS_CardinalityType
<1>2. ByTurn(S, turn) \in [1..Cardinality(S) -> S] /\ InTurn(ByTurn(S, turn), S, turn)
  BY OrderExists DEF ByTurn
<1>3. ByTurn(S, turn) \in Seq(S)
  BY <1>1, <1>2
<1> QED
  BY <1>2, <1>3, OrderUnique

\* One that comes later than all others goes to the end.
LEMMA LaterGoesLast ==
    ASSUME NEW S \in SUBSET Nodes, NEW turn \in [Nodes -> Nat], Distinct(S, turn),
           NEW turn2 \in [Nodes -> Nat], NEW n \in Nodes \ S,
           \A m \in S : turn2[m] = turn[m] /\ turn[m] < turn2[n]
    PROVE  ByTurn(S \cup {n}, turn2) = Append(ByTurn(S, turn), n)
<1> DEFINE T == S \cup {n}
           s == ByTurn(S, turn)
           t == Append(s, n)
<1>1. s \in Seq(S) /\ InTurn(s, S, turn)
  BY ByTurnIs
<1> HIDE DEF s
<1>2. /\ Len(s) \in Nat /\ DOMAIN s = 1..Len(s) /\ \A i \in 1..Len(s) : s[i] \in S
      /\ s \in Seq(T)
  BY <1>1, SeqMonotonic
<1>3. /\ t \in Seq(T) /\ Len(t) = Len(s) + 1 /\ DOMAIN t = 1..(Len(s) + 1)
      /\ t[Len(s) + 1] = n /\ \A i \in 1..Len(s) : t[i] = s[i]
  BY <1>2
<1> HIDE DEF t
<1>4. T \in SUBSET Nodes /\ Distinct(T, turn2)
  BY DEF Distinct
<1>5. \A m \in T : \E i \in DOMAIN t : t[i] = m
  BY <1>1, <1>2, <1>3 DEF InTurn
<1>6. ASSUME NEW i \in DOMAIN t, NEW j \in DOMAIN t, i < j PROVE turn2[t[i]] < turn2[t[j]]
  <2>1. i \in 1..Len(s) /\ t[i] \in S
    BY <1>2, <1>3, <1>6
  <2>2. CASE j \in 1..Len(s)
    BY <1>1, <1>2, <1>3, <1>6, <2>1, <2>2 DEF InTurn
  <2>3. CASE j = Len(s) + 1
    BY <1>3, <2>1, <2>3
  <2> QED
    BY <1>2, <1>3, <2>2, <2>3
<1>7. InTurn(t, T, turn2)
  BY <1>5, <1>6 DEF InTurn
<1> QED
  BY <1>3, <1>4, <1>7, ByTurnIs DEF s, t

\* The one whose turn is first is the head, and the tail the order of the rest.
LEMMA FirstIsHead ==
    ASSUME NEW S \in SUBSET Nodes, NEW turn \in [Nodes -> Nat], Distinct(S, turn),
           NEW n \in S, \A m \in S : turn[n] <= turn[m]
    PROVE  /\ ByTurn(S, turn) # <<>> /\ Head(ByTurn(S, turn)) = n
           /\ ByTurn(S \ {n}, turn) = Tail(ByTurn(S, turn))
<1> DEFINE s == ByTurn(S, turn)
<1>1. s \in Seq(S) /\ InTurn(s, S, turn)
  BY ByTurnIs
<1> HIDE DEF s
<1>2. /\ Len(s) \in Nat /\ DOMAIN s = 1..Len(s) /\ \A i \in 1..Len(s) : s[i] \in S
  BY <1>1
<1>3. PICK i \in 1..Len(s) : s[i] = n
  BY <1>1, <1>2 DEF InTurn
<1>4. i = 1
  <2> SUFFICES ASSUME i # 1 PROVE FALSE
    OBVIOUS
  <2>1. 1 \in DOMAIN s /\ 1 < i
    BY <1>2
  <2>2. turn[s[1]] < turn[n]
    BY <1>1, <1>2, <1>3, <2>1 DEF InTurn
  <2> QED
    BY <1>2, <2>1, <2>2
<1>5. s # <<>> /\ Head(s) = n
  BY <1>1, <1>2, <1>3, <1>4
<1> DEFINE t == Tail(s)
<1>6. /\ t \in Seq(S) /\ Len(t) = Len(s) - 1 /\ \A j \in 1..Len(t) : t[j] = s[j + 1]
  BY <1>1, <1>5, HeadTailProperties
<1> HIDE DEF t
<1>7. /\ DOMAIN t = 1..Len(t) /\ \A j \in 1..Len(t) : j + 1 \in 1..Len(s)
  BY <1>2, <1>6
<1>8. \A j \in 1..Len(t) : t[j] \in S \ {n}
  <2> TAKE j \in 1..Len(t)
  <2>a. 1 \in DOMAIN s /\ j + 1 \in DOMAIN s /\ 1 < j + 1
    BY <1>2, <1>3, <1>4, <1>6, <1>7
  <2>1. turn[s[1]] < turn[s[j + 1]]
    BY <1>1, <2>a DEF InTurn
  <2> QED
    BY <1>2, <1>3, <1>4, <1>6, <1>7, <2>1
<1>9. t \in Seq(S \ {n})
  <2>1. Len(t) \in Nat /\ t \in [1..Len(t) -> S \ {n}]
    BY <1>6, <1>7, <1>8
  <2> QED
    BY <2>1
<1>10. \A m \in S \ {n} : \E j \in DOMAIN t : t[j] = m
  <2> TAKE m \in S \ {n}
  <2>1. PICK j \in 1..Len(s) : s[j] = m
    BY <1>1, <1>2 DEF InTurn
  <2>2. j - 1 \in 1..Len(t) /\ (j - 1) + 1 = j
    BY <1>2, <1>3, <1>4, <1>6, <2>1
  <2> QED
    BY <1>6, <1>7, <2>1, <2>2
<1>11. ASSUME NEW j \in DOMAIN t, NEW k \in DOMAIN t, j < k PROVE turn[t[j]] < turn[t[k]]
  <2>1. j \in 1..Len(t) /\ k \in 1..Len(t) /\ t[j] = s[j + 1] /\ t[k] = s[k + 1]
    BY <1>6, <1>7
  <2>2. j + 1 \in DOMAIN s /\ k + 1 \in DOMAIN s /\ j + 1 < k + 1
    BY <1>2, <1>6, <1>7, <1>11, <2>1
  <2> QED
    BY <1>1, <2>1, <2>2 DEF InTurn
<1>12. InTurn(t, S \ {n}, turn) /\ Distinct(S \ {n}, turn)
  BY <1>10, <1>11 DEF InTurn, Distinct
<1>13. t = ByTurn(S \ {n}, turn)
  BY <1>9, <1>12, ByTurnIs
<1> QED
  BY <1>5, <1>13 DEF s, t

\* Of those that stay, none overtakes another.
LEMMA OrderStays ==
    ASSUME NEW S \in SUBSET Nodes, NEW turn \in [Nodes -> Nat], Distinct(S, turn), NEW T
    PROVE  /\ ByTurn(S \ T, turn) \in Seq(Nodes)
           /\ Serial!JobsIn(ByTurn(S \ T, turn)) = Serial!JobsIn(ByTurn(S, turn)) \ T
           /\ \A j, k \in Serial!JobsIn(ByTurn(S \ T, turn)) :
                 Serial!Before(ByTurn(S \ T, turn), j, k) => Serial!Before(ByTurn(S, turn), j, k)
<1> DEFINE s == ByTurn(S, turn)
           t == ByTurn(S \ T, turn)
<1>1. s \in Seq(S) /\ InTurn(s, S, turn)
  BY ByTurnIs
<1>2. t \in Seq(S \ T) /\ InTurn(t, S \ T, turn)
  <2>1. S \ T \in SUBSET Nodes /\ Distinct(S \ T, turn)
    BY DEF Distinct
  <2> QED
    BY <2>1, ByTurnIs
<1> HIDE DEF s, t
<1>3. /\ DOMAIN s = 1..Len(s) /\ Len(s) \in Nat /\ \A i \in DOMAIN s : s[i] \in S
      /\ DOMAIN t = 1..Len(t) /\ Len(t) \in Nat /\ \A i \in DOMAIN t : t[i] \in S \ T
  BY <1>1, <1>2
<1>4. Serial!JobsIn(s) = S /\ Serial!JobsIn(t) = S \ T
  BY <1>1, <1>2, <1>3 DEF InTurn, Serial!JobsIn
<1>5. t \in Seq(Nodes)
  BY <1>2, SeqMonotonic
<1>6. ASSUME NEW j, NEW k, Serial!Before(t, j, k) PROVE Serial!Before(s, j, k)
  <2>1. PICK a, b \in DOMAIN t : a < b /\ t[a] = j /\ t[b] = k
    BY <1>6 DEF Serial!Before
  <2>2. j \in S /\ k \in S /\ turn[j] < turn[k]
    BY <1>2, <1>3, <2>1 DEF InTurn
  <2>3. PICK c \in DOMAIN s : s[c] = j
    BY <1>1, <2>2 DEF InTurn
  <2>4. PICK d \in DOMAIN s : s[d] = k
    BY <1>1, <2>2 DEF InTurn
  <2>5. c < d
    <3>1. turn[j] \in Nat /\ turn[k] \in Nat /\ c \in Nat /\ d \in Nat
      BY <1>3, <2>2, <2>3, <2>4
    <3>2. d < c => turn[k] < turn[j]
      BY <1>1, <2>3, <2>4 DEF InTurn
    <3> QED
      BY <2>2, <2>3, <2>4, <3>1, <3>2
  <2> QED
    BY <2>3, <2>4, <2>5 DEF Serial!Before
<1> QED
  BY <1>4, <1>5, <1>6 DEF s, t

-----------------------------------------------------------------------------
(* The tree implements the serial queue.                                   *)

\* The tree is in use exactly when it has a current node, and not before its root is
\* known.
LEMMA BusyStep ==
    ASSUME ScopedCommands, TypeOK, ScopedInv, BusyWithCurrent, [Next]_vars
    PROVE  BusyWithCurrent'
<1> USE RootAssumption, NoNodeAssumption DEF BusyWithCurrent, TypeOK
<1>1. ASSUME UNCHANGED <<isProcessing, currentNode>>, arrival'[Root] = 0 => arrival[Root] = 0
      PROVE  BusyWithCurrent'
  BY <1>1
<1>2. CASE CreateTree
  BY <1>2, NextTurn DEF CreateTree, Enqueue, procVars
<1>3. ASSUME NEW n \in Nodes, Admit(n) PROVE BusyWithCurrent'
  <2>1. n # Root /\ attached => arrival[Root] # 0
    BY <1>3 DEF Admit, ScopedInv, EnqueuedOnce
  <2>2. CASE CanBeAdded(n)
    <3>1. Enqueue(n) /\ arrival[Root] # 0 /\ n # Root
      BY <1>3, <2>1, <2>2 DEF Admit, CanBeAdded, ScopedInv, EnqueuedOnce
    <3>2. arrival'[Root] # 0
      BY <3>1 DEF Enqueue
    <3> QED
      BY <3>1, <3>2 DEF Enqueue, procVars
  <2>3. CASE ~CanBeAdded(n)
    BY <1>1, <1>3, <2>3 DEF Admit, queueVars, procVars
  <2> QED
    BY <2>2, <2>3
<1>4. ASSUME NEW n \in Nodes, Skip(n) \/ Finish(n) PROVE BusyWithCurrent'
  <2>1. arrival' = arrival /\ arrival[Root] # 0 /\ ProcessNext(n)
    <3>1. pc[n] # "none"
      BY <1>4 DEF Skip, Finish
    <3>2. arrival[n] # 0
      BY <3>1 DEF ScopedInv, EnqueuedOnce
    <3> QED
      BY <1>4, <3>2 DEF Skip, Finish, ScopedInv, EnqueuedOnce, Enqueued
  <2> QED
    BY <2>1 DEF ProcessNext, MarkFree, Dequeue, IsHead
<1>5. ASSUME NEW n \in Nodes, RemoveBranch(n) PROVE BusyWithCurrent'
  BY <1>5 DEF RemoveBranch, CancelTree, procVars
<1>6. CASE UNCHANGED <<queueVars, procVars>>
  BY <1>1, <1>6 DEF queueVars, procVars
<1>7. ASSUME NEW n \in Nodes, TaskStep(n), ~Skip(n), ~Finish(n) PROVE BusyWithCurrent'
  BY <1>6, <1>7
  DEF TaskStep, DieUnstarted, Start, SessionInfo, ErrorEvent, TaskFails, ExitZero, ExitNonZero,
      DeliverCancel
<1>8. ASSUME NEW n \in Nodes, Stop(n) \/ ClearBranch(n) PROVE BusyWithCurrent'
  BY <1>1, <1>8 DEF Stop, ClearBranch, procVars
<1>9. ASSUME NEW n \in Nodes, SendFails(n) \/ (\E p \in Nodes : Receive(n, p))
      PROVE  BusyWithCurrent'
  BY <1>6, <1>9 DEF SendFails, Receive
<1>10. CASE UNCHANGED vars
  BY <1>6, <1>10 DEF vars
<1>11. ~StopAll /\ ~ClearAll /\ ~ReplaceTreeQueue
  BY DEF StopAll, ClearAll, ReplaceTreeQueue, ScopedCommands, ScopedInv
<1> QED
  BY <1>2, <1>3, <1>4, <1>5, <1>7, <1>8, <1>9, <1>10, <1>11 DEF Next, MessageStep, CommandStep

\* The turns of the nodes on the queue differ, and nobody but the current node executes.
LEMMA SerialView ==
    ASSUME TypeOK, ScopedInv
    PROVE  /\ Distinct(queue, arrival)
           /\ \A n \in queue : arrival[n] # 0
           /\ attached => arrival[Root] # 0
           /\ attached => \A n \in Nodes : Live(n) => n = currentNode /\ isProcessing
<1>1. \A n \in queue : n \in Nodes /\ arrival[n] # 0
  BY DEF TypeOK, ScopedInv, EnqueuedOnce
<1>2. Distinct(queue, arrival)
  BY <1>1 DEF ScopedInv, TurnsInOrder, Distinct, Enqueued
<1> QED
  BY <1>1, <1>2 DEF ScopedInv, EnqueuedOnce, LiveIsCurrent

\* An empty queue is the empty sequence.
LEMMA NobodyWaits ==
    ASSUME NEW turn \in [Nodes -> Nat]
    PROVE  ByTurn({}, turn) = <<>>
<1>1. Distinct({}, turn)
  BY DEF Distinct
<1>2. ByTurn({}, turn) \in Seq({})
  BY <1>1, ByTurnIs
<1> QED
  BY <1>2, EmptySeq

\* What does not concern the queue is no step of it.
LEMMA QueueUntouched ==
    ASSUME UNCHANGED <<attached, arrival>>,
           attached => /\ UNCHANGED <<queue, currentNode>>
                       /\ \A n \in Nodes : Executing(n)' = Executing(n)
    PROVE  UNCHANGED Serial!jobVars
<1>1. Enqueued' = Enqueued
  BY DEF Enqueued
<1>2. attached => QueueSequence' = QueueSequence
  BY DEF QueueSequence
<1>3. attached => {n \in Nodes : Executing(n)}' = {n \in Nodes : Executing(n)}
  OBVIOUS
<1> QED
  BY <1>1, <1>2, <1>3 DEF Serial!jobVars

\* Enqueueing a node of a tree in use, or the first one, submits it.
LEMMA EnqueueSubmits ==
    ASSUME TypeOK, ScopedInv, NoIdleBacklog, BusyWithCurrent, NEW n \in Nodes,
           arrival[n] = 0, Enqueue(n), attached \/ arrival[Root] = 0, attached',
           arrival[Root] = 0 => ~attached /\ n = Root
    PROVE  Serial!Submit(n)
<1>1. arrival' = [arrival EXCEPT ![n] = 1 + Cardinality(Enqueued)]
  BY DEF Enqueue
<1>2. /\ arrival' \in [Nodes -> Nat] /\ arrival'[n] = 1 + Cardinality(Enqueued)
      /\ arrival'[n] # 0 /\ \A m \in Nodes \ {n} : arrival'[m] = arrival[m]
  BY <1>1, NextTurn DEF TypeOK
<1>3. n \notin Enqueued /\ Enqueued' = Enqueued \cup {n}
  BY <1>2 DEF Enqueued
<1>4. n \notin queue /\ pc[n] = "none" /\ (~attached => queue = {})
  BY DEF ScopedInv, EnqueuedOnce
<1>5. \A m \in queue : arrival'[m] = arrival[m] /\ arrival[m] < arrival'[n]
  BY <1>2, <1>4, NextTurn DEF TypeOK, ScopedInv, TurnsInOrder
<1>6. /\ \A m \in Nodes : Executing(m)' = Executing(m)
      /\ ~attached => \A m \in Nodes : ~Executing(m)
  <2>1. pc' = pc \/ pc' = [pc EXCEPT ![n] = "created"]
    BY DEF Enqueue
  <2>2. ~attached => \A m \in Nodes : pc[m] = "none"
    BY DEF ScopedInv, EnqueuedOnce, Enqueued
  <2> QED
    BY <1>4, <2>1, <2>2 DEF Executing, TypeOK
<1>7. CASE isProcessing
  <2>1. attached /\ currentNode # NoNode /\ currentNode' = currentNode /\ queue' = queue \cup {n}
    BY <1>7 DEF Enqueue, procVars, BusyWithCurrent
  <2>2. QueueSequence' = Append(QueueSequence, n)
    <3>1. /\ queue \in SUBSET Nodes /\ arrival \in [Nodes -> Nat] /\ Distinct(queue, arrival)
          /\ n \in Nodes \ queue
      BY <1>4, SerialView DEF TypeOK
    <3>2. ByTurn(queue \cup {n}, arrival') = Append(ByTurn(queue, arrival), n)
      BY <1>2, <1>5, <3>1, LaterGoesLast
    <3> QED
      BY <2>1, <3>2 DEF QueueSequence
  <2> QED
    BY <1>3, <1>6, <2>1, <2>2 DEF Serial!Submit
<1>8. CASE ~isProcessing
  <2>1. queue = {} /\ queue' = {} /\ currentNode = NoNode /\ currentNode' = n
    BY <1>8 DEF Enqueue, NoIdleBacklog, BusyWithCurrent
  <2>2. QueueSequence = <<>> /\ QueueSequence' = <<>>
    BY <1>2, <2>1, NobodyWaits DEF QueueSequence, TypeOK
  <2> QED
    BY <1>3, <1>6, <2>1, <2>2 DEF Serial!Submit
<1> QED
  BY <1>7, <1>8

\* A task that hands over its tree releases the server.
LEMMA ProcessNextReleases ==
    ASSUME TypeOK, ScopedInv, attached, NEW n \in Nodes, Live(n), ProcessNext(n),
           UNCHANGED <<attached, arrival>>
    PROVE  Serial!Release
<1>1. /\ currentNode = n /\ n # NoNode /\ Enqueued' = Enqueued
      /\ \A m \in Nodes \ {n} : ~Executing(m)
  BY SerialView, NoNodeAssumption DEF Live, Enqueued
<1>2. \A m \in Nodes : ~Executing(m)'
  BY <1>1 DEF ProcessNext, MarkFree, Dequeue, Executing, TypeOK
<1>3. CASE MarkFree(n)
  <2>1. queue = {} /\ queue' = {} /\ currentNode' = NoNode
    BY <1>3 DEF MarkFree
  <2>2. QueueSequence = <<>> /\ QueueSequence' = <<>>
    BY <2>1, NobodyWaits DEF QueueSequence, TypeOK
  <2> QED
    BY <1>1, <1>2, <2>1, <2>2 DEF Serial!Release
<1>4. ASSUME NEW next \in Nodes, Dequeue(n, next) PROVE Serial!Release
  <2>1. queue' = queue \ {next} /\ currentNode' = next /\ IsHead(next)
    BY <1>4 DEF Dequeue
  <2>2. /\ QueueSequence # <<>> /\ Head(QueueSequence) = next
        /\ QueueSequence' = Tail(QueueSequence)
    BY <2>1, SerialView, FirstIsHead DEF QueueSequence, IsHead, TypeOK
  <2> QED
    BY <1>1, <1>2, <2>1, <2>2 DEF Serial!Release
<1> QED
  BY <1>3, <1>4 DEF ProcessNext

\* Cancelling nodes withdraws those that wait.
LEMMA CancelWithdraws ==
    ASSUME TypeOK, ScopedInv, attached, NEW S, CancelNodes(S),
           UNCHANGED <<attached, arrival, currentNode, pc>>
    PROVE  \E T \in SUBSET Nodes : Serial!Withdraw(T)
<1> DEFINE T == {n \in S \cap nodes : ~Terminal(n)}
<1>1. T \in SUBSET Nodes /\ queue' = queue \ T
  BY DEF CancelNodes, TypeOK
<1> HIDE DEF T
<1>2. QueueSequence' = ByTurn(queue \ T, arrival)
  BY <1>1 DEF QueueSequence
<1>3. /\ QueueSequence' \in Seq(Nodes)
      /\ Serial!JobsIn(QueueSequence') = Serial!JobsIn(QueueSequence) \ T
      /\ \A j, k \in Serial!JobsIn(QueueSequence') :
            Serial!Before(QueueSequence', j, k) => Serial!Before(QueueSequence, j, k)
  <2>1. queue \in SUBSET Nodes /\ arrival \in [Nodes -> Nat] /\ Distinct(queue, arrival)
    BY SerialView DEF TypeOK
  <2>2. /\ ByTurn(queue \ T, arrival) \in Seq(Nodes)
        /\ Serial!JobsIn(ByTurn(queue \ T, arrival)) = Serial!JobsIn(ByTurn(queue, arrival)) \ T
        /\ \A j, k \in Serial!JobsIn(ByTurn(queue \ T, arrival)) :
              Serial!Before(ByTurn(queue \ T, arrival), j, k)
                => Serial!Before(ByTurn(queue, arrival), j, k)
    BY <2>1, OrderStays
  <2> QED
    BY <1>2, <2>2 DEF QueueSequence
<1>4. Enqueued' = Enqueued /\ {n \in Nodes : Executing(n)}' = {n \in Nodes : Executing(n)}
  BY DEF Enqueued, Executing
<1>5. Serial!Withdraw(T)
  BY <1>3, <1>4 DEF Serial!Withdraw
<1> QED
  BY <1>1, <1>5

\* Every step of a task executes the current job, releases the server, or does not
\* concern it.
LEMMA TaskStepIsSerial ==
    ASSUME TypeOK, ScopedInv, BusyWithCurrent, NEW n \in Nodes, TaskStep(n)
    PROVE  Serial!Execute \/ Serial!Release \/ UNCHANGED Serial!jobVars
<1>1. UNCHANGED <<attached, arrival>>
  BY DEF TaskStep, DieUnstarted, Skip, Start, SessionInfo, ErrorEvent, TaskFails, ExitZero,
         ExitNonZero, DeliverCancel, Finish, treeVars, queueVars
<1>2. CASE ~attached
  BY <1>1, <1>2, QueueUntouched
<1>3. CASE attached /\ (Skip(n) \/ Finish(n))
  BY <1>1, <1>3, ProcessNextReleases DEF Skip, Finish, Live, Executing
<1>4. CASE attached /\ Start(n)
  <2>1. /\ pc[n] = "created" /\ UNCHANGED <<queue, currentNode>>
        /\ pc' = [pc EXCEPT ![n] = "running"] \/ pc' = [pc EXCEPT ![n] = "orphan"]
    BY <1>4 DEF Start, queueVars, procVars
  <2>2. currentNode = n /\ n # NoNode /\ \A m \in Nodes \ {n} : ~Executing(m)
    BY <1>4, <2>1, SerialView, NoNodeAssumption DEF Live
  <2>3. {m \in Nodes : Executing(m)} = {} /\ {m \in Nodes : Executing(m)}' = {n}
    BY <2>1, <2>2 DEF Executing, TypeOK
  <2>4. Enqueued' = Enqueued /\ QueueSequence' = QueueSequence
    BY <1>1, <2>1 DEF Enqueued, QueueSequence
  <2> QED
    BY <1>1, <1>4, <2>1, <2>2, <2>3, <2>4 DEF Serial!Execute
<1>5. CASE attached /\ ~Skip(n) /\ ~Finish(n) /\ ~Start(n)
  <2>1. UNCHANGED <<queueVars, procVars>>
    BY <1>5
    DEF TaskStep, DieUnstarted, SessionInfo, ErrorEvent, TaskFails, ExitZero, ExitNonZero,
        DeliverCancel
  <2>2. \A m \in Nodes : Executing(m)' = Executing(m)
    BY <1>5
    DEF TaskStep, DieUnstarted, SessionInfo, ErrorEvent, TaskFails, ExitZero, ExitNonZero,
        DeliverCancel, Awaiting, Executing, taskVars, TypeOK
  <2> QED
    BY <1>1, <2>1, <2>2, QueueUntouched DEF queueVars, procVars
<1> QED
  BY <1>2, <1>3, <1>4, <1>5

\* The arrival of a message submits a job or does not concern the queue.
LEMMA MessageStepIsSerial ==
    ASSUME TypeOK, ScopedInv, NoIdleBacklog, BusyWithCurrent, MessageStep
    PROVE  (\E n \in Nodes : Serial!Submit(n)) \/ UNCHANGED Serial!jobVars
<1>1. CASE CreateTree
  <2>1. arrival[Root] = 0 /\ ~attached /\ Enqueue(Root) /\ attached'
    BY <1>1 DEF CreateTree, ScopedInv, EnqueuedOnce
  <2> QED
    BY <2>1, RootAssumption, EnqueueSubmits
<1>2. ASSUME NEW n \in Nodes, Admit(n), CanBeAdded(n) PROVE Serial!Submit(n)
  <2>1. /\ attached /\ attached' /\ Enqueue(n) /\ arrival[Root] # 0 /\ arrival[n] = 0
    BY <1>2 DEF Admit, CanBeAdded, ScopedInv, EnqueuedOnce
  <2> QED
    BY <2>1, EnqueueSubmits
<1>3. ASSUME NEW n \in Nodes,
             \/ Admit(n) /\ ~CanBeAdded(n)
             \/ SendFails(n)
             \/ \E p \in Nodes : Receive(n, p)
      PROVE  UNCHANGED Serial!jobVars
  <2>1. UNCHANGED <<attached, queue, arrival, currentNode, pc>>
    BY <1>3 DEF Admit, SendFails, Receive, queueVars, procVars, taskVars
  <2> QED
    BY <2>1, QueueUntouched DEF Executing
<1> QED
  BY <1>1, <1>2, <1>3 DEF MessageStep

\* Commands withdraw jobs, close the server, or do not concern it.
LEMMA CommandStepIsSerial ==
    ASSUME ScopedCommands, TypeOK, ScopedInv, CommandStep
    PROVE  \/ \E T \in SUBSET Nodes : Serial!Withdraw(T)
           \/ Serial!Close
           \/ UNCHANGED Serial!jobVars
<1>1. ~StopAll /\ ~ClearAll /\ ~ReplaceTreeQueue
  BY DEF StopAll, ClearAll, ReplaceTreeQueue, ScopedCommands, ScopedInv
<1>2. ASSUME NEW n \in Nodes, Stop(n) \/ ClearBranch(n)
      PROVE  \E T \in SUBSET Nodes : Serial!Withdraw(T)
  <2>1. attached /\ UNCHANGED <<attached, arrival, currentNode, pc>>
    BY <1>2 DEF Stop, ClearBranch, treeVars, procVars
  <2>2. CancelNodes({n}) \/ CancelNodes(get_descendants(n))
    BY <1>2 DEF Stop, ClearBranch, cancel_branch
  <2> QED
    BY <2>1, <2>2, CancelWithdraws
<1>3. ASSUME NEW n \in Nodes, RemoveBranch(n)
      PROVE  Serial!Close \/ UNCHANGED Serial!jobVars
  <2>1. CASE attached /\ n = Root
    <3>1. arrival[Root] # 0 /\ arrival' = arrival /\ ~attached'
      BY <1>3, <2>1, SerialView DEF RemoveBranch, remove_tree
    <3>2. Enqueued' = Enqueued
      BY <3>1 DEF Enqueued
    <3>3. Serial!Close
      BY <3>1, <3>2 DEF Serial!Close
    <3> QED
      BY <3>3
  <2>2. CASE ~(attached /\ n = Root)
    BY <1>3, <2>2, QueueUntouched DEF RemoveBranch, procVars, Executing
  <2> QED
    BY <2>1, <2>2
<1> QED
  BY <1>1, <1>2, <1>3 DEF CommandStep

\* A tree whose users stop and clear single messages and branches is a serial queue:
\* it runs one node at a time, in the order in which the messages came.
THEOREM ImplementsSerialQueueHolds ==
    ASSUME ScopedCommands
    PROVE  Spec => ImplementsSerialQueue
<1>1. Init => BusyWithCurrent /\ Serial!QueueInit
  <2> SUFFICES ASSUME Init PROVE BusyWithCurrent /\ Serial!QueueInit
    OBVIOUS
  <2>1. BusyWithCurrent
    BY DEF Init, BusyWithCurrent
  <2>2. Enqueued = {} /\ ~attached /\ arrival[Root] = 0
    BY RootAssumption DEF Init, Enqueued
  <2> QED
    BY <2>1, <2>2 DEF Serial!QueueInit
<1>2. TypeOK /\ ScopedInv /\ BusyWithCurrent /\ [Next]_vars => BusyWithCurrent'
  BY BusyStep
<1>3. TypeOK /\ ScopedInv /\ NoIdleBacklog /\ BusyWithCurrent /\ [Next]_vars
        => [Serial!QueueNext]_(Serial!jobVars)
  <2> SUFFICES ASSUME TypeOK, ScopedInv, NoIdleBacklog, BusyWithCurrent, [Next]_vars
               PROVE  [Serial!QueueNext]_(Serial!jobVars)
    OBVIOUS
  <2>1. ASSUME NEW n \in Nodes, TaskStep(n) PROVE [Serial!QueueNext]_(Serial!jobVars)
    BY <2>1, TaskStepIsSerial DEF Serial!QueueNext
  <2>2. CASE MessageStep
    BY <2>2, MessageStepIsSerial DEF Serial!QueueNext
  <2>3. CASE CommandStep
    BY <2>3, CommandStepIsSerial DEF Serial!QueueNext
  <2>4. CASE UNCHANGED vars
    <3>1. UNCHANGED <<attached, queue, arrival, currentNode, pc>>
      BY <2>4 DEF vars, treeVars, queueVars, procVars, taskVars
    <3> QED
      BY <3>1, QueueUntouched DEF Executing
  <2> QED
    BY <2>1, <2>2, <2>3, <2>4 DEF Next
<1> QED
  BY <1>1, <1>2, <1>3, ScopedInvHolds, TypeCorrect, NoIdleBacklogHolds, PTL
  DEF Spec, ImplementsSerialQueue, Serial!QueueSpec

=============================================================================
