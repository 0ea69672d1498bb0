------------------------------ MODULE TreeQueue ------------------------------
(***************************************************************************)
(* One conversation tree of the messaging bot: the nodes of the tree, its  *)
(* queue, the asyncio tasks that run the Claude CLI for its nodes, and the *)
(* user commands that cut across them.                                     *)
(*                                                                         *)
(* Sources: messaging/trees/data.py, processor.py, queue_manager.py,       *)
(* repository.py, the node-processing half of messaging/handler.py, and    *)
(* messaging/commands.py.                                                  *)
(*                                                                         *)
(* Granularity.  The program runs on one event loop, and the tree lock is  *)
(* never held across a suspension, so a stretch of code between two awaits *)
(* that can really suspend is one action.  Those awaits are: sending the   *)
(* status message of a new message, deleting messages during /clear, a new *)
(* task's first step, an event of the CLI, and removing the CLI session    *)
(* once a node is finished.                                                *)
(*                                                                         *)
(* A task is named by the node it processes: a node is enqueued once, when *)
(* it is added, so it never has two tasks.                                 *)
(***************************************************************************)
EXTENDS Naturals, Sequences, FiniteSets

CONSTANTS
    Nodes,      \* message ids that may become nodes of this tree
    Root,       \* the message that opens the conversation
    NoNode,     \* Python's None where a node id is expected
    Commands    \* the commands the users issue

ASSUME NodesAssumption == IsFiniteSet(Nodes)
ASSUME RootAssumption == Root \in Nodes
ASSUME NoNodeAssumption == NoNode \notin Nodes
ASSUME CommandsAssumption == Commands \subseteq {"stop", "stopall", "clear", "clearall"}

VARIABLES
    nodes,          \* tree._nodes: ids the tree holds
    parent,         \* node.parent_id, set as soon as a reply is resolved
    attached,       \* is the tree in the manager's repository?
    sending,        \* replies whose status message is still being sent
    state,          \* node.state
    reason,         \* node.error_message, as a class of messages
    session,        \* node.session_id is known (captured_session_id)
    queue,          \* tree._queue, as a set ...
    arrival,        \* ... ordered by the turn at which each node was enqueued
    isProcessing,   \* tree._is_processing
    currentNode,    \* tree._current_node_id
    currentTask,    \* tree._current_task
    pc,             \* where the node's task is
    cancelReq,      \* task.cancel() was called and not yet delivered
    clearing,       \* branches whose /clear is deleting messages
    clearingAll     \* a global /clear is deleting messages

treeVars == <<nodes, parent, attached, sending>>
nodeVars == <<state, reason, session>>
queueVars == <<queue, arrival>>
procVars == <<isProcessing, currentNode, currentTask>>
taskVars == <<pc, cancelReq>>
clearVars == <<clearing, clearingAll>>
vars == <<treeVars, nodeVars, queueVars, procVars, taskVars, clearVars>>

MessageState == {"pending", "in_progress", "completed", "error"}
Reasons == {"none", "cancelled", "failed", "parent_failed", "stale"}

\* none: no task; created: scheduled, not yet run; running: waiting for an event
\* of the CLI; orphan: the same, but the task found no tree for its node;
\* closing: removing the CLI session; done.
Phases == {"none", "created", "running", "orphan", "closing", "done"}

Executing(n) == pc[n] \in {"running", "orphan", "closing"}
Live(n) == pc[n] = "created" \/ Executing(n)
Terminal(n) == state[n] \in {"completed", "error"}

TypeOK ==
    /\ nodes \subseteq Nodes
    /\ parent \in [Nodes -> Nodes \cup {NoNode}]
    /\ attached \in BOOLEAN
    /\ sending \subseteq Nodes
    /\ state \in [Nodes -> MessageState]
    /\ reason \in [Nodes -> Reasons]
    /\ session \in [Nodes -> BOOLEAN]
    /\ queue \subseteq Nodes
    /\ arrival \in [Nodes -> Nat]
    /\ isProcessing \in BOOLEAN
    /\ currentNode \in Nodes \cup {NoNode}
    /\ currentTask \in Nodes \cup {NoNode}
    /\ pc \in [Nodes -> Phases]
    /\ cancelReq \in [Nodes -> BOOLEAN]
    /\ clearing \subseteq Nodes
    /\ clearingAll \in BOOLEAN

Init ==
    /\ nodes = {} /\ attached = FALSE /\ sending = {}
    /\ parent = [n \in Nodes |-> NoNode]
    /\ state = [n \in Nodes |-> "pending"]
    /\ reason = [n \in Nodes |-> "none"]
    /\ session = [n \in Nodes |-> FALSE]
    /\ queue = {} /\ arrival = [n \in Nodes |-> 0]
    /\ isProcessing = FALSE /\ currentNode = NoNode /\ currentTask = NoNode
    /\ pc = [n \in Nodes |-> "none"]
    /\ cancelReq = [n \in Nodes |-> FALSE]
    /\ clearing = {} /\ clearingAll = FALSE

-----------------------------------------------------------------------------
(* The shape of the tree.                                                  *)

\* The nodes reached from n through children that satisfy eligible, n excluded:
\* the least set closed under "eligible child of".
Below(n, eligible) ==
    {m \in eligible : \A S \in SUBSET eligible :
        (\A c \in eligible : parent[c] \in S \cup {n} => c \in S) => m \in S}

get_descendants(n) == {n} \cup Below(n, nodes)

get_pending_children(n) == Below(n, {m \in nodes : state[m] = "pending"})

-----------------------------------------------------------------------------
(* Scheduling.                                                             *)

\* Mutant: last in, first out.
MutantIsHead(n) == n \in queue /\ \A m \in queue : arrival[n] >= arrival[m]

\* The queue is first in, first out.
IsHead(n) == n \in queue /\ \A m \in queue : arrival[n] <= arrival[m]

\* TreeQueueProcessor._process_next, run by the task `last` as its last step: the
\* tree is marked free, or ...
MarkFree(last) ==
    /\ queue = {}
    /\ isProcessing' = FALSE /\ currentNode' = NoNode
    /\ pc' = [pc EXCEPT ![last] = "done"]
    /\ UNCHANGED <<queue, currentTask>>

\* ... the next id is dequeued, and its task starts if the tree still has the node.
Dequeue(last, next) ==
    /\ IsHead(next)
    /\ queue' = queue \ {next}
    /\ isProcessing' = TRUE /\ currentNode' = next
    /\ IF next \in nodes
         THEN /\ currentTask' = next
              /\ pc' = [pc EXCEPT ![last] = "done", ![next] = "created"]
         ELSE /\ pc' = [pc EXCEPT ![last] = "done"]
              /\ UNCHANGED currentTask

ProcessNext(last) == MarkFree(last) \/ \E next \in Nodes : Dequeue(last, next)

Enqueued == {n \in Nodes : arrival[n] # 0}

\* Mutant: a task is started without looking whether the tree is busy.
MutantEnqueue(n) ==
    /\ arrival' = [arrival EXCEPT ![n] = 1 + Cardinality(Enqueued)]
    /\ isProcessing' = TRUE /\ currentNode' = n /\ currentTask' = n
    /\ pc' = [pc EXCEPT ![n] = "created"]
    /\ UNCHANGED queue

\* TreeQueueProcessor.enqueue_and_start.
Enqueue(n) ==
    /\ arrival' = [arrival EXCEPT ![n] = 1 + Cardinality(Enqueued)]
    /\ IF isProcessing
         THEN /\ queue' = queue \cup {n}
              /\ UNCHANGED <<procVars, pc>>
         ELSE /\ isProcessing' = TRUE /\ currentNode' = n
              /\ currentTask' = n
              /\ pc' = [pc EXCEPT ![n] = "created"]
              /\ UNCHANGED queue

-----------------------------------------------------------------------------
(* Messages.                                                               *)

\* A message that replies to nothing known opens the tree.
CreateTree ==
    /\ arrival[Root] = 0
    /\ nodes' = {Root} /\ attached' = TRUE
    /\ Enqueue(Root)
    /\ UNCHANGED <<parent, sending, nodeVars, cancelReq, clearVars>>

\* The message a reply answers is a node of a tree in the repository (or the status
\* message of one).
Resolves(p) == attached /\ p \in nodes

\* A reply to p arrives and its parent is resolved; then its status message is
\* sent, and meanwhile anything may happen to the tree.
Receive(n, p) ==
    /\ n # Root /\ parent[n] = NoNode
    /\ Resolves(p)
    /\ parent' = [parent EXCEPT ![n] = p]
    /\ sending' = sending \cup {n}
    /\ UNCHANGED <<nodes, attached, nodeVars, queueVars, procVars, taskVars, clearVars>>

\* add_to_tree raises ValueError if the parent, or its tree, is gone by now.
CanBeAdded(n) == attached /\ parent[n] \in nodes
add_node(n) == nodes' = nodes \cup {n}

\* The status message is out: the reply becomes a node and is enqueued, or
\* it is lost.
Admit(n) ==
    /\ n \in sending
    /\ sending' = sending \ {n}
    /\ IF CanBeAdded(n)
         THEN add_node(n) /\ Enqueue(n)
         ELSE UNCHANGED <<nodes, queueVars, procVars, pc>>
    /\ UNCHANGED <<parent, attached, nodeVars, cancelReq, clearVars>>

\* The status message could not be sent: the reply is not added.
SendFails(n) ==
    /\ n \in sending
    /\ sending' = sending \ {n}
    /\ UNCHANGED <<nodes, parent, attached, nodeVars, queueVars, procVars, taskVars,
                   clearVars>>

-----------------------------------------------------------------------------
(* The task of a node: TreeQueueProcessor.process_node around              *)
(* ClaudeMessageHandler._process_node.                                     *)

\* A task that is cancelled before its first step never enters process_node, so
\* neither its body nor its finally clause runs.
DieUnstarted(n) ==
    /\ pc[n] = "created" /\ cancelReq[n]
    /\ pc' = [pc EXCEPT ![n] = "done"]
    /\ UNCHANGED <<treeVars, nodeVars, queueVars, procVars, cancelReq, clearVars>>

\* Mutant: a node in error is skipped, and the tree is not handed on.
MutantSkip(n) ==
    /\ pc[n] = "created" /\ ~cancelReq[n] /\ state[n] = "error"
    /\ pc' = [pc EXCEPT ![n] = "done"]
    /\ UNCHANGED <<treeVars, nodeVars, queueVars, procVars, cancelReq, clearVars>>

\* A node that is already in error is skipped.
Skip(n) ==
    /\ pc[n] = "created" /\ ~cancelReq[n] /\ state[n] = "error"
    /\ ProcessNext(n)
    /\ UNCHANGED <<treeVars, nodeVars, arrival, cancelReq, clearVars>>

\* Otherwise the node is in progress and its CLI is launched.
Start(n) ==
    /\ pc[n] = "created" /\ ~cancelReq[n] /\ state[n] # "error"
    /\ IF attached /\ n \in nodes
         THEN /\ state' = [state EXCEPT ![n] = "in_progress"]
              /\ pc' = [pc EXCEPT ![n] = "running"]
         ELSE /\ pc' = [pc EXCEPT ![n] = "orphan"]
              /\ UNCHANGED state
    /\ UNCHANGED <<treeVars, reason, session, queueVars, procVars, cancelReq,
                   clearVars>>

Awaiting(n) == pc[n] \in {"running", "orphan"} /\ ~cancelReq[n]

\* tree.update_state reaches the node only through a tree the task has, and only
\* while the tree still holds it.
Reachable(n) == pc[n] = "running" /\ n \in nodes

\* _handle_session_info_event: the CLI tells its session id.
SessionInfo(n) ==
    /\ Awaiting(n) /\ Reachable(n) /\ ~session[n]
    /\ session' = [session EXCEPT ![n] = TRUE]
    /\ state' = [state EXCEPT ![n] = "in_progress"]
    /\ UNCHANGED <<treeVars, reason, queueVars, procVars, taskVars, clearVars>>

\* TreeQueueManager.mark_node_error: the node and its pending descendants, found
\* through the repository ...
Affected(n) ==
    IF Reachable(n) /\ attached THEN {n} \cup get_pending_children(n) ELSE {}

\* ... and why each of them failed.
MarkedReason(n) ==
    [m \in Nodes |-> IF m \notin Affected(n) THEN reason[m]
                     ELSE IF m = n THEN "failed" ELSE "parent_failed"]

MarkNodeError(n) ==
    /\ state' = [m \in Nodes |-> IF m \in Affected(n) THEN "error" ELSE state[m]]
    /\ reason' = MarkedReason(n)

\* An error event, in the CLI's output or made from its stderr; the CLI goes on.
ErrorEvent(n) ==
    /\ Awaiting(n)
    /\ MarkNodeError(n)
    /\ UNCHANGED <<treeVars, session, queueVars, procVars, taskVars, clearVars>>

\* Launching or reading the CLI raises an exception.
TaskFails(n) ==
    /\ Awaiting(n)
    /\ MarkNodeError(n)
    /\ pc' = [pc EXCEPT ![n] = "closing"]
    /\ UNCHANGED <<treeVars, session, queueVars, procVars, cancelReq, clearVars>>

\* The CLI exits with code 0: one "complete" event.
ExitZero(n) ==
    /\ Awaiting(n)
    /\ state' = IF Reachable(n) /\ session[n]
                  THEN [state EXCEPT ![n] = "completed"] ELSE state
    /\ pc' = [pc EXCEPT ![n] = "closing"]
    /\ UNCHANGED <<treeVars, reason, session, queueVars, procVars, cancelReq, clearVars>>

\* The CLI exits with another code: an "error" event, then a "complete" event whose
\* status the handler does not look at.
ExitNonZero(n) ==
    /\ Awaiting(n)
    /\ state' = [m \in Nodes |->
         IF m = n /\ Reachable(n) /\ session[n] THEN "completed"
         ELSE IF m \in Affected(n) THEN "error" ELSE state[m]]
    /\ reason' = MarkedReason(n)
    /\ pc' = [pc EXCEPT ![n] = "closing"]
    /\ UNCHANGED <<treeVars, session, queueVars, procVars, cancelReq, clearVars>>

\* The cancellation is delivered once the CLI process is stopped (the stop is
\* shielded from a second cancellation); the handler swallows it.
DeliverCancel(n) ==
    /\ pc[n] \in {"running", "orphan"} /\ cancelReq[n]
    /\ IF Reachable(n)
         THEN /\ state' = [state EXCEPT ![n] = "error"]
              /\ reason' = [reason EXCEPT ![n] = "cancelled"]
         ELSE UNCHANGED <<state, reason>>
    /\ pc' = [pc EXCEPT ![n] = "closing"]
    /\ UNCHANGED <<treeVars, session, queueVars, procVars, cancelReq, clearVars>>

\* The CLI session is removed, or its removal is cancelled; the finally clause of
\* process_node clears the current node and processes the next one.
Finish(n) ==
    /\ pc[n] = "closing"
    /\ ProcessNext(n)
    /\ UNCHANGED <<treeVars, nodeVars, arrival, cancelReq, clearVars>>

-----------------------------------------------------------------------------
(* Commands.                                                               *)

\* task.cancel() on the current task, if it is not done yet.
CurrentTaskLive == currentTask # NoNode /\ pc[currentTask] # "done"
CancelCurrentTask ==
    cancelReq' = IF CurrentTaskLive THEN [cancelReq EXCEPT ![currentTask] = TRUE]
                                    ELSE cancelReq

\* Mutant: nodes are marked without cancelling the running task.
MutantCancelNodesUncancelled(targets) ==
    LET affected == {n \in targets \cap nodes : ~Terminal(n)}
    IN  /\ queue' = queue \ affected
        /\ state' = [n \in Nodes |-> IF n \in affected THEN "error" ELSE state[n]]
        /\ reason' = [n \in Nodes |-> IF n \in affected THEN "cancelled" ELSE reason[n]]
        /\ UNCHANGED cancelReq

\* The part cancel_node and cancel_branch share: the nodes of targets that have not
\* ended are cancelled if current, taken off the queue, and marked.
CancelNodes(targets) ==
    LET affected == {n \in targets \cap nodes : ~Terminal(n)}
    IN  /\ IF currentNode \in affected THEN CancelCurrentTask ELSE UNCHANGED cancelReq
        /\ queue' = queue \ affected
        /\ state' = [n \in Nodes |-> IF n \in affected THEN "error" ELSE state[n]]
        /\ reason' = [n \in Nodes |-> IF n \in affected THEN "cancelled" ELSE reason[n]]

\* /stop in reply to n: stop_task and cancel_node.
Stop(n) ==
    /\ "stop" \in Commands
    /\ attached /\ n \in nodes
    /\ CancelNodes({n})
    /\ UNCHANGED <<treeVars, session, arrival, procVars, pc, clearVars>>

\* Mutant: the processing flag is not reset.
MutantCancelTreeBusy ==
    /\ CancelCurrentTask
    /\ queue' = {}
    /\ state' = [n \in Nodes |-> IF n \in nodes /\ ~Terminal(n) THEN "error" ELSE state[n]]
    /\ reason' = [n \in Nodes |-> IF n \in nodes /\ ~Terminal(n) THEN "stale" ELSE reason[n]]
    /\ UNCHANGED procVars

\* Mutant: the queue is drained without marking its nodes.
MutantCancelTreeUnmarked ==
    /\ CancelCurrentTask
    /\ queue' = {}
    /\ isProcessing' = FALSE /\ currentNode' = NoNode
    /\ UNCHANGED <<state, reason, currentTask>>

\* TreeQueueManager.cancel_tree.
CancelTree ==
    LET current == IF CurrentTaskLive /\ currentNode \in nodes /\ ~Terminal(currentNode)
                     THEN {currentNode} ELSE {}
        drained == queue \cap nodes
        stale == {n \in nodes : ~Terminal(n)} \ (current \cup drained)
    IN  /\ CancelCurrentTask
        /\ queue' = {}
        /\ state' = [n \in Nodes |-> IF n \in current \cup drained \cup stale
                                       THEN "error" ELSE state[n]]
        /\ reason' = [n \in Nodes |-> IF n \in current \cup drained THEN "cancelled"
                                      ELSE IF n \in stale THEN "stale" ELSE reason[n]]
        /\ isProcessing' = FALSE /\ currentNode' = NoNode
        /\ UNCHANGED currentTask

\* /stop on its own: cancel_all, for this tree.  Stopping the CLI sessions, which
\* follows, makes their processes exit.
StopAll ==
    /\ "stopall" \in Commands
    /\ attached
    /\ CancelTree
    /\ UNCHANGED <<treeVars, session, arrival, pc, clearVars>>

cancel_branch(b) == CancelNodes(get_descendants(b))

\* /clear in reply to b, first half: cancel_branch, then the messages of the branch
\* are deleted.
ClearBranch(b) ==
    /\ "clear" \in Commands
    /\ attached /\ b \in nodes
    /\ cancel_branch(b)
    /\ clearing' = clearing \cup {b}
    /\ UNCHANGED <<treeVars, session, arrival, procVars, pc, clearingAll>>

\* What tree.remove_branch and repository.remove_tree leave.
WithoutBranch(b) == nodes \ get_descendants(b)
remove_tree == attached' = FALSE

\* Mutant: the tree is dropped without cancelling it first.
MutantRemoveBranch(b) ==
    /\ b \in clearing
    /\ clearing' = clearing \ {b}
    /\ IF attached /\ b = Root
         THEN remove_tree /\ UNCHANGED nodes
         ELSE /\ nodes' = IF attached /\ b \in nodes
                            THEN WithoutBranch(b) ELSE nodes
              /\ UNCHANGED attached
    /\ UNCHANGED <<parent, sending, state, reason, session, queueVars, procVars,
                   taskVars, clearingAll>>

\* Second half: remove_branch; the root takes the whole tree with it.
RemoveBranch(b) ==
    /\ b \in clearing
    /\ clearing' = clearing \ {b}
    /\ IF attached /\ b = Root
         THEN /\ CancelTree
              /\ remove_tree
              /\ UNCHANGED nodes
         ELSE /\ nodes' = IF attached /\ b \in nodes
                            THEN WithoutBranch(b) ELSE nodes
              /\ UNCHANGED <<attached, state, reason, cancelReq, queue, procVars>>
    /\ UNCHANGED <<parent, sending, session, arrival, pc, clearingAll>>

\* /clear on its own, first half: stop_all_tasks, then the chat is emptied.
ClearAll ==
    /\ "clearall" \in Commands
    /\ attached /\ ~clearingAll
    /\ CancelTree
    /\ clearingAll' = TRUE
    /\ UNCHANGED <<treeVars, session, arrival, pc, clearing>>

\* Second half: a new TreeQueueManager replaces the one that held this tree.
ReplaceTreeQueue ==
    /\ clearingAll
    /\ clearingAll' = FALSE
    /\ attached' = FALSE
    /\ UNCHANGED <<nodes, parent, sending, nodeVars, queueVars, procVars, taskVars,
                   clearing>>

-----------------------------------------------------------------------------

\* What the event loop and the CLI do for node n.
TaskStep(n) ==
    \/ DieUnstarted(n) \/ Skip(n) \/ Start(n)
    \/ SessionInfo(n) \/ ErrorEvent(n) \/ TaskFails(n) \/ ExitZero(n) \/ ExitNonZero(n)
    \/ DeliverCancel(n) \/ Finish(n)

MessageStep ==
    \/ CreateTree
    \/ \E n \in Nodes : Admit(n) \/ SendFails(n) \/ \E p \in Nodes : Receive(n, p)

CommandStep ==
    \/ StopAll \/ ClearAll \/ ReplaceTreeQueue
    \/ \E n \in Nodes : Stop(n) \/ ClearBranch(n) \/ RemoveBranch(n)

Next == MessageStep \/ CommandStep \/ \E n \in Nodes : TaskStep(n)

Spec == Init /\ [][Next]_vars

\* The event loop runs every task that is ready, Telegram and Discord answer, and a
\* CLI that is left alone exits or breaks; nothing makes a user send a command.
Fairness ==
    /\ WF_vars(CreateTree)
    /\ WF_vars(ReplaceTreeQueue)
    /\ \A n \in Nodes :
        /\ WF_vars(DieUnstarted(n) \/ Skip(n) \/ Start(n))
        /\ WF_vars(ExitZero(n) \/ ExitNonZero(n) \/ TaskFails(n) \/ DeliverCancel(n))
        /\ WF_vars(Finish(n))
        /\ WF_vars(Admit(n) \/ SendFails(n))
        /\ WF_vars(RemoveBranch(n))

FairSpec == Spec /\ Fairness

-----------------------------------------------------------------------------
(* Properties.                                                             *)

\* Per-tree serial processing: of all the nodes of a conversation at most one has a
\* CLI running or being torn down (enqueue_and_start and _process_next hand over).
OneAtATime == \A m, n \in Nodes : Executing(m) /\ Executing(n) => m = n

\* A tree that is marked free has nothing left in its queue: enqueue_and_start and
\* _process_next never leave a message behind that no later step would dequeue.
NoIdleBacklog == queue # {} => isProcessing

\* A reply is worked on only once the message it replies to is off the queue and its
\* task is over, so that the session to fork from is known by then.
ReplyAfterParent ==
    \A n \in Nodes : Live(n) /\ parent[n] # NoNode =>
        parent[n] \notin queue /\ ~Live(parent[n])

\* A request that was reported to the user as stopped is never turned into a
\* completed one by the CLI output that is still under way.
StoppedNeverCompletes ==
    \A n \in Nodes : reason[n] = "cancelled" => state[n] = "error"

\* A node the user sees as queued (pending) really waits: it is on the queue, or its
\* task is about to start.
PendingMeansQueued ==
    \A n \in nodes : attached /\ state[n] = "pending" => n \in queue \/ pc[n] = "created"

\* No message is in limbo: a free tree has left nothing on its queue, and what is shown
\* as waiting does wait, whichever commands come in between.
NothingInLimbo == NoIdleBacklog /\ PendingMeansQueued

\* Once a tree is dropped (/clear), no task of it goes on working for it: each is
\* being cancelled or only tidies up.
DroppedTreeIsQuiet ==
    arrival[Root] # 0 /\ ~attached =>
        \A n \in Nodes : Live(n) => cancelReq[n] \/ pc[n] = "closing"

\* A tree that is marked as processing is being worked on, and will hand itself on:
\* nodes that failed on the queue, or end in any way, do not leave it busy with nobody
\* at work.  Two ways in which the code does leave it so are named: the task of the
\* current node was cancelled before its first step, or the node was removed from the
\* tree while it was on the queue (_process_next starts no task for it).
BusyIsWorkedOn ==
    \A n \in nodes : isProcessing /\ currentNode = n /\ ~cancelReq[n] => Live(n)

\* Every message that is queued is eventually taken off the queue, processed or
\* skipped, and its task ends.
QueuedIsServed ==
    \A n \in Nodes : (n \in queue \/ Live(n)) ~> (n \notin queue /\ ~Live(n))

-----------------------------------------------------------------------------
(* The tree as a serial queue.                                             *)

\* s holds each element of S, in the order of their turns.
InTurn(s, S, turn) ==
    /\ \A n \in S : \E i \in DOMAIN s : s[i] = n
    /\ \A i, j \in DOMAIN s : i < j => turn[s[i]] < turn[s[j]]

ByTurn(S, turn) == CHOOSE s \in [1..Cardinality(S) -> S] : InTurn(s, S, turn)

\* The queue as the sequence the program keeps.
QueueSequence == ByTurn(queue, arrival)

Serial == INSTANCE SerialQueue WITH
    Jobs <- Nodes,
    NoJob <- NoNode,
    submitted <- Enqueued,
    waiting <- IF attached THEN QueueSequence ELSE <<>>,
    active <- IF attached THEN currentNode ELSE NoNode,
    running <- IF attached THEN {n \in Nodes : Executing(n)} ELSE {},
    open <- attached \/ arrival[Root] = 0

\* A tree whose users stop and clear single messages and branches is a serial queue
\* until it is dropped: one node at a time, in the order the messages came
\* (enqueue_and_start, _process_next, remove_from_queue).
ImplementsSerialQueue == Serial!QueueSpec

-----------------------------------------------------------------------------
(* The inductive invariant behind OneAtATime, ReplyAfterParent and         *)
(* StoppedNeverCompletes, where no command stops the whole chat at once.   *)

ScopedCommands == Commands \subseteq {"stop", "clear"}

\* A node is enqueued when it is admitted, and never before.
EnqueuedOnce ==
    /\ \A n \in sending : n # Root /\ parent[n] # NoNode /\ arrival[n] = 0
    /\ \A n \in Nodes : arrival[n] = 0 => pc[n] = "none" /\ n \notin queue /\ n \notin nodes
    /\ \A n \in Nodes \ {Root} : parent[n] = NoNode => arrival[n] = 0
    /\ parent[Root] = NoNode
    /\ arrival[Root] = 0 => ~attached /\ Enqueued = {}

\* Turns are given out in order and once: a parent has an earlier one than its replies.
TurnsInOrder ==
    /\ \A n \in Nodes : arrival[n] <= Cardinality(Enqueued)
    /\ \A m, n \in Enqueued : arrival[m] = arrival[n] => m = n
    /\ \A n \in Nodes : arrival[n] # 0 /\ parent[n] # NoNode =>
           arrival[parent[n]] # 0 /\ arrival[parent[n]] < arrival[n]

\* The only task that is alive is the tree's current one, and as long as the tree is
\* in use it holds the processing flag for its node.
LiveIsCurrent ==
    \A n \in Nodes : Live(n) =>
        currentTask = n /\ (attached => isProcessing /\ currentNode = n)

\* What is on the queue has no task yet and comes after what is being processed.
QueueWaits ==
    \A n \in queue : pc[n] = "none" /\ \A m \in Nodes : Live(m) => arrival[m] < arrival[n]

\* A node that was stopped while its CLI runs has its cancellation under way.
StopIsDelivered ==
    \A n \in Nodes : reason[n] = "cancelled" =>
        state[n] = "error" /\ (pc[n] = "running" /\ n \in nodes => cancelReq[n])

ScopedInv ==
    /\ EnqueuedOnce
    /\ TurnsInOrder
    /\ LiveIsCurrent
    /\ QueueWaits
    /\ StopIsDelivered
    /\ ~attached => queue = {}
    /\ ~clearingAll

\* The tree is in use by its current node, and not before its root is.
BusyWithCurrent ==
    /\ isProcessing <=> currentNode # NoNode
    /\ arrival[Root] = 0 => ~isProcessing

-----------------------------------------------------------------------------
(* The inductive invariant behind PendingMeansQueued, for all commands.    *)

\* What the tree says of its current node and task is about nodes that were enqueued,
\* and the same one as long as the tree holds the node.
CurrentIsKnown ==
    /\ \A n \in Nodes : arrival[n] = 0 =>
           currentNode # n /\ currentTask # n /\ ~cancelReq[n]
    /\ currentNode \in nodes => currentTask = currentNode

\* A node whose task is cancelled has been marked, so that nobody misses it should the
\* task end before its first step.
CancelledIsMarked == \A n \in nodes : attached /\ cancelReq[n] => state[n] # "pending"

LimboInv ==
    /\ EnqueuedOnce
    /\ CurrentIsKnown
    /\ CancelledIsMarked
    /\ PendingMeansQueued

=============================================================================
