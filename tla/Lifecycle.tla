------------------------------ MODULE Lifecycle ------------------------------
(***************************************************************************)
(* The bot's process from start to start: trees are restored from the      *)
(* file, the platform is connected, messages become nodes and run, the     *)
(* store saves them now and then, and the process shuts down or dies.      *)
(*                                                                         *)
(* Sources: api/runtime.py, start and stop of messaging/platforms/         *)
(* telegram.py and discord.py, to_dict, from_dict and cleanup_stale_nodes  *)
(* of messaging/trees/, and where messaging/handler.py saves a tree.       *)
(*                                                                         *)
(* A node is known in three places: live, in the trees the handlers work   *)
(* on; saved, in the store, as of the last save_tree of its tree; and      *)
(* written, in the file, as of the store's last write.  The store's        *)
(* threads and torn writes are in SessionStore, a tree's queue and tasks   *)
(* are in TreeQueue: here a write is one step and succeeds, a tree runs    *)
(* one open node at a time, and nobody sends /clear.                       *)
(*                                                                         *)
(* No name is one of SessionStore's: RuntimeProofs extends both.           *)
(***************************************************************************)
EXTENDS Naturals, FiniteSets

CONSTANTS
    Nodes,      \* messages of the user
    NoNode,     \* no parent
    Platforms,  \* of "telegram" and "discord"
    Attempts,   \* how often Telegram's start is tried (3)
    MaxStarts   \* bound: starts of the process

ASSUME NodesAssumption == NoNode \notin Nodes
ASSUME PlatformsAssumption == Platforms \subseteq {"telegram", "discord"}
ASSUME BoundsAssumption == Attempts \in Nat \ {0} /\ MaxStarts \in Nat \ {0}

VARIABLES
    platform,
    phase,      \* where the process is
    starts,     \* how often it was started
    attempt,    \* failed attempts of the platform's start, while it is tried
    running,    \* the platform's application, or client task, is running
    polling,    \* messages come in
    live, saved, written,   \* nodes, as above
    unsaved,    \* the store's timer is set
    tasks,      \* nodes whose CLI runs
    ours,       \* history: nodes that came in since the process was started
    kept        \* history: the live nodes when the store was last written

connVars == <<attempt, running, polling>>
nodeVars == <<live, saved, unsaved, tasks, ours>>
lifeVars == <<platform, phase, starts, connVars, nodeVars, written, kept>>

Open == {"pending", "in_progress"}
Unknown == [state |-> "unknown", parent |-> NoNode, session |-> FALSE]
Record == [state : Open \cup {"completed", "error"}, parent : Nodes \cup {NoNode},
           session : BOOLEAN]
Trees == [Nodes -> Record \cup {Unknown}]

LifeTypeOK ==
    /\ platform \in Platforms
    /\ phase \in {"down", "starting", "up", "flushed", "stopped"}
    /\ starts \in 0..MaxStarts /\ attempt \in 0..(Attempts - 1)
    /\ running \in BOOLEAN /\ polling \in BOOLEAN
    /\ live \in Trees /\ saved \in Trees /\ written \in Trees /\ kept \in Trees
    /\ unsaved \in BOOLEAN
    /\ tasks \subseteq Nodes /\ ours \subseteq Nodes

Nothing == [n \in Nodes |-> Unknown]

LifeInit ==
    /\ platform \in Platforms
    /\ phase = "down" /\ starts = 0
    /\ attempt = 0 /\ running = FALSE /\ polling = FALSE
    /\ live = Nothing /\ saved = Nothing /\ written = Nothing /\ kept = Nothing
    /\ unsaved = FALSE /\ tasks = {} /\ ours = {}

-----------------------------------------------------------------------------
(* Start.                                                                  *)

Known(n) == live[n] # Unknown

\* Mutant: only nodes that were running are taken for lost.
MutantCleanup(trees) ==
    [n \in Nodes |-> IF trees[n].state = "in_progress"
                       THEN [trees[n] EXCEPT !.state = "error"] ELSE trees[n]]

\* Mutant: what was running or was completed is taken for lost.
MutantCleanupAll(trees) ==
    [n \in Nodes |-> IF trees[n] # Unknown
                       THEN [trees[n] EXCEPT !.state = "error"] ELSE trees[n]]

\* "Lost during server restart."
cleanup_stale_nodes(trees) ==
    [n \in Nodes |-> IF trees[n].state \in Open
                       THEN [trees[n] EXCEPT !.state = "error"] ELSE trees[n]]

\* _restore_tree_state; only then the platform may deliver messages.  The store is told of
\* the nodes that were lost.
Startup ==
    /\ phase = "down" /\ starts < MaxStarts
    /\ starts' = starts + 1 /\ phase' = "starting"
    /\ live' = cleanup_stale_nodes(written)
    /\ saved' = live' /\ unsaved' = (live' # written)
    /\ tasks' = {} /\ ours' = {}
    /\ attempt' = 0 /\ running' = (platform = "discord")
    /\ polling' = FALSE
    /\ UNCHANGED <<platform, written, kept>>

\* Telegram's application is initialized and started, and begins to poll.
Connect ==
    /\ phase = "starting" /\ platform = "telegram" /\ ~running
    /\ running' = TRUE /\ polling' = TRUE /\ phase' = "up" /\ attempt' = 0
    /\ UNCHANGED <<platform, starts, nodeVars, written, kept>>

\* After the last attempt the process goes on without the bot.
NextAttempt ==
    IF attempt + 1 = Attempts THEN attempt' = 0 /\ phase' = "up"
                              ELSE attempt' = attempt + 1 /\ UNCHANGED phase

\* initialize or start fails.
InitializeFails ==
    /\ phase = "starting" /\ platform = "telegram" /\ ~running
    /\ NextAttempt
    /\ UNCHANGED <<platform, starts, running, polling, nodeVars, written, kept>>

\* The application runs, and start_polling fails.
PollingFails ==
    /\ phase = "starting" /\ platform = "telegram" /\ ~running
    /\ running' = TRUE
    /\ NextAttempt
    /\ UNCHANGED <<platform, starts, polling, nodeVars, written, kept>>

\* An application that runs already refuses to be started.
StartAgain ==
    /\ phase = "starting" /\ platform = "telegram" /\ running
    /\ NextAttempt
    /\ UNCHANGED <<platform, starts, running, polling, nodeVars, written, kept>>

\* Discord's client connects, in a task of its own: also when start has given up by then.
on_ready ==
    /\ phase \in {"starting", "up", "flushed"} /\ platform = "discord" /\ running
    /\ ~polling /\ polling' = TRUE
    /\ UNCHANGED <<platform, phase, starts, attempt, running, nodeVars, written,
                   kept>>

\* start finds it connected, or waits no longer.
DiscordStarted ==
    /\ phase = "starting" /\ platform = "discord" /\ phase' = "up"
    /\ UNCHANGED <<platform, starts, connVars, nodeVars, written, kept>>

-----------------------------------------------------------------------------
(* Nodes.                                                                  *)

Alive == phase # "down"

\* No chain of parents is longer than there are nodes.
RootIn(trees, n) ==
    LET up[k \in 0..Cardinality(Nodes)] ==
            IF k = 0 THEN n
            ELSE LET m == up[k - 1]
                 IN  IF trees[m].parent = NoNode THEN m ELSE trees[m].parent
    IN  up[Cardinality(Nodes)]

SameTree(trees, m, n) == trees[m] # Unknown /\ RootIn(trees, m) = RootIn(trees, n)

\* The replies below n that wait, and those that wait below them.
PendingBelow(n) ==
    LET waiting == {m \in Nodes : live[m].state = "pending"}
    IN  {m \in waiting : \A S \in SUBSET waiting :
            (\A c \in waiting : live[c].parent \in S \cup {n} => c \in S) => m \in S}

\* save_tree, with to_dict: the whole tree of n.
SaveTree(n) ==
    /\ saved' = [m \in Nodes |-> IF SameTree(live', m, n) THEN live'[m] ELSE saved[m]]
    /\ unsaved' = TRUE

NotSaved == UNCHANGED <<saved, unsaved>>

Update(n, state) == live' = [live EXCEPT ![n].state = state]

\* A message comes in.  It replies to p or to nothing; a p that is not known is nothing.
handle_message(n, p) ==
    /\ polling /\ ~Known(n) /\ p # n
    /\ live' = [live EXCEPT ![n] = [state |-> "pending", session |-> FALSE,
                                    parent |-> IF p # NoNode /\ Known(p) THEN p ELSE NoNode]]
    /\ SaveTree(n)
    /\ ours' = ours \cup {n}
    /\ UNCHANGED <<platform, phase, starts, connVars, tasks, written, kept>>

\* A node's turn has come: its CLI is started.  That it runs is not saved.
Run(n) ==
    /\ Alive /\ live[n].state = "pending"
    /\ \A m \in tasks : ~SameTree(live, m, n)
    /\ Update(n, "in_progress") /\ tasks' = tasks \cup {n}
    /\ NotSaved
    /\ UNCHANGED <<platform, phase, starts, connVars, ours, written, kept>>

\* The CLI tells its session.
SessionInfo(n) ==
    /\ n \in tasks /\ ~live[n].session
    /\ live' = [live EXCEPT ![n].session = TRUE, ![n].state = "in_progress"]
    /\ SaveTree(n)
    /\ UNCHANGED <<platform, phase, starts, connVars, tasks, ours, written, kept>>

\* _propagate_error_to_children: the node and the replies that wait for it have failed.
\* That is not saved.
MarkNodeError(n) ==
    /\ live' = [m \in Nodes |-> IF m \in {n} \cup PendingBelow(n)
                                  THEN [live[m] EXCEPT !.state = "error"] ELSE live[m]]
    /\ NotSaved

\* An error event; the CLI goes on.
ErrorEvent(n) ==
    /\ n \in tasks
    /\ MarkNodeError(n)
    /\ UNCHANGED <<platform, phase, starts, connVars, tasks, ours, written, kept>>

\* Launching or reading the CLI raises an exception, and the task ends.
TaskFails(n) ==
    /\ n \in tasks /\ tasks' = tasks \ {n}
    /\ MarkNodeError(n)
    /\ UNCHANGED <<platform, phase, starts, connVars, ours, written, kept>>

\* The CLI exits, after an error event if with an error: a node with a session is
\* completed, one without stays what it is.
CliExits(n) ==
    /\ n \in tasks /\ tasks' = tasks \ {n}
    /\ IF live[n].session THEN Update(n, "completed") /\ SaveTree(n)
                          ELSE UNCHANGED live /\ NotSaved
    /\ UNCHANGED <<platform, phase, starts, connVars, ours, written, kept>>

\* The user stops the node, or its task is cancelled otherwise.
Stop(n) ==
    /\ Alive /\ live[n].state \in Open /\ tasks' = tasks \ {n}
    /\ Update(n, "error") /\ SaveTree(n)
    /\ UNCHANGED <<platform, phase, starts, connVars, ours, written, kept>>

-----------------------------------------------------------------------------
(* Saving, and the end.                                                    *)

\* The store's timer.
SaveFromTimer ==
    /\ Alive /\ unsaved /\ unsaved' = FALSE
    /\ written' = saved /\ kept' = live
    /\ UNCHANGED <<platform, phase, starts, connVars, live, saved, tasks, ours>>

\* shutdown: first of all what is not saved yet is.
Flush ==
    /\ phase = "up" /\ phase' = "flushed" /\ unsaved' = FALSE
    /\ written' = saved /\ kept' = live
    /\ UNCHANGED <<platform, starts, connVars, live, saved, tasks, ours>>

\* Then the platform is stopped, or fails to stop, or is left after its time: messages that
\* are already in are handled on.
StopPlatform ==
    /\ phase = "flushed" /\ phase' = "stopped"
    /\ polling' \in {FALSE, polling}
    /\ running' = polling'
    /\ UNCHANGED <<platform, starts, attempt, nodeVars, written, kept>>

\* The CLI sessions are stopped, the rest is cleaned up, and the process ends; its timer
\* ends with it.
Die ==
    /\ phase' = "down" /\ polling' = FALSE /\ running' = FALSE /\ tasks' = {}
    /\ live' = Nothing /\ saved' = Nothing /\ unsaved' = FALSE /\ ours' = {}
    /\ UNCHANGED <<platform, starts, attempt, written, kept>>

ProcessEnds == phase = "stopped" /\ Die

ProcessCrashes == phase \in {"starting", "up", "flushed"} /\ Die

LifeNext ==
    \/ Startup \/ Connect \/ InitializeFails \/ PollingFails \/ StartAgain
    \/ on_ready \/ DiscordStarted
    \/ \E n \in Nodes :
         \/ \E p \in Nodes \cup {NoNode} : handle_message(n, p)
         \/ Run(n) \/ SessionInfo(n) \/ ErrorEvent(n) \/ TaskFails(n) \/ CliExits(n)
         \/ Stop(n)
    \/ SaveFromTimer \/ Flush \/ StopPlatform \/ ProcessEnds \/ ProcessCrashes

LifeSpec == LifeInit /\ [][LifeNext]_lifeVars

-----------------------------------------------------------------------------
(* Properties.                                                             *)

\* What the trees were when the store was last written survives every later end of the
\* process, though the failure of a node and the start of one are not saved: a node is
\* known again with its parent and its session, one that was completed is, and one that
\* had failed has not come to life.  Only what is younger than the last write is lost
\* (runtime.py flush_pending_save, _restore_tree_state).
WrittenIsRestored ==
    phase # "down" =>
        \A n \in Nodes : kept[n] # Unknown =>
            /\ Known(n)
            /\ live[n].parent = kept[n].parent
            /\ kept[n].session => live[n].session
            /\ kept[n].state = "completed" => live[n].state = "completed"
            /\ kept[n].state = "error" => live[n].state \notin Open \/ n \in tasks

\* A node that waits or runs came in since the process was started, and one that is said
\* to run does, or its CLI ended without a session (handler.py: complete).
OpenNodesAreOurs ==
    \A n \in Nodes : live[n].state \in Open =>
        /\ n \in ours
        /\ live[n].state = "in_progress" /\ n \notin tasks => ~live[n].session

=============================================================================
