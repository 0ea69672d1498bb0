----------------------------- MODULE CliSessions -----------------------------
(***************************************************************************)
(* The pool of Claude CLI sessions: the manager's maps and its lock, the   *)
(* subprocess of each session, the registry of pids, and the handler tasks *)
(* and global stops that use them at the same time.                        *)
(*                                                                         *)
(* Sources: cli/manager.py, cli/session.py, cli/process_registry.py, and   *)
(* the calls that messaging/handler.py and api/runtime.py make to them.    *)
(*                                                                         *)
(* Granularity.  One event loop: a stretch between two awaits that can     *)
(* suspend is one action.  The manager's lock is an asyncio.Lock, first    *)
(* come first served; taking it suspends only when it is held or waited    *)
(* for, and only stopping a live process suspends while it is held.        *)
(*                                                                         *)
(* The handler always asks for a new session, so a session is named by the *)
(* task that made it, and so are its temporary id, its real id (the CLI    *)
(* makes a fresh one for every run) and its process.                       *)
(***************************************************************************)
EXTENDS FiniteSets

CONSTANTS
    Tasks,      \* handler tasks, one run of the CLI each
    Sweeper,    \* the caller of stop_all
    NoTask,     \* no task
    Commands    \* what interrupts the tasks: "stop", "stopall", "clear", "shutdown"

ASSUME TasksAssumption == IsFiniteSet(Tasks)
ASSUME NamesAssumption == Sweeper \notin Tasks /\ NoTask \notin Tasks /\ Sweeper # NoTask
ASSUME CommandsAssumption == Commands \subseteq {"stop", "stopall", "clear", "shutdown"}

VARIABLES
    pc,             \* where each handler task is
    cancelReq,      \* task.cancel() was called and not yet delivered
    known,          \* the session id the handler holds: temporary, real or none
    generator,      \* the start_task generator of the task
    shielded,       \* a stop() that start_task shields is under way
    proc,           \* the process of the session
    registered,     \* is its pid in process_registry._pids?
    pending,        \* _pending_sessions, by temporary id
    sessions,       \* _sessions, by real id
    tempToReal,     \* _temp_to_real, by temporary id
    realToTemp,     \* _real_to_temp, by real id
    lockQ,          \* _lock: its holder and those that wait for it ...
    ahead,          \* ... and, for each, those that came before it
    sweep,          \* where stop_all is
    toStop,         \* sessions stop_all has still to stop ...
    target,         \* ... and the one it is stopping
    inProgress,     \* tasks whose node is neither COMPLETED nor ERROR
    dropped,        \* tasks whose tree /clear has removed
    interrupted     \* history: /stop or /clear cancelled the task in its remove_session

taskVars == <<pc, cancelReq, known, generator, shielded>>
procVars == <<proc, registered>>
mapVars == <<pending, sessions, tempToReal, realToTemp>>
lockVars == <<lockQ, ahead>>
sweepVars == <<sweep, toStop, target>>
nodeVars == <<inProgress, dropped, interrupted>>
vars == <<taskVars, procVars, mapVars, lockVars, sweepVars, nodeVars>>

\* idle: not started; getting, registering, leaving: waiting for the manager's lock;
\* spawning: create_subprocess_exec; reading: stdout; draining: stderr and exit code;
\* halting: cancelled, awaiting the shielded stop(); stopping: in remove_session,
\* holding the lock while the process stops; done.
Phases == {"idle", "getting", "spawning", "reading", "registering", "draining",
           "halting", "leaving", "stopping", "done"}
Interruptible == {"getting", "spawning", "reading", "registering", "draining"}

\* none: not created; running; term: sent SIGTERM; killed: sent SIGKILL; dead.
ProcStates == {"none", "running", "term", "killed", "dead"}
Alive(t) == proc[t] \in {"running", "term", "killed"}
Actors == Tasks \cup {Sweeper}
Managed == pending \cup sessions
Started(t) == pc[t] \notin {"idle", "done"}

TypeOK ==
    /\ pc \in [Tasks -> Phases]
    /\ cancelReq \in [Tasks -> BOOLEAN]
    /\ known \in [Tasks -> {"none", "temp", "real"}]
    /\ generator \in [Tasks -> {"none", "open", "abandoned", "closed"}]
    /\ shielded \in [Tasks -> BOOLEAN]
    /\ proc \in [Tasks -> ProcStates]
    /\ registered \in [Tasks -> BOOLEAN]
    /\ pending \subseteq Tasks /\ sessions \subseteq Tasks
    /\ tempToReal \subseteq Tasks /\ realToTemp \subseteq Tasks
    /\ lockQ \subseteq Actors
    /\ ahead \in [Actors -> SUBSET Actors]
    /\ sweep \in {"idle", "waiting", "stopping"}
    /\ toStop \subseteq Tasks
    /\ IF sweep = "stopping" THEN target \in Tasks ELSE target = NoTask
    /\ inProgress \subseteq Tasks /\ dropped \subseteq Tasks /\ interrupted \subseteq Tasks

Init ==
    /\ pc = [t \in Tasks |-> "idle"]
    /\ cancelReq = [t \in Tasks |-> FALSE]
    /\ known = [t \in Tasks |-> "none"]
    /\ generator = [t \in Tasks |-> "none"]
    /\ shielded = [t \in Tasks |-> FALSE]
    /\ proc = [t \in Tasks |-> "none"]
    /\ registered = [t \in Tasks |-> FALSE]
    /\ pending = {} /\ sessions = {} /\ tempToReal = {} /\ realToTemp = {}
    /\ lockQ = {} /\ ahead = [w \in Actors |-> {}]
    /\ sweep = "idle" /\ toStop = {} /\ target = NoTask
    /\ inProgress = {} /\ dropped = {} /\ interrupted = {}

-----------------------------------------------------------------------------
(* The lock.                                                               *)

\* The lock is handed over in the order of arrival; one who is first in line and has
\* not run yet does not hold it, but nobody else can take it.
HasLock(w) == w \in lockQ /\ ahead[w] = {}

\* w, first in line or alone, goes on with the lock in its hands.
Hold(w) ==
    /\ lockQ' = lockQ \cup {w}
    /\ UNCHANGED ahead

\* w waits behind all others.
Wait(w) ==
    /\ lockQ' = lockQ \cup {w}
    /\ ahead' = [v \in Actors |-> IF v = w THEN lockQ \ {w} ELSE ahead[v] \ {w}]

\* w releases the lock, stops waiting for it, or never had to.
Release(w) ==
    /\ lockQ' = lockQ \ {w}
    /\ ahead' = [v \in Actors |-> IF v = w THEN {} ELSE ahead[v] \ {w}]

-----------------------------------------------------------------------------
(* remove_session.                                                         *)

\* remove_session(id) with the lock its caller's: the session is taken out of its
\* map and stopped.  A live process is sent SIGTERM and waited for with the lock held;
\* otherwise the id maps are cleaned and the call returns.
RemoveNow(t) ==
    LET found == (known[t] = "temp" /\ t \in pending) \/ (known[t] = "real" /\ t \in sessions)
        unmapped == IF found /\ known[t] = "real" THEN {t} ELSE {}
    IN  /\ pending' = IF known[t] = "temp" THEN pending \ {t} ELSE pending
        /\ sessions' = IF known[t] = "real" THEN sessions \ {t} ELSE sessions
        /\ IF found /\ Alive(t)
             THEN /\ pc' = [pc EXCEPT ![t] = "stopping"]
                  /\ proc' = [proc EXCEPT ![t] = IF @ = "running" THEN "term" ELSE @]
                  /\ Hold(t)
                  /\ UNCHANGED <<tempToReal, realToTemp>>
             ELSE /\ pc' = [pc EXCEPT ![t] = "done"]
                  /\ Release(t)
                  /\ tempToReal' = tempToReal \ unmapped
                  /\ realToTemp' = realToTemp \ unmapped
                  /\ UNCHANGED proc

\* Mutant: the removal is skipped when the manager is busy.
MutantLeave(t) ==
    IF lockQ \ {t} = {}
      THEN RemoveNow(t)
      ELSE /\ pc' = [pc EXCEPT ![t] = "done"]
           /\ Release(t)
           /\ UNCHANGED <<proc, mapVars>>

\* The handler's finally clause, which removes the session under the id it holds.
Leave(t) ==
    IF lockQ \ {t} = {}
      THEN RemoveNow(t)
      ELSE /\ pc' = [pc EXCEPT ![t] = "leaving"]
           /\ Wait(t)
           /\ UNCHANGED <<proc, mapVars>>

\* start_task's finally clause: the generator is over and the pid forgotten.
EndGenerator(t) ==
    /\ generator' = [generator EXCEPT ![t] = "closed"]
    /\ registered' = [registered EXCEPT ![t] = FALSE]

\* The handler leaves its loop over an event: the generator, suspended at a yield,
\* is closed by the event loop some time later.
AbandonGenerator(t) ==
    /\ generator' = [generator EXCEPT ![t] = "abandoned"]
    /\ UNCHANGED registered

EnterRemove(t) ==
    /\ pc[t] = "leaving" /\ HasLock(t) /\ ~cancelReq[t]
    /\ RemoveNow(t)
    /\ UNCHANGED <<cancelReq, known, generator, shielded, registered, sweepVars, nodeVars>>

\* The process remove_session waits for is dead.
FinishRemove(t) ==
    /\ pc[t] = "stopping" /\ proc[t] = "dead" /\ ~cancelReq[t]
    /\ pc' = [pc EXCEPT ![t] = "done"]
    /\ registered' = [registered EXCEPT ![t] = FALSE]
    /\ tempToReal' = IF known[t] = "real" THEN tempToReal \ {t} ELSE tempToReal
    /\ realToTemp' = IF known[t] = "real" THEN realToTemp \ {t} ELSE realToTemp
    /\ Release(t)
    /\ UNCHANGED <<cancelReq, known, generator, shielded, proc, pending, sessions, sweepVars,
                   nodeVars>>

-----------------------------------------------------------------------------
(* A run of the CLI.                                                       *)

\* get_or_create_session(None), then start_task up to the creation of its process.
Create(t) ==
    /\ pending' = pending \cup {t}
    /\ known' = [known EXCEPT ![t] = "temp"]
    /\ pc' = [pc EXCEPT ![t] = "spawning"]
    /\ Release(t)
    /\ UNCHANGED <<cancelReq, generator, shielded, procVars, sessions, tempToReal, realToTemp,
                   sweepVars>>

\* The tree has set the node IN_PROGRESS.
Start(t) ==
    /\ pc[t] = "idle"
    /\ inProgress' = inProgress \cup {t} /\ UNCHANGED <<dropped, interrupted>>
    /\ IF lockQ = {}
         THEN Create(t)
         ELSE /\ pc' = [pc EXCEPT ![t] = "getting"]
              /\ Wait(t)
              /\ UNCHANGED <<cancelReq, known, generator, shielded, procVars, mapVars, sweepVars>>

Get(t) ==
    /\ pc[t] = "getting" /\ HasLock(t) /\ ~cancelReq[t]
    /\ Create(t)
    /\ UNCHANGED nodeVars

Spawn(t) ==
    /\ pc[t] = "spawning" /\ ~cancelReq[t]
    /\ proc' = [proc EXCEPT ![t] = "running"]
    /\ registered' = [registered EXCEPT ![t] = TRUE]
    /\ generator' = [generator EXCEPT ![t] = "open"]
    /\ pc' = [pc EXCEPT ![t] = "reading"]
    /\ UNCHANGED <<cancelReq, known, shielded, mapVars, lockVars, sweepVars, nodeVars>>

\* The handler marks the node of t, and with it the nodes that wait for it, as failed.
MarkError(t) == inProgress' = inProgress \ {t} /\ UNCHANGED <<dropped, interrupted>>

\* The CLI cannot be started; start_task raises.
SpawnFails(t) ==
    /\ pc[t] = "spawning" /\ ~cancelReq[t]
    /\ EndGenerator(t)
    /\ MarkError(t)
    /\ Leave(t)
    /\ UNCHANGED <<cancelReq, known, shielded, sweepVars>>

\* Mutant: the handler keeps the temporary id.
MutantTakeRealId(t) == UNCHANGED known

TakeRealId(t) == known' = [known EXCEPT ![t] = "real"]

\* register_real_session_id; the handler goes on with the real id whatever it returns,
\* and sets the node IN_PROGRESS, even one that an error event has marked.
RegisterNow(t) ==
    /\ IF t \in pending
         THEN /\ pending' = pending \ {t}
              /\ sessions' = sessions \cup {t}
              /\ tempToReal' = tempToReal \cup {t}
              /\ realToTemp' = realToTemp \cup {t}
         ELSE UNCHANGED mapVars
    /\ TakeRealId(t)
    /\ pc' = [pc EXCEPT ![t] = "reading"]
    /\ inProgress' = inProgress \cup {t}
    /\ Release(t)

\* The CLI's first line carries its session id.
SessionInfo(t) ==
    /\ pc[t] = "reading" /\ known[t] = "temp" /\ ~cancelReq[t]
    /\ IF lockQ = {}
         THEN RegisterNow(t)
         ELSE /\ pc' = [pc EXCEPT ![t] = "registering"]
              /\ Wait(t)
              /\ UNCHANGED <<known, mapVars, inProgress>>
    /\ UNCHANGED <<cancelReq, generator, shielded, procVars, sweepVars, dropped, interrupted>>

Register(t) ==
    /\ pc[t] = "registering" /\ HasLock(t) /\ ~cancelReq[t]
    /\ RegisterNow(t)
    /\ UNCHANGED <<cancelReq, generator, shielded, procVars, sweepVars, dropped, interrupted>>

\* The CLI reports an error, or start_task what it wrote to stderr; the run goes on.
ErrorEvent(t) ==
    /\ pc[t] \in {"reading", "draining"} /\ ~cancelReq[t]
    /\ t \in inProgress
    /\ MarkError(t)
    /\ UNCHANGED <<taskVars, procVars, mapVars, lockVars, sweepVars>>

\* The process closes its stdout, by exiting or before.
EndOfOutput(t) ==
    /\ pc[t] = "reading" /\ ~cancelReq[t]
    /\ pc' = [pc EXCEPT ![t] = "draining"]
    /\ UNCHANGED <<cancelReq, known, generator, shielded, procVars, mapVars, lockVars, sweepVars,
                   nodeVars>>

\* The process has exited and its last event is handled: the node is marked as failed
\* if the code is not 0, and completed if the run has a session id.  Without one it
\* stays IN_PROGRESS after code 0.
Exit(t) ==
    /\ pc[t] = "draining" /\ proc[t] = "dead" /\ ~cancelReq[t]
    /\ \/ inProgress' = inProgress \ {t}
       \/ known[t] = "temp" /\ UNCHANGED inProgress
    /\ UNCHANGED <<dropped, interrupted>>
    /\ EndGenerator(t)
    /\ Leave(t)
    /\ UNCHANGED <<cancelReq, known, shielded, sweepVars>>

\* Handling an event raises.
HandlerFails(t) ==
    /\ pc[t] \in {"reading", "draining"} /\ ~cancelReq[t]
    /\ AbandonGenerator(t)
    /\ MarkError(t)
    /\ Leave(t)
    /\ UNCHANGED <<cancelReq, known, shielded, sweepVars>>

CloseGenerator(t) ==
    /\ generator[t] = "abandoned"
    /\ EndGenerator(t)
    /\ UNCHANGED <<pc, cancelReq, known, shielded, proc, mapVars, lockVars, sweepVars, nodeVars>>

-----------------------------------------------------------------------------
(* Cancellation.                                                           *)

\* The CancelledError reaches the task where it is suspended.  Its node was marked as
\* failed by the one who cancelled it.
Cancelled(t) ==
    /\ cancelReq[t]
    /\ cancelReq' = [cancelReq EXCEPT ![t] = FALSE]
    /\ UNCHANGED <<known, sweepVars, nodeVars>>

\* Mutant: an interrupted remove_session keeps the lock.
MutantCancelAtLock(t) ==
    /\ pc[t] \in {"getting", "leaving", "stopping"} /\ Cancelled(t)
    /\ pc' = [pc EXCEPT ![t] = "done"]
    /\ IF pc[t] = "stopping" THEN UNCHANGED lockVars ELSE Release(t)
    /\ UNCHANGED <<generator, shielded, procVars, mapVars>>

\* In get_or_create_session or remove_session.  A removal that was stopping its process
\* has taken the session out of its map; the stop() it awaits is interrupted with it.
CancelAtLock(t) ==
    /\ pc[t] \in {"getting", "leaving", "stopping"} /\ Cancelled(t)
    /\ pc' = [pc EXCEPT ![t] = "done"]
    /\ Release(t)
    /\ UNCHANGED <<generator, shielded, procVars, mapVars>>

\* In start_task, but not in its loop over stdout: the generator just ends.  (asyncio
\* kills the child of a create_subprocess_exec that is cancelled.)
CancelOutsideLoop(t) ==
    /\ pc[t] \in {"spawning", "draining", "halting"} /\ Cancelled(t)
    /\ EndGenerator(t)
    /\ Leave(t)
    /\ UNCHANGED shielded

\* In the loop over stdout: start_task stops its process, in a stop() that a second
\* cancellation does not reach.
CancelReading(t) ==
    /\ pc[t] = "reading" /\ Cancelled(t)
    /\ IF Alive(t)
         THEN /\ proc' = [proc EXCEPT ![t] = IF @ = "running" THEN "term" ELSE @]
              /\ shielded' = [shielded EXCEPT ![t] = TRUE]
              /\ pc' = [pc EXCEPT ![t] = "halting"]
              /\ UNCHANGED <<generator, registered, mapVars, lockVars>>
         ELSE /\ EndGenerator(t)
              /\ Leave(t)
              /\ UNCHANGED shielded

\* In register_real_session_id.
CancelRegistering(t) ==
    /\ pc[t] = "registering" /\ Cancelled(t)
    /\ AbandonGenerator(t)
    /\ Leave(t)
    /\ UNCHANGED shielded

\* The shielded stop() returns to the start_task that awaits it ...
Halted(t) ==
    /\ pc[t] = "halting" /\ proc[t] = "dead" /\ ~cancelReq[t]
    /\ shielded' = [shielded EXCEPT ![t] = FALSE]
    /\ EndGenerator(t)
    /\ Leave(t)
    /\ UNCHANGED <<cancelReq, known, sweepVars, nodeVars>>

\* ... or ends on its own, start_task having been cancelled again.
BackgroundStopped(t) ==
    /\ shielded[t] /\ pc[t] # "halting" /\ proc[t] = "dead"
    /\ shielded' = [shielded EXCEPT ![t] = FALSE]
    /\ registered' = [registered EXCEPT ![t] = FALSE]
    /\ UNCHANGED <<pc, cancelReq, known, generator, proc, mapVars, lockVars, sweepVars, nodeVars>>

-----------------------------------------------------------------------------
(* The process.                                                            *)

\* The tasks that wait in stop() for the process of t.
BeingStopped(t) == shielded[t] \/ pc[t] = "stopping" \/ target = t

\* stop() has waited five seconds.
KillTimeout(t) ==
    /\ proc[t] = "term" /\ BeingStopped(t)
    /\ proc' = [proc EXCEPT ![t] = "killed"]
    /\ UNCHANGED <<taskVars, registered, mapVars, lockVars, sweepVars, nodeVars>>

\* A process may exit at any time, and on SIGTERM need not.
ProcessExits(t) ==
    /\ Alive(t)
    /\ proc' = [proc EXCEPT ![t] = "dead"]
    /\ UNCHANGED <<taskVars, registered, mapVars, lockVars, sweepVars, nodeVars>>

-----------------------------------------------------------------------------
(* stop_all.                                                               *)

\* Mutant: the lock is released while a session is being stopped.
MutantStopOne(left) ==
    \E t \in left, passed \in SUBSET {u \in left : ~Alive(u)} :
        /\ Alive(t)
        /\ proc' = [proc EXCEPT ![t] = IF @ = "running" THEN "term" ELSE @]
        /\ sweep' = "stopping" /\ target' = t
        /\ toStop' = left \ ({t} \cup passed)
        /\ Release(Sweeper)
        /\ UNCHANGED mapVars

\* The loop over the sessions passes over those without a live process, in any order,
\* until one is sent SIGTERM and waited for ...
StopOne(left) ==
    \E t \in left, passed \in SUBSET {u \in left : ~Alive(u)} :
        /\ Alive(t)
        /\ proc' = [proc EXCEPT ![t] = IF @ = "running" THEN "term" ELSE @]
        /\ sweep' = "stopping" /\ target' = t
        /\ toStop' = left \ ({t} \cup passed)
        /\ Hold(Sweeper)
        /\ UNCHANGED mapVars

\* ... and at its end the maps are emptied.
EmptyPool ==
    /\ sweep' = "idle" /\ target' = NoTask /\ toStop' = {}
    /\ pending' = {} /\ sessions' = {} /\ tempToReal' = {} /\ realToTemp' = {}
    /\ Release(Sweeper)
    /\ UNCHANGED proc

SweepOn(left) == StopOne(left) \/ ((\A t \in left : ~Alive(t)) /\ EmptyPool)

BeginStopAll ==
    /\ sweep = "idle"
    /\ IF lockQ = {}
         THEN SweepOn(Managed)
         ELSE /\ sweep' = "waiting"
              /\ Wait(Sweeper)
              /\ UNCHANGED <<proc, mapVars, toStop, target>>

\* /stop on its own: stop_all_tasks cancels the current task of every tree, marks the
\* nodes that are in progress as failed, then calls stop_all.  A task that is already
\* unwinding may have been replaced as current task, or its tree may be gone.
StopAllTasks ==
    /\ "stopall" \in Commands
    /\ BeginStopAll
    /\ \E unwinding \in SUBSET {t \in Tasks \ dropped : pc[t] \in {"halting", "leaving", "stopping"}} :
        cancelReq' = [t \in Tasks |-> cancelReq[t] \/ pc[t] \in Interruptible \/ t \in unwinding]
    /\ inProgress' = {}
    /\ UNCHANGED <<pc, known, generator, shielded, registered, dropped, interrupted>>

\* AppRuntime.shutdown calls stop_all and cancels nothing.
Shutdown ==
    /\ "shutdown" \in Commands
    /\ BeginStopAll
    /\ UNCHANGED <<taskVars, registered, nodeVars>>

EnterStopAll ==
    /\ sweep = "waiting" /\ HasLock(Sweeper)
    /\ SweepOn(Managed)
    /\ UNCHANGED <<taskVars, registered, nodeVars>>

StopNext ==
    /\ sweep = "stopping" /\ proc[target] = "dead"
    /\ registered' = [registered EXCEPT ![target] = FALSE]
    /\ SweepOn(toStop)
    /\ UNCHANGED <<taskVars, nodeVars>>

-----------------------------------------------------------------------------
(* A single task.                                                          *)

\* task.cancel() on the current task of a tree, whose node is marked as failed.
CancelTask(t) ==
    /\ cancelReq' = [cancelReq EXCEPT ![t] = TRUE]
    /\ inProgress' = inProgress \ {t}
    /\ interrupted' = IF pc[t] \in {"leaving", "stopping"} THEN interrupted \cup {t} ELSE interrupted
    /\ UNCHANGED <<pc, known, generator, shielded, procVars, mapVars, lockVars, sweepVars>>

\* /stop in reply to the message of t, or the first step of /clear in reply to it
\* (cancel_node, cancel_branch): only a node in progress is cancelled.
StopTask(t) ==
    /\ Commands \cap {"stop", "clear"} # {}
    /\ Started(t) /\ t \in inProgress
    /\ CancelTask(t)
    /\ UNCHANGED dropped

\* The second step of /clear at the root of the tree of t (remove_branch, cancel_tree):
\* the tree is forgotten and its current task cancelled, whatever state its node is in.
ClearTree(t) ==
    /\ "clear" \in Commands
    /\ Started(t) /\ t \notin dropped
    /\ CancelTask(t)
    /\ dropped' = dropped \cup {t}

-----------------------------------------------------------------------------
Run(t) ==
    \/ Get(t) \/ Spawn(t) \/ SpawnFails(t) \/ Register(t) \/ Exit(t)
    \/ EnterRemove(t) \/ FinishRemove(t) \/ Halted(t)
Interrupt(t) ==
    \/ CancelAtLock(t) \/ CancelOutsideLoop(t) \/ CancelReading(t) \/ CancelRegistering(t)
Output(t) == SessionInfo(t) \/ ErrorEvent(t) \/ EndOfOutput(t) \/ HandlerFails(t)

Next ==
    \/ \E t \in Tasks : Start(t) \/ Run(t) \/ Output(t) \/ Interrupt(t)
    \/ \E t \in Tasks : StopTask(t) \/ ClearTree(t)
    \/ \E t \in Tasks : CloseGenerator(t) \/ BackgroundStopped(t)
    \/ \E t \in Tasks : KillTimeout(t) \/ ProcessExits(t)
    \/ StopAllTasks \/ Shutdown \/ EnterStopAll \/ StopNext

Spec == Init /\ [][Next]_vars

\* Fairness: the event loop runs what is ready, and its timers fire; the operating
\* system creates processes and ends those it killed.  Nothing makes the CLI write,
\* end its output, or exit.
FairSpec ==
    /\ Spec
    /\ \A t \in Tasks :
        /\ WF_vars(Run(t)) /\ WF_vars(Interrupt(t)) /\ WF_vars(BackgroundStopped(t))
        /\ WF_vars(KillTimeout(t)) /\ WF_vars(proc[t] = "killed" /\ ProcessExits(t))
    /\ WF_vars(EnterStopAll) /\ WF_vars(StopNext)

-----------------------------------------------------------------------------
(* Properties.                                                             *)

\* A finished run leaves nothing in the pool, under either id, unless stop_all is
\* about to empty it: the handler's finally clause removes the session under the id
\* it holds, and register_real_session_id changes that id and the maps together.  The
\* clause waits for the manager's lock, and a cancellation that comes then ends it: so
\* a run without a session id, still in progress while its removal waits, stays pending
\* when it is stopped, and any run may stay in the maps when its tree is cleared.
SlotFreed ==
    \A t \in Tasks : pc[t] = "done" /\ Sweeper \notin lockQ =>
        /\ t \in pending => t \in interrupted
        /\ t \in sessions \cup tempToReal \cup realToTemp => t \in interrupted \cap dropped

\* A process of the pool that nobody has told to stop is being read by a start_task
\* that will forget its pid only at the end, or its removal is queued for the lock,
\* or stop_all is: no interruption of start_task, of the handler or of remove_session
\* leaves a CLI in the pool running that nobody will stop.  The one exception is a
\* removal interrupted by /clear of its tree: an interrupted /stop leaves a session
\* behind (SlotFreed), but not a process.
NoRunaway ==
    \A t \in Tasks : proc[t] = "running" /\ t \in Managed =>
        \/ pc[t] \in {"reading", "registering", "draining"} /\ registered[t]
        \/ pc[t] = "leaving"
        \/ Sweeper \in lockQ
        \/ t \in interrupted \cap dropped

\* When stop_all empties the maps, no session with a real id still has a live
\* process: the lock is held over the whole loop, so none was registered after the
\* loop's snapshot was taken.
SweepIsThorough ==
    [][sweep # "idle" /\ sweep' = "idle" => \A t \in sessions : ~Alive(t)]_vars

\* A cancelled task ends, even if its CLI ignores SIGTERM and others are being
\* stopped with the manager's lock held.
StopTakesEffect == \A t \in Tasks : cancelReq[t] ~> pc[t] = "done"

\* A new run gets past the manager's lock, whatever is stopped while it waits.
LockPassedOn == \A t \in Tasks : pc[t] = "getting" ~> pc[t] # "getting"

\* The lock that is held while processes are stopped, for up to ten seconds each, keeps
\* neither a stopped run nor a new one for ever (manager.py remove_session, stop_all).
NothingHangs == StopTakesEffect /\ LockPassedOn

=============================================================================
