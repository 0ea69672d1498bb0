----------------------------- MODULE SessionStore -----------------------------
(***************************************************************************)
(* The session store of the bot: conversation trees, the map from message  *)
(* ids to trees, the log of message ids, and the JSON file they are saved  *)
(* to by a debounce timer that runs in a thread of its own.                *)
(*                                                                         *)
(* Source: messaging/session.py; its shutdown and restart are those of     *)
(* api/runtime.py.                                                         *)
(*                                                                         *)
(* Granularity.  A method body under the store's lock is one action.       *)
(* Writing the file happens outside the lock, in two steps: opening, which *)
(* truncates the file, and writing.  The event loop's own thread (Main)    *)
(* writes in flush_pending_save and clear_all, the timer threads in        *)
(* _save_from_timer.  Tree data is the set of the ids of its nodes; the    *)
(* log is that of one chat, since logs of chats share nothing.             *)
(***************************************************************************)
EXTENDS Naturals, Sequences, FiniteSets

CONSTANTS
    NodeIds,    \* ids of the user's messages, which become nodes
    StatusIds,  \* ids of the bot's status messages
    Roots,      \* the node ids that open a tree
    NoRoot,     \* no tree
    Messages,   \* the message ids recorded for /clear
    Cap,        \* MAX_MESSAGE_LOG_ENTRIES_PER_CHAT
    Timers,     \* bound: the timer threads that are alive at a time
    Main,       \* the thread of the event loop
    NoTimer,    \* no timer
    Faults      \* "overlap": a write may last until another one starts;
                \* "failure": a write may fail; "crash": the process may die

ASSUME RootsAssumption == Roots \subseteq NodeIds /\ NoRoot \notin NodeIds
ASSUME CapAssumption == Cap \in Nat \ {0}
ASSUME ThreadsAssumption == Main \notin Timers /\ NoTimer \notin Timers
ASSUME FaultsAssumption == Faults \subseteq {"overlap", "failure", "crash"}

VARIABLES
    trees,      \* _trees: the nodes of each saved tree, none if it is not saved
    nodeMap,    \* _node_to_tree
    log,        \* _message_log of the chat
    seen,       \* _message_log_ids of the chat
    dirty,      \* _dirty
    failed,     \* history: a write failed, and nothing has made up for it yet
    timer,      \* _save_timer
    stage,      \* what each thread is doing
    snap,       \* the snapshot each thread is writing
    file,       \* what the file holds
    life        \* the process is up, stopping or down

dataVars == <<trees, nodeMap, log, seen>>
saveVars == <<dirty, failed, timer, stage, snap>>
vars == <<dataVars, saveVars, file, life>>

Ids == NodeIds \cup StatusIds
Threads == Timers \cup {Main}

\* _snapshot.
Snapshot == [trees |-> trees, nodeMap |-> nodeMap, log |-> log]
Snapshots ==
    [trees : [Roots -> SUBSET NodeIds], nodeMap : [Ids -> Roots \cup {NoRoot}],
     log : Seq(Messages)]

Empty == [trees |-> [r \in Roots |-> {}], nodeMap |-> [i \in Ids |-> NoRoot], log |-> <<>>]

\* What the file holds: a snapshot, or nothing that parses, because it does not exist,
\* was opened and not yet written, or holds a part of a write or a mixture of two.
Json(s) == [kind |-> "json", data |-> s]
NoJson(why) == [kind |-> why, data |-> Empty]
FileContents == [kind : {"json", "absent", "truncated", "garbled"}, data : Snapshots]

InFlight(w) == stage[w] \in {"opening", "writing"}

TypeOK ==
    /\ trees \in [Roots -> SUBSET NodeIds]
    /\ nodeMap \in [Ids -> Roots \cup {NoRoot}]
    /\ log \in Seq(Messages)
    /\ seen \subseteq Messages
    /\ dirty \in BOOLEAN /\ failed \in BOOLEAN
    /\ timer \in Timers \cup {NoTimer}
    /\ stage \in [Threads -> {"idle", "armed", "fired", "opening", "writing"}]
    /\ snap \in [Threads -> Snapshots]
    /\ file \in FileContents
    /\ life \in {"up", "stopping", "down"}

Init ==
    /\ trees = Empty.trees /\ nodeMap = Empty.nodeMap /\ log = <<>> /\ seen = {}
    /\ dirty = FALSE /\ failed = FALSE /\ timer = NoTimer
    /\ stage = [w \in Threads |-> "idle"]
    /\ snap = [w \in Threads |-> Empty]
    /\ file = NoJson("absent")
    /\ life = "up"

-----------------------------------------------------------------------------
(* Saving.                                                                 *)

\* A timer that is still waiting is cancelled; one that has fired is not.
Waiting == timer # NoTimer /\ stage[timer] = "armed"

\* Mutant: the waiting timer is cancelled and not replaced.
MutantSchedule ==
    /\ dirty' = TRUE /\ failed' = FALSE
    /\ IF Waiting
         THEN timer' = NoTimer /\ stage' = [stage EXCEPT ![timer] = "idle"]
         ELSE \E t \in Timers :
                /\ stage[t] = "idle"
                /\ timer' = t
                /\ stage' = [stage EXCEPT ![t] = "armed"]
    /\ UNCHANGED snap

\* _schedule_save: the timer that was waiting is replaced by a new one.
_schedule_save ==
    /\ dirty' = TRUE /\ failed' = FALSE
    /\ IF Waiting
         THEN UNCHANGED <<timer, stage>>
         ELSE \E t \in Timers :
                /\ stage[t] = "idle"
                /\ timer' = t
                /\ stage' = [stage EXCEPT ![t] = "armed"]
    /\ UNCHANGED snap

\* Unless writes overlap, a thread finds no other write under way.
MayWrite == "overlap" \in Faults \/ \A w \in Threads : ~InFlight(w)

\* _flush_save: the waiting timer is cancelled, and Main goes on to write a snapshot
\* of the data as it will be.
_flush_save ==
    /\ MayWrite
    /\ dirty' = FALSE /\ failed' = FALSE /\ timer' = NoTimer
    /\ stage' = [w \in Threads |-> IF w = Main THEN "opening"
                                   ELSE IF Waiting /\ w = timer THEN "idle" ELSE stage[w]]
    /\ snap' = [snap EXCEPT ![Main] = Snapshot']

\* The debounce interval of an armed timer is over.
Fire(t) ==
    /\ stage[t] = "armed"
    /\ stage' = [stage EXCEPT ![t] = "fired"]
    /\ UNCHANGED <<dataVars, dirty, failed, timer, snap, file, life>>

\* _save_from_timer up to the write: nothing to do, or a snapshot is taken.
_save_from_timer(t) ==
    /\ stage[t] = "fired"
    /\ timer' = NoTimer /\ dirty' = FALSE /\ failed' = FALSE
    /\ IF dirty
         THEN /\ MayWrite
              /\ stage' = [stage EXCEPT ![t] = "opening"]
              /\ snap' = [snap EXCEPT ![t] = Snapshot]
         ELSE /\ stage' = [stage EXCEPT ![t] = "idle"]
              /\ UNCHANGED snap
    /\ UNCHANGED <<dataVars, file, life>>

\* _write_data, first step: the file is opened, which empties it.
OpenFile(w) ==
    /\ stage[w] = "opening"
    /\ stage' = [stage EXCEPT ![w] = "writing"]
    /\ file' = NoJson("truncated")
    /\ UNCHANGED <<dataVars, dirty, failed, timer, snap, life>>

\* Second step: the snapshot is written from the start of the file.  If somebody
\* else's is there and is longer, its end remains.
WriteFile(w) ==
    /\ stage[w] = "writing"
    /\ stage' = [stage EXCEPT ![w] = "idle"]
    /\ snap' = [snap EXCEPT ![w] = Empty]
    /\ \/ file' = Json(snap[w])
       \/ file.kind # "truncated" /\ file' = NoJson("garbled")
    /\ UNCHANGED <<dataVars, dirty, failed, timer, life>>

\* Either step raises an exception: the store is dirty again, and no timer is set.
WriteFails(w) ==
    /\ "failure" \in Faults
    /\ InFlight(w)
    /\ file' = IF stage[w] = "opening" THEN file ELSE NoJson("garbled")
    /\ stage' = [stage EXCEPT ![w] = "idle"]
    /\ snap' = [snap EXCEPT ![w] = Empty]
    /\ dirty' = TRUE /\ failed' = TRUE
    /\ UNCHANGED <<dataVars, timer, life>>

-----------------------------------------------------------------------------
(* The methods the handler calls.                                          *)

Ready == life # "down" /\ stage[Main] = "idle"

\* Mutant: the index is not rebuilt when the log is cut.
MutantRecord(m) ==
    /\ Ready /\ m \notin seen
    /\ LET longer == Append(log, m)
           cut == SubSeq(longer, IF Len(longer) > Cap THEN Len(longer) - Cap + 1 ELSE 1,
                         Len(longer))
       IN  log' = cut /\ seen' = seen \cup {m}
    /\ _schedule_save
    /\ UNCHANGED <<trees, nodeMap, file, life>>

\* record_message_id: ids are logged once, and the oldest give way beyond Cap.
record_message_id(m) ==
    /\ Ready /\ m \notin seen
    /\ LET longer == Append(log, m)
           cut == SubSeq(longer, IF Len(longer) > Cap THEN Len(longer) - Cap + 1 ELSE 1,
                         Len(longer))
       IN  log' = cut /\ seen' = {cut[i] : i \in DOMAIN cut}
    /\ _schedule_save
    /\ UNCHANGED <<trees, nodeMap, file, life>>

\* save_tree: the tree as it is now, with the ids of all its nodes.
save_tree(r, N) ==
    /\ Ready
    /\ trees' = [trees EXCEPT ![r] = N]
    /\ nodeMap' = [i \in Ids |-> IF i \in N THEN r ELSE nodeMap[i]]
    /\ _schedule_save
    /\ UNCHANGED <<log, seen, file, life>>

register_node(i, r) ==
    /\ Ready
    /\ nodeMap' = [nodeMap EXCEPT ![i] = r]
    /\ _schedule_save
    /\ UNCHANGED <<trees, log, seen, file, life>>

remove_node_mappings(N) ==
    /\ Ready
    /\ nodeMap' = [i \in Ids |-> IF i \in N THEN NoRoot ELSE nodeMap[i]]
    /\ _schedule_save
    /\ UNCHANGED <<trees, log, seen, file, life>>

\* remove_tree: the tree and the mappings of its nodes.
remove_tree(r) ==
    /\ Ready /\ trees[r] # {}
    /\ nodeMap' = [i \in Ids |-> IF i \in trees[r] THEN NoRoot ELSE nodeMap[i]]
    /\ trees' = [trees EXCEPT ![r] = {}]
    /\ _schedule_save
    /\ UNCHANGED <<log, seen, file, life>>

\* Mutant: the snapshot is taken before the data is cleared.
MutantClear ==
    /\ Ready /\ MayWrite
    /\ trees' = Empty.trees /\ nodeMap' = Empty.nodeMap /\ log' = <<>> /\ seen' = {}
    /\ dirty' = FALSE /\ failed' = FALSE /\ timer' = NoTimer
    /\ stage' = [w \in Threads |-> IF w = Main THEN "opening"
                                   ELSE IF Waiting /\ w = timer THEN "idle" ELSE stage[w]]
    /\ snap' = [snap EXCEPT ![Main] = Snapshot]
    /\ UNCHANGED <<file, life>>

clear_all ==
    /\ Ready
    /\ trees' = Empty.trees /\ nodeMap' = Empty.nodeMap /\ log' = <<>> /\ seen' = {}
    /\ _flush_save
    /\ UNCHANGED <<file, life>>

-----------------------------------------------------------------------------
(* The life of the process.                                                *)

\* AppRuntime.shutdown begins with flush_pending_save.  The tasks it stops afterwards
\* may still use the store.
flush_pending_save ==
    /\ Ready /\ life = "up"
    /\ life' = "stopping"
    /\ UNCHANGED <<dataVars, file>>
    /\ _flush_save

NothingRuns == [w \in Threads |-> "idle"]
NothingHeld == [w \in Threads |-> Empty]

\* The process ends: its timers are daemon threads and do not keep it alive.
Exit ==
    /\ Ready /\ life = "stopping"
    /\ life' = "down"
    /\ stage' = NothingRuns /\ snap' = NothingHeld
    /\ UNCHANGED <<dataVars, dirty, failed, timer, file>>

Crash ==
    /\ "crash" \in Faults /\ life # "down"
    /\ life' = "down"
    /\ stage' = NothingRuns /\ snap' = NothingHeld
    /\ UNCHANGED <<dataVars, dirty, failed, timer, file>>

\* What a restart makes of a file: one that cannot be parsed counts as empty.
Loaded(f) == IF f.kind = "json" THEN f.data ELSE Empty

\* _load, in a new process.
_load ==
    /\ life = "down"
    /\ life' = "up"
    /\ trees' = Loaded(file).trees
    /\ nodeMap' = Loaded(file).nodeMap
    /\ log' = Loaded(file).log
    /\ seen' = {Loaded(file).log[i] : i \in DOMAIN Loaded(file).log}
    /\ dirty' = FALSE /\ failed' = FALSE /\ timer' = NoTimer
    /\ UNCHANGED <<stage, snap, file>>

-----------------------------------------------------------------------------

\* sync_from_tree_data after a restart is a save_tree of every tree.
MainStep ==
    \/ \E m \in Messages : record_message_id(m)
    \/ \E r \in Roots, N \in SUBSET NodeIds : r \in N /\ save_tree(r, N)
    \/ \E i \in Ids, r \in Roots : register_node(i, r)
    \/ \E N \in SUBSET NodeIds : remove_node_mappings(N)
    \/ \E r \in Roots : remove_tree(r)
    \/ clear_all \/ flush_pending_save

WriteStep(w) == OpenFile(w) \/ WriteFile(w) \/ WriteFails(w)

TimerStep(t) == Fire(t) \/ _save_from_timer(t) \/ WriteStep(t)

Next ==
    \/ MainStep \/ WriteStep(Main)
    \/ \E t \in Timers : TimerStep(t)
    \/ Exit \/ Crash \/ _load

Spec == Init /\ [][Next]_vars

\* Threads run; a timer goes off when nobody resets it any more.
FairSpec ==
    Spec /\ WF_vars(WriteStep(Main)) /\ \A t \in Timers : WF_vars(TimerStep(t))

-----------------------------------------------------------------------------
(* Properties.                                                             *)

\* Data that differs from what was last handed to a write has a timer that will save
\* it, however timers, flushes and clears overtake each other.  A write that fails
\* leaves it without one, until the next change or flush makes up for it.
DirtyIsScheduled ==
    life # "down" /\ dirty /\ ~failed =>
        \E t \in Timers : stage[t] \in {"armed", "fired"}

\* When nothing is left to be saved and no write is under way, a restart would bring
\* back exactly what the store holds: no older snapshot, and nothing that was cleared.
SavedIsCurrent ==
    life # "down" /\ ~dirty /\ (\A w \in Threads : ~InFlight(w)) =>
        Loaded(file) = Snapshot

\* The log that /clear reads holds each id once, at most Cap of them, and exactly those
\* that record_message_id refuses to log again; also after a restart.
LogIndexed ==
    life # "down" =>
        /\ seen = {log[i] : i \in DOMAIN log}
        /\ Cardinality(seen) = Len(log)
        /\ Len(log) <= Cap

\* A store that nobody changes any more gets saved, unless its last write fails.
QuietIsSaved ==
    <>[][~MainStep /\ ~Crash /\ ~Exit]_vars =>
        <>[](life = "down" \/ failed \/ Loaded(file) = Snapshot)

=============================================================================
