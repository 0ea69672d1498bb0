---------------------------- MODULE RuntimeProofs ----------------------------
(***************************************************************************)
(* Proofs about what the runtime keeps: the session store, and the nodes   *)
(* across the start and end of the process.  In the store, what is dirty   *)
(* is scheduled to be saved unless a failed write made it so, and where    *)
(* two writes never overlap the file is never stale once the store is      *)
(* clean.  Over the process's life, what was last written is restored.     *)
(***************************************************************************)
EXTENDS SessionStore, Lifecycle, SequenceTheorems, FiniteSetTheorems, TLAPS

-----------------------------------------------------------------------------
(* Types.                                                                  *)

\* The empty store is a snapshot, and so is what the store holds.
LEMMA EmptyType == Empty \in Snapshots
BY DEF Empty, Snapshots

LEMMA SnapshotType == ASSUME TypeOK PROVE Snapshot \in Snapshots
BY DEF TypeOK, Snapshot, Snapshots

\* Whatever the file holds, a restart can make a store of it.
LEMMA LoadedType == ASSUME NEW f \in FileContents PROVE Loaded(f) \in Snapshots
BY EmptyType DEF Loaded, FileContents

\* Scheduling a save keeps the types of the variables it touches.
LEMMA ScheduleType ==
    ASSUME TypeOK, _schedule_save
    PROVE  /\ dirty' \in BOOLEAN /\ failed' \in BOOLEAN
           /\ timer' \in Timers \cup {NoTimer}
           /\ stage' \in [Threads -> {"idle", "armed", "fired", "opening", "writing"}]
           /\ snap' \in [Threads -> Snapshots]
BY DEF TypeOK, _schedule_save, Threads

\* So does a flush, whose snapshot is that of the data as they will be.
LEMMA FlushType ==
    ASSUME TypeOK, _flush_save, Snapshot' \in Snapshots
    PROVE  /\ dirty' \in BOOLEAN /\ failed' \in BOOLEAN
           /\ timer' \in Timers \cup {NoTimer}
           /\ stage' \in [Threads -> {"idle", "armed", "fired", "opening", "writing"}]
           /\ snap' \in [Threads -> Snapshots]
BY DEF TypeOK, _flush_save, Threads

\* The log after one more id is a sequence of ids, and its index a set of ids.
LEMMA CutType ==
    ASSUME NEW s \in Seq(Messages), NEW m \in Messages, NEW k \in Nat \ {0}
    PROVE  LET longer == Append(s, m)
               cut == SubSeq(longer, IF Len(longer) > k THEN Len(longer) - k + 1 ELSE 1,
                             Len(longer))
           IN  cut \in Seq(Messages) /\ {cut[i] : i \in DOMAIN cut} \subseteq Messages
<1> DEFINE longer == Append(s, m)
           first == IF Len(longer) > k THEN Len(longer) - k + 1 ELSE 1
           cut == SubSeq(longer, first, Len(longer))
<1>1. longer \in Seq(Messages) /\ Len(longer) \in Nat /\ Len(longer) = Len(s) + 1
  BY AppendProperties, LenProperties
<1>2. first \in 1..Len(longer)
  BY <1>1, LenProperties
<1>3. cut \in Seq(Messages)
  <2> HIDE DEF longer, first
  <2> QED BY <1>1, <1>2, SubSeqProperties
<1>4. \A i \in DOMAIN cut : cut[i] \in Messages
  <2> HIDE DEF cut
  <2> QED BY <1>3, LenProperties, ElementOfSeq
<1> QED
  BY <1>3, <1>4

\* A method of the handler keeps the types.
LEMMA MainType == ASSUME TypeOK, MainStep PROVE TypeOK'
<1>1. CASE \E m \in Messages : record_message_id(m)
  <2> PICK m \in Messages : record_message_id(m)
    BY <1>1
  <2>1. log' \in Seq(Messages) /\ seen' \subseteq Messages
    BY CutType, CapAssumption DEF record_message_id, TypeOK
  <2> QED
    BY <2>1, ScheduleType DEF record_message_id, TypeOK
<1>2. CASE \E r \in Roots, N \in SUBSET NodeIds : r \in N /\ save_tree(r, N)
  BY <1>2, ScheduleType DEF save_tree, TypeOK
<1>3. CASE \E i \in Ids, r \in Roots : register_node(i, r)
  BY <1>3, ScheduleType DEF register_node, TypeOK
<1>4. CASE \E N \in SUBSET NodeIds : remove_node_mappings(N)
  BY <1>4, ScheduleType DEF remove_node_mappings, TypeOK
<1>5. CASE \E r \in Roots : remove_tree(r)
  BY <1>5, ScheduleType DEF remove_tree, TypeOK
<1>6. CASE clear_all
  <2>1. Snapshot' \in Snapshots
    BY <1>6, EmptyType DEF clear_all, Snapshot, Empty
  <2>2. trees' \in [Roots -> SUBSET NodeIds] /\ nodeMap' \in [Ids -> Roots \cup {NoRoot}]
        /\ log' \in Seq(Messages) /\ seen' \subseteq Messages
    BY <1>6, <2>1 DEF clear_all, Snapshot, Snapshots
  <2> QED
    BY <1>6, <2>1, <2>2, FlushType DEF clear_all, TypeOK
<1>7. CASE flush_pending_save
  <2>1. Snapshot' \in Snapshots
    BY <1>7, SnapshotType DEF flush_pending_save, Snapshot, dataVars
  <2> QED
    BY <1>7, <2>1, FlushType DEF flush_pending_save, TypeOK, dataVars
<1> QED
  BY <1>1, <1>2, <1>3, <1>4, <1>5, <1>6, <1>7 DEF MainStep

\* So does a step of a write.
LEMMA WriteType == ASSUME TypeOK, NEW w \in Threads, WriteStep(w) PROVE TypeOK'
<1>1. CASE OpenFile(w)
  BY <1>1, EmptyType DEF OpenFile, TypeOK, dataVars, FileContents, NoJson
<1>2. CASE WriteFile(w)
  BY <1>2, EmptyType DEF WriteFile, TypeOK, dataVars, FileContents, NoJson, Json
<1>3. CASE WriteFails(w)
  BY <1>3, EmptyType DEF WriteFails, TypeOK, dataVars, FileContents, NoJson
<1> QED
  BY <1>1, <1>2, <1>3 DEF WriteStep

\* The variables of the store always have their types.
THEOREM TypeCorrect == Spec => []TypeOK
<1>1. Init => TypeOK
  <2>1. Empty \in Snapshots /\ Empty.log = <<>>
    BY EmptyType DEF Empty
  <2>2. Empty.trees \in [Roots -> SUBSET NodeIds]
        /\ Empty.nodeMap \in [Ids -> Roots \cup {NoRoot}] /\ <<>> \in Seq(Messages)
    BY <2>1 DEF Snapshots
  <2> SUFFICES ASSUME Init PROVE TypeOK
    OBVIOUS
  <2>3. file \in FileContents
    BY <2>1 DEF Init, FileContents, NoJson
  <2>4. trees \in [Roots -> SUBSET NodeIds] /\ nodeMap \in [Ids -> Roots \cup {NoRoot}]
        /\ log \in Seq(Messages)
    BY <2>2 DEF Init
  <2>5. snap \in [Threads -> Snapshots]
    BY <2>1 DEF Init
  <2> QED
    BY <2>3, <2>4, <2>5 DEF Init, TypeOK
<1>2. TypeOK /\ [Next]_vars => TypeOK'
  <2> SUFFICES ASSUME TypeOK, [Next]_vars PROVE TypeOK'
    OBVIOUS
  <2>1. CASE MainStep
    BY <2>1, MainType
  <2>2. CASE \E w \in Threads : WriteStep(w)
    BY <2>2, WriteType
  <2>3. ASSUME NEW t \in Timers, Fire(t) PROVE TypeOK'
    BY <2>3 DEF Fire, TypeOK, dataVars, Threads
  <2>4. ASSUME NEW t \in Timers, _save_from_timer(t) PROVE TypeOK'
    BY <2>4, SnapshotType DEF _save_from_timer, TypeOK, dataVars, Threads
  <2>5. CASE Exit \/ Crash
    BY <2>5, EmptyType DEF Exit, Crash, TypeOK, dataVars, NothingRuns, NothingHeld
  <2>6. CASE _load
    <3>1. Loaded(file) \in Snapshots
      BY LoadedType DEF TypeOK
    <3>2. \A i \in DOMAIN Loaded(file).log : Loaded(file).log[i] \in Messages
      BY <3>1, LenProperties, ElementOfSeq DEF Snapshots
    <3> HIDE DEF Loaded
    <3> QED
      BY <2>6, <3>1, <3>2 DEF _load, TypeOK, Snapshots
  <2>7. CASE UNCHANGED vars
    BY <2>7 DEF vars, dataVars, saveVars, TypeOK
  <2> QED
    BY <2>1, <2>2, <2>3, <2>4, <2>5, <2>6, <2>7 DEF Next, TimerStep, Threads
<1> QED
  BY <1>1, <1>2, PTL DEF Spec

-----------------------------------------------------------------------------
(* What is dirty is scheduled.                                             *)

\* Scheduling a save leaves a timer armed.
LEMMA ScheduleArms ==
    ASSUME TypeOK, _schedule_save
    PROVE  \E t \in Timers : stage'[t] = "armed"
BY ThreadsAssumption DEF TypeOK, _schedule_save, Waiting, Threads

\* Data that was not handed to a write has a timer, unless a failed write is all that
\* has happened to it.
THEOREM DirtyIsScheduledHolds == Spec => []DirtyIsScheduled
<1>1. Init => DirtyIsScheduled
  BY DEF Init, DirtyIsScheduled
<1>2. TypeOK /\ DirtyIsScheduled /\ [Next]_vars => DirtyIsScheduled'
  <2> SUFFICES ASSUME TypeOK, DirtyIsScheduled, [Next]_vars PROVE DirtyIsScheduled'
    OBVIOUS
  <2>1. ASSUME _schedule_save PROVE DirtyIsScheduled'
    BY <2>1, ScheduleArms DEF DirtyIsScheduled
  <2>2. CASE MainStep
    BY <2>1, <2>2 DEF MainStep, record_message_id, save_tree, register_node,
       remove_node_mappings, remove_tree, clear_all, flush_pending_save, _flush_save,
       DirtyIsScheduled
  <2>3. ASSUME NEW w \in Threads, OpenFile(w) \/ WriteFile(w) PROVE DirtyIsScheduled'
    BY <2>3, ThreadsAssumption DEF OpenFile, WriteFile, DirtyIsScheduled, TypeOK, Threads
  <2>4. ASSUME NEW w \in Threads, WriteFails(w) PROVE DirtyIsScheduled'
    BY <2>4 DEF WriteFails, DirtyIsScheduled
  <2>5. ASSUME NEW t \in Timers, Fire(t) PROVE DirtyIsScheduled'
    BY <2>5 DEF Fire, DirtyIsScheduled, TypeOK, Threads
  <2>6. ASSUME NEW t \in Timers, _save_from_timer(t) PROVE DirtyIsScheduled'
    BY <2>6 DEF _save_from_timer, DirtyIsScheduled
  <2>7. CASE Exit \/ Crash \/ _load
    BY <2>7 DEF Exit, Crash, _load, DirtyIsScheduled
  <2>8. CASE UNCHANGED vars
    BY <2>8 DEF vars, saveVars, DirtyIsScheduled
  <2> QED
    BY <2>2, <2>3, <2>4, <2>5, <2>6, <2>7, <2>8
    DEF Next, TimerStep, WriteStep, Threads
<1> QED
  BY <1>1, <1>2, TypeCorrect, PTL DEF Spec

-----------------------------------------------------------------------------
(* What is clean is in the file.                                           *)

\* The invariant behind SavedIsCurrent: one write at a time, of a snapshot that is
\* current unless the store has become dirty again, over a file it has emptied.
SaveInv ==
    /\ \A v, w \in Threads : InFlight(v) /\ InFlight(w) => v = w
    /\ \A w \in Threads : stage[w] # "idle" => life # "down"
    /\ \A w \in Threads : InFlight(w) => dirty \/ snap[w] = Snapshot
    /\ \A w \in Threads : stage[w] = "writing" => file.kind = "truncated"
    /\ SavedIsCurrent

\* Where writes do not overlap, a clean store survives a restart unchanged, whatever
\* crashed or failed before.
THEOREM SavedIsCurrentHolds ==
    ASSUME "overlap" \notin Faults
    PROVE  Spec => []SavedIsCurrent
<1>1. Init => SaveInv
  BY DEF Init, SaveInv, InFlight, SavedIsCurrent, Loaded, NoJson, Snapshot, Empty
<1>2. TypeOK /\ SaveInv /\ [Next]_vars => SaveInv'
  <2> SUFFICES ASSUME TypeOK, SaveInv, [Next]_vars PROVE SaveInv'
    OBVIOUS
  <2>a. MayWrite => \A w \in Threads : ~InFlight(w)
    BY DEF MayWrite
  <2>1. ASSUME _schedule_save, UNCHANGED <<file, life>>, life # "down" PROVE SaveInv'
    BY <2>1 DEF _schedule_save, SaveInv, SavedIsCurrent, InFlight, TypeOK, Threads
  <2>2. ASSUME _flush_save, UNCHANGED file, life' # "down" PROVE SaveInv'
    BY <2>2, <2>a DEF _flush_save, SaveInv, SavedIsCurrent, InFlight, TypeOK, Threads
  <2>3. CASE MainStep
    BY <2>1, <2>2, <2>3 DEF MainStep, record_message_id, save_tree, register_node,
       remove_node_mappings, remove_tree, clear_all, flush_pending_save, Ready
  <2>4. ASSUME NEW w \in Threads, OpenFile(w) PROVE SaveInv'
    BY <2>4 DEF OpenFile, SaveInv, SavedIsCurrent, InFlight, TypeOK, NoJson, dataVars,
       Snapshot
  <2>5. ASSUME NEW w \in Threads, WriteFile(w) PROVE SaveInv'
    <3>1. file' = Json(snap[w])
      BY <2>5 DEF WriteFile, SaveInv
    <3>2. Loaded(file') = snap[w]
      BY <3>1 DEF Json, Loaded
    <3>3. Snapshot' = Snapshot /\ UNCHANGED <<dirty, life>>
      BY <2>5 DEF WriteFile, dataVars, Snapshot
    <3>4. dirty \/ snap[w] = Snapshot
      BY <2>5 DEF WriteFile, SaveInv, InFlight
    <3>5. \A v \in Threads : ~InFlight(v)'
      BY <2>5 DEF WriteFile, SaveInv, InFlight, TypeOK
    <3>6. \A v \in Threads : stage'[v] # "idle" => life' # "down"
      BY <2>5 DEF WriteFile, SaveInv, TypeOK
    <3> QED
      BY <3>2, <3>3, <3>4, <3>5, <3>6 DEF SaveInv, SavedIsCurrent, InFlight
  <2>6. ASSUME NEW w \in Threads, WriteFails(w) PROVE SaveInv'
    BY <2>6 DEF WriteFails, SaveInv, SavedIsCurrent, InFlight, TypeOK, dataVars, Snapshot
  <2>7. ASSUME NEW t \in Timers, Fire(t) PROVE SaveInv'
    BY <2>7 DEF Fire, SaveInv, SavedIsCurrent, InFlight, TypeOK, dataVars, Snapshot, Threads
  <2>8. ASSUME NEW t \in Timers, _save_from_timer(t) PROVE SaveInv'
    <3>1. Snapshot' = Snapshot /\ UNCHANGED <<file, life>>
      BY <2>8 DEF _save_from_timer, dataVars, Snapshot
    <3>2. CASE dirty
      <4>1. /\ stage' = [stage EXCEPT ![t] = "opening"]
            /\ snap' = [snap EXCEPT ![t] = Snapshot]
            /\ \A w \in Threads : ~InFlight(w)
            /\ stage[t] = "fired"
        BY <2>8, <2>a, <3>2 DEF _save_from_timer
      <4> QED
        BY <4>1, <3>1 DEF SaveInv, SavedIsCurrent, InFlight, TypeOK, Threads
    <3>3. CASE ~dirty
      BY <2>8, <3>1, <3>3 DEF _save_from_timer, SaveInv, SavedIsCurrent, InFlight, TypeOK,
         Threads
    <3> QED
      BY <3>2, <3>3
  <2>9. CASE Exit \/ Crash
    BY <2>9 DEF Exit, Crash, SaveInv, SavedIsCurrent, InFlight, NothingRuns
  <2>10. CASE _load
    <3>1. Loaded(file) \in Snapshots
      BY LoadedType DEF TypeOK
    <3>2. Snapshot' = Loaded(file)
      <4> HIDE DEF Loaded
      <4> QED BY <2>10, <3>1 DEF _load, Snapshot, Snapshots
    <3>3. file' = file /\ stage' = stage
      BY <2>10 DEF _load
    <3>4. \A w \in Threads : stage[w] = "idle"
      BY <2>10 DEF SaveInv, _load
    <3> QED
      BY <3>2, <3>3, <3>4 DEF SaveInv, SavedIsCurrent, InFlight
  <2>11. CASE UNCHANGED vars
    BY <2>11 DEF vars, dataVars, saveVars, SaveInv, SavedIsCurrent, InFlight, Snapshot
  <2> QED
    BY <2>3, <2>4, <2>5, <2>6, <2>7, <2>8, <2>9, <2>10, <2>11
    DEF Next, TimerStep, WriteStep, Threads
<1>3. SaveInv => SavedIsCurrent
  BY DEF SaveInv
<1> QED
  BY <1>1, <1>2, <1>3, TypeCorrect, PTL DEF Spec

-----------------------------------------------------------------------------
(* The message log.                                                        *)

\* A log as it should be: short enough, and each id once.
Proper(s) == Len(s) <= Cap /\ \A i, j \in DOMAIN s : s[i] = s[j] => i = j

\* The invariant behind LogIndexed: every copy of the log is proper, those that wait to be
\* written and that in the file included, since a restart makes a store of it.
LogInv ==
    /\ seen = {log[i] : i \in DOMAIN log}
    /\ Proper(log)
    /\ \A w \in Threads : Proper(snap[w].log)
    /\ Proper(file.data.log)

\* An empty log is proper.
LEMMA EmptyProper == Proper(Empty.log)
<1>1. Empty.log = <<>>
  BY DEF Empty
<1>2. Len(<<>>) = 0 /\ DOMAIN <<>> = {}
  OBVIOUS
<1> QED
  BY <1>1, <1>2, CapAssumption DEF Proper

\* A proper log after a new id, cut to its last Cap entries, is proper.
LEMMA CutProper ==
    ASSUME NEW s \in Seq(Messages), Proper(s), NEW m \in Messages,
           \A i \in DOMAIN s : s[i] # m
    PROVE  LET longer == Append(s, m)
           IN  Proper(SubSeq(longer, IF Len(longer) > Cap THEN Len(longer) - Cap + 1 ELSE 1,
                             Len(longer)))
<1> DEFINE longer == Append(s, m)
           first == IF Len(longer) > Cap THEN Len(longer) - Cap + 1 ELSE 1
           cut == SubSeq(longer, first, Len(longer))
<1>1. /\ longer \in Seq(Messages) /\ Len(longer) = Len(s) + 1 /\ Len(s) \in Nat
      /\ DOMAIN longer = 1..Len(longer) /\ DOMAIN s = 1..Len(s)
      /\ \A i \in 1..Len(s) : longer[i] = s[i]
      /\ longer[Len(s) + 1] = m
  BY AppendProperties, LenProperties
<1>2. \A i, j \in DOMAIN longer : longer[i] = longer[j] => i = j
  <2> HIDE DEF longer
  <2> QED BY <1>1 DEF Proper
<1>3. first \in 1..Len(longer) /\ Len(longer) - first + 1 <= Cap
  BY <1>1, CapAssumption
<1>4. \A i \in first..Len(longer) : longer[i] \in Messages
  <2> HIDE DEF longer, first
  <2> QED BY <1>1, <1>3, ElementOfSeq
<1>5. /\ Len(cut) = Len(longer) - first + 1
      /\ DOMAIN cut = 1..Len(cut)
      /\ \A i \in 1..Len(cut) : cut[i] = longer[first + i - 1]
  <2> HIDE DEF longer, first
  <2>1. cut \in Seq(Messages)
    BY <1>1, <1>3, <1>4, SubSeqProperties
  <2>2. DOMAIN cut = 1..Len(cut)
    <3> HIDE DEF cut
    <3> QED BY <2>1, LenProperties
  <2> QED
    BY <2>2, <1>1, <1>3, <1>4, SubSeqProperties
<1> HIDE DEF longer, first, cut
<1>6. \A i \in 1..Len(cut) : first + i - 1 \in DOMAIN longer
  BY <1>1, <1>3, <1>5
<1>7. \A i, j \in DOMAIN cut : cut[i] = cut[j] => i = j
  <2> SUFFICES ASSUME NEW i \in 1..Len(cut), NEW j \in 1..Len(cut), cut[i] = cut[j]
               PROVE  i = j
    BY <1>5
  <2>1. first + i - 1 \in DOMAIN longer /\ first + j - 1 \in DOMAIN longer
    BY <1>6
  <2>2. longer[first + i - 1] = longer[first + j - 1]
    BY <1>5
  <2>3. first + i - 1 = first + j - 1
    BY <1>2, <2>1, <2>2
  <2>4. first \in Int /\ i \in Int /\ j \in Int
    BY <1>3
  <2> QED
    BY <2>3, <2>4
<1>8. Proper(cut)
  BY <1>1, <1>3, <1>5, <1>7 DEF Proper
<1> QED
  BY <1>8 DEF cut, first, longer

\* A proper log has as many ids as entries.
LEMMA ProperCounts ==
    ASSUME NEW s \in Seq(Messages), Proper(s)
    PROVE  Cardinality({s[i] : i \in DOMAIN s}) = Len(s)
<1> DEFINE T == {s[i] : i \in DOMAIN s}
<1>1. Len(s) \in Nat /\ DOMAIN s = 1..Len(s) /\ s \in [1..Len(s) -> Messages]
  BY LenProperties
<1>2. s \in [1..Len(s) -> T]
  BY <1>1
<1>3. s \in Bijection(1..Len(s), T)
  BY <1>1, <1>2 DEF Bijection, Injection, Surjection, Proper, IsInjective
<1>4. ExistsBijection(1..Len(s), T)
  BY <1>3 DEF ExistsBijection
<1> QED
  BY <1>1, <1>4, FS_CountingElements

\* A method of the handler keeps the logs proper.
LEMMA MainLog == ASSUME TypeOK, LogInv, MainStep PROVE LogInv'
<1> USE DEF LogInv
<1>1. ASSUME _flush_save, Proper(log'), seen' = {log'[i] : i \in DOMAIN log'}, file' = file
      PROVE  LogInv'
  BY <1>1 DEF _flush_save, Snapshot, TypeOK, Threads
<1>2. ASSUME _schedule_save, UNCHANGED <<log, seen, file>> PROVE LogInv'
  BY <1>2 DEF _schedule_save
<1>3. ASSUME NEW m \in Messages, record_message_id(m) PROVE LogInv'
  <2>1. \A i \in DOMAIN log : log[i] # m
    BY <1>3 DEF record_message_id
  <2>2. Proper(log')
    BY <1>3, <2>1, CutProper DEF record_message_id, TypeOK
  <2>3. seen' = {log'[i] : i \in DOMAIN log'} /\ UNCHANGED <<snap, file>>
    BY <1>3 DEF record_message_id, _schedule_save
  <2> QED
    BY <2>2, <2>3
<1>4. CASE clear_all
  BY <1>1, <1>4, EmptyProper DEF clear_all, Empty
<1>5. CASE flush_pending_save
  BY <1>1, <1>5 DEF flush_pending_save, dataVars
<1> QED
  BY <1>2, <1>3, <1>4, <1>5
  DEF MainStep, save_tree, register_node, remove_node_mappings, remove_tree

\* The log that /clear reads holds each id once, at most Cap of them, and exactly those
\* that are not logged again, whatever crashed, failed or was loaded before.
THEOREM LogIndexedHolds == Spec => []LogIndexed
<1>1. Init => LogInv
  <2> SUFFICES ASSUME Init PROVE LogInv
    OBVIOUS
  <2>1. log = Empty.log /\ seen = {log[i] : i \in DOMAIN log}
    BY DEF Init, Empty
  <2>2. file.data = Empty /\ \A w \in Threads : snap[w] = Empty
    BY DEF Init, NoJson
  <2> QED
    BY <2>1, <2>2, EmptyProper DEF LogInv
<1>2. TypeOK /\ LogInv /\ [Next]_vars => LogInv'
  <2> SUFFICES ASSUME TypeOK, LogInv, [Next]_vars PROVE LogInv'
    OBVIOUS
  <2> USE DEF LogInv
  <2>1. CASE MainStep
    BY <2>1, MainLog
  <2>2. ASSUME NEW w \in Threads, WriteStep(w) PROVE LogInv'
    BY <2>2, EmptyProper
    DEF WriteStep, OpenFile, WriteFile, WriteFails, Json, NoJson, dataVars, TypeOK
  <2>3. ASSUME NEW t \in Timers, Fire(t) \/ _save_from_timer(t) PROVE LogInv'
    BY <2>3 DEF Fire, _save_from_timer, Snapshot, dataVars, TypeOK, Threads
  <2>4. CASE Exit \/ Crash
    BY <2>4, EmptyProper DEF Exit, Crash, NothingHeld, dataVars
  <2>5. CASE _load
    BY <2>5, EmptyProper DEF _load, Loaded
  <2>6. CASE UNCHANGED vars
    BY <2>6 DEF vars, dataVars, saveVars
  <2> QED
    BY <2>1, <2>2, <2>3, <2>4, <2>5, <2>6 DEF Next, TimerStep, Threads
<1>3. TypeOK /\ LogInv => LogIndexed
  <2> SUFFICES ASSUME TypeOK, LogInv PROVE LogIndexed
    OBVIOUS
  <2>1. Cardinality({log[i] : i \in DOMAIN log}) = Len(log)
    BY ProperCounts DEF LogInv, TypeOK
  <2> QED
    BY <2>1 DEF LogInv, LogIndexed, Proper
<1> QED
  BY <1>1, <1>2, <1>3, TypeCorrect, PTL DEF Spec

-----------------------------------------------------------------------------
(* Lifecycle: what was written is restored.                                *)

\* What is known of a node in one place is known of it in another: its parent, its session,
\* and that it was completed.
Carried(there, here) ==
    \A n \in Nodes : there[n] # Unknown =>
        /\ here[n] # Unknown
        /\ here[n].parent = there[n].parent
        /\ there[n].session => here[n].session
        /\ there[n].state = "completed" => here[n].state = "completed"

\* Types.
LifeType ==
    /\ {live, saved, written, kept} \subseteq Trees
    /\ tasks \subseteq Nodes

\* A process that is down has nothing, and a node whose CLI runs is ours, and runs or has
\* failed.
RunsOurs ==
    /\ phase = "down" => ~polling /\ live = Nothing /\ tasks = {}
    /\ \A n \in tasks : n \in ours /\ live[n].state \in {"in_progress", "error"}

\* A node that had failed when the store was written only comes to life again with its
\* session, in its own CLI.
FailedStays ==
    \A n \in Nodes : kept[n].state = "error" =>
        live[n].state \notin Open \/ (n \in tasks /\ live[n].session)

\* Each place knows what the one before it does: the file what was written, the trees what
\* the file holds, the store what the trees do.
Restorable ==
    /\ Carried(live, saved)
    /\ Carried(kept, written)
    /\ phase # "down" => Carried(kept, live) /\ FailedStays

LifeInv == LifeType /\ RunsOurs /\ OpenNodesAreOurs /\ Restorable

\* What a record is, for the provers.
LEMMA Records ==
    /\ \A forest \in Trees, n \in Nodes :
          /\ forest[n] \in Record \cup {Unknown}
          /\ forest[n].parent \in Nodes \cup {NoNode} /\ forest[n].session \in BOOLEAN
          /\ forest[n] # Unknown <=> forest[n].state # "unknown"
          /\ forest[n].state \in {"pending", "in_progress", "completed", "error", "unknown"}
    /\ Nothing \in Trees
    /\ \A n \in Nodes : Nothing[n] = Unknown
    /\ Unknown.state = "unknown"
<1>1. ASSUME NEW forest \in Trees, NEW n \in Nodes
      PROVE  /\ forest[n] \in Record \cup {Unknown}
             /\ forest[n].parent \in Nodes \cup {NoNode} /\ forest[n].session \in BOOLEAN
             /\ forest[n] # Unknown <=> forest[n].state # "unknown"
             /\ forest[n].state \in {"pending", "in_progress", "completed", "error", "unknown"}
  <2>1. forest[n] \in Record \cup {Unknown}
    BY DEF Trees
  <2>2. CASE forest[n] \in Record
    BY <2>2 DEF Record, Unknown, Open
  <2>3. CASE forest[n] = Unknown
    BY <2>3 DEF Unknown
  <2> QED
    BY <2>1, <2>2, <2>3
<1>2. /\ Nothing \in Trees
      /\ \A n \in Nodes : Nothing[n] = Unknown
  BY DEF Nothing, Trees
<1>3. Unknown.state = "unknown"
  BY DEF Unknown
<1> QED
  BY <1>1, <1>2, <1>3

\* A node whose state is changed.
LEMMA Changed ==
    ASSUME NEW r \in Record, NEW s \in {"pending", "in_progress", "completed", "error"},
           NEW q, q = [r EXCEPT !.state = s]
    PROVE  /\ q \in Record /\ q # Unknown
           /\ q.state = s /\ q.parent = r.parent /\ q.session = r.session
BY DEF Record, Open, Unknown

\* A node that learns its session runs.
LEMMA WithSession ==
    ASSUME NEW r \in Record, NEW q,
           q = [r EXCEPT !.session = TRUE, !.state = "in_progress"]
    PROVE  /\ q \in Record /\ q # Unknown
           /\ q.state = "in_progress" /\ q.parent = r.parent /\ q.session = TRUE
BY DEF Record, Open, Unknown

\* An update of one node leaves the others.
LEMMA Updated ==
    ASSUME live \in Trees, NEW n \in Nodes, live[n] \in Record,
           NEW s \in {"pending", "in_progress", "completed", "error"}, Update(n, s)
    PROVE  /\ live' \in Trees /\ live'[n].state = s /\ live'[n] # Unknown
           /\ live'[n].parent = live[n].parent /\ live'[n].session = live[n].session
           /\ \A m \in Nodes \ {n} : live'[m] = live[m]
<1>1. live' = [live EXCEPT ![n] = live'[n]] /\ live'[n] = [live[n] EXCEPT !.state = s]
  BY DEF Update, Trees
<1>2. /\ live'[n] \in Record /\ live'[n].state = s /\ live'[n] # Unknown
      /\ live'[n].parent = live[n].parent /\ live'[n].session = live[n].session
  BY <1>1, Changed
<1> QED
  BY <1>1, <1>2 DEF Trees

\* What is carried on twice is carried on,
LEMMA CarriedOver ==
    ASSUME NEW a, NEW b, NEW c, Carried(a, b), Carried(b, c)
    PROVE  Carried(a, c)
BY DEF Carried

\* and what stays the same is.
LEMMA CarriedSame == ASSUME NEW a PROVE Carried(a, a)
BY DEF Carried

\* cleanup_stale_nodes leaves nothing open, and loses nothing else.
LEMMA Cleaned ==
    ASSUME NEW forest \in Trees
    PROVE  /\ cleanup_stale_nodes(forest) \in Trees
           /\ Carried(forest, cleanup_stale_nodes(forest))
           /\ \A n \in Nodes : cleanup_stale_nodes(forest)[n].state \notin Open
<1> DEFINE new == cleanup_stale_nodes(forest)
<1>1. ASSUME NEW n \in Nodes
      PROVE  /\ new[n] \in Record \cup {Unknown}
             /\ new[n].state \notin Open
             /\ forest[n] # Unknown => new[n] # Unknown
             /\ new[n].parent = forest[n].parent /\ new[n].session = forest[n].session
             /\ forest[n].state = "completed" => new[n].state = "completed"
  <2>1. CASE forest[n].state \in Open
    <3>1. new[n] = [forest[n] EXCEPT !.state = "error"] /\ forest[n] # Unknown
      BY <2>1, Records DEF cleanup_stale_nodes, Open
    <3>3. forest[n] \in Record
      BY <3>1, Records
    <3> HIDE DEF new
    <3>2. new[n] \in Record /\ new[n].state = "error" /\ new[n].parent = forest[n].parent
          /\ new[n].session = forest[n].session
      BY <3>1, <3>3, Changed
    <3> QED
      BY <2>1, <3>2, Records DEF Open
  <2>2. CASE forest[n].state \notin Open
    <3>1. new[n] = forest[n]
      BY <2>2 DEF cleanup_stale_nodes
    <3> QED
      BY <2>2, <3>1, Records
  <2> QED
    BY <2>1, <2>2
<1>2. new \in Trees
  BY <1>1 DEF cleanup_stale_nodes, Trees
<1> QED
  BY <1>1, <1>2 DEF Carried

\* Nothing runs and nothing is known.
LEMMA InitLife == LifeInit => LifeInv
<1> SUFFICES ASSUME LifeInit PROVE LifeInv
  OBVIOUS
<1>1. LifeType
  BY Records DEF LifeInit, LifeType
<1>2. RunsOurs /\ OpenNodesAreOurs
  BY Records DEF LifeInit, RunsOurs, OpenNodesAreOurs, Open
<1>3. Restorable
  BY CarriedSame DEF LifeInit, Restorable
<1> QED
  BY <1>1, <1>2, <1>3 DEF LifeInv

\* A step that changes one node, and loses nothing of it.
LEMMA NodeCarried ==
    ASSUME NEW n \in Nodes, LifeType, live' \in Trees,
           \A m \in Nodes \ {n} : live'[m] = live[m],
           live[n] # Unknown =>
               /\ live'[n] # Unknown /\ live'[n].parent = live[n].parent
               /\ live[n].session => live'[n].session
               /\ live[n].state = "completed" => live'[n].state = "completed"
    PROVE  Carried(live, live')
BY DEF Carried

\* After save_tree the store knows all there is to know of the trees.
LEMMA Saves ==
    ASSUME NEW n \in Nodes, LifeType, Carried(live, saved), live' \in Trees,
           \A m \in Nodes \ {n} : live'[m] = live[m], live'[n] # Unknown, SaveTree(n)
    PROVE  saved' \in Trees /\ Carried(live', saved')
<1>1. \A m \in Nodes : saved'[m] = live'[m] \/ (m # n /\ saved'[m] = saved[m])
  BY DEF SaveTree, SameTree
<1>2. saved' \in Trees
  <2>1. \A m \in Nodes : saved'[m] \in Record \cup {Unknown}
    BY <1>1 DEF LifeType, Trees
  <2>2. saved' = [m \in Nodes |-> saved'[m]]
    BY DEF SaveTree
  <2> QED
    BY <2>1, <2>2 DEF Trees
<1>3. Carried(live', saved')
  <2> SUFFICES ASSUME NEW m \in Nodes, live'[m] # Unknown
               PROVE  /\ saved'[m] # Unknown
                      /\ saved'[m].parent = live'[m].parent
                      /\ live'[m].session => saved'[m].session
                      /\ live'[m].state = "completed" => saved'[m].state = "completed"
    BY DEF Carried
  <2>1. CASE saved'[m] = live'[m]
    BY <2>1
  <2>2. CASE m # n /\ saved'[m] = saved[m]
    BY <2>2 DEF Carried
  <2> QED
    BY <1>1, <2>1, <2>2
<1> QED
  BY <1>2, <1>3

\* What stays when the store has nothing new to tell the file.
LEMMA Restores ==
    ASSUME Restorable, Carried(live, live'), Carried(live', saved'), phase' # "down",
           phase # "down", UNCHANGED <<kept, written>>, FailedStays'
    PROVE  Restorable'
<1>1. Carried(kept', live') /\ Carried(kept', written')
  BY CarriedOver DEF Restorable
<1> QED
  BY <1>1 DEF Restorable

\* The platform comes and goes, and the nodes stay as they are.
LEMMA ConnectionOnly ==
    ASSUME LifeInv, UNCHANGED <<live, saved, written, kept, tasks, ours>>, phase # "down",
           phase' # "down"
    PROVE  LifeInv'
<1>1. LifeType' /\ RunsOurs' /\ OpenNodesAreOurs'
  BY DEF LifeInv, LifeType, RunsOurs, OpenNodesAreOurs
<1>2. Restorable'
  BY DEF LifeInv, Restorable, Carried, FailedStays
<1> QED
  BY <1>1, <1>2 DEF LifeInv

\* The process starts with what the file holds, and with nothing open.
LEMMA StartupInv == ASSUME LifeInv, Startup PROVE LifeInv'
<1> USE DEF Startup
<1>1. /\ live' \in Trees /\ saved' = live' /\ Carried(written, live')
      /\ \A n \in Nodes : live'[n].state \notin Open
  BY Cleaned DEF LifeInv, LifeType
<1>2. LifeType'
  BY <1>1 DEF LifeInv, LifeType
<1>3. RunsOurs' /\ OpenNodesAreOurs'
  BY <1>1 DEF RunsOurs, OpenNodesAreOurs
<1>4. Carried(live', saved') /\ FailedStays'
  BY <1>1, CarriedSame DEF FailedStays
<1>5. Carried(kept', written') /\ Carried(kept', live')
  BY <1>1, CarriedOver DEF LifeInv, Restorable
<1> QED
  BY <1>2, <1>3, <1>4, <1>5 DEF LifeInv, Restorable

\* A message comes in: a node that nobody knew.
LEMMA MessageInv ==
    ASSUME LifeInv, NEW n \in Nodes, NEW p \in Nodes \cup {NoNode}, handle_message(n, p)
    PROVE  LifeInv'
<1> DEFINE new == [state |-> "pending", session |-> FALSE,
                   parent |-> IF p # NoNode /\ Known(p) THEN p ELSE NoNode]
<1>1. /\ live[n] = Unknown /\ polling /\ live' = [live EXCEPT ![n] = new]
      /\ SaveTree(n) /\ ours' = ours \cup {n}
      /\ UNCHANGED <<phase, polling, tasks, written, kept>>
  BY DEF handle_message, Known, connVars
<1>2. new \in Record /\ new.state = "pending" /\ new # Unknown
  BY DEF Record, Open, Unknown
<1> HIDE DEF new
<1>3. /\ live' \in Trees /\ live'[n] = new
      /\ \A m \in Nodes \ {n} : live'[m] = live[m]
  BY <1>1, <1>2 DEF LifeInv, LifeType, Trees
<1>4. saved' \in Trees /\ Carried(live', saved')
  BY <1>1, <1>2, <1>3, Saves DEF LifeInv, Restorable
<1>5. Carried(live, live')
  BY <1>1, <1>3, NodeCarried DEF LifeInv
<1>6. phase # "down" /\ n \notin tasks
  BY <1>1, Records DEF LifeInv, RunsOurs
<1>7. FailedStays'
  <2>1. kept[n] = Unknown /\ kept[n].state # "error"
    BY <1>1, <1>6, Records DEF LifeInv, LifeType, Restorable, Carried
  <2>2. FailedStays
    BY <1>6 DEF LifeInv, Restorable
  <2> QED
    BY <1>1, <1>3, <2>1, <2>2 DEF FailedStays
<1>8. LifeType' /\ RunsOurs'
  BY <1>1, <1>3, <1>4, <1>6 DEF LifeInv, LifeType, RunsOurs
<1>9. OpenNodesAreOurs'
  BY <1>1, <1>2, <1>3 DEF LifeInv, OpenNodesAreOurs
<1> QED
  BY <1>1, <1>4, <1>5, <1>6, <1>7, <1>8, <1>9, Restores DEF LifeInv

\* A node's turn has come.
LEMMA RunInv == ASSUME LifeInv, NEW n \in Nodes, Run(n) PROVE LifeInv'
<1>1. /\ phase # "down" /\ live[n].state = "pending"
      /\ live' = [live EXCEPT ![n].state = "in_progress"] /\ tasks' = tasks \cup {n}
      /\ UNCHANGED <<phase, polling, ours, saved, written, kept>>
  BY DEF Run, Alive, Update, NotSaved, connVars
<1>2. live[n] \in Record
  BY <1>1, Records DEF LifeInv, LifeType
<1>3. /\ live' \in Trees /\ live'[n].state = "in_progress" /\ live'[n] # Unknown
      /\ live'[n].parent = live[n].parent /\ live'[n].session = live[n].session
      /\ \A m \in Nodes \ {n} : live'[m] = live[m]
  BY <1>1, <1>2, Updated DEF LifeInv, LifeType, Update
<1>4. Carried(live, live')
  BY <1>1, <1>3, NodeCarried DEF LifeInv
<1>5. Carried(live', saved')
  BY <1>1, <1>3, Records DEF LifeInv, LifeType, Restorable, Carried
<1>6. FailedStays'
  BY <1>1, <1>3 DEF LifeInv, Restorable, FailedStays, Open
<1>7. LifeType' /\ RunsOurs' /\ OpenNodesAreOurs'
  BY <1>1, <1>3 DEF LifeInv, LifeType, RunsOurs, OpenNodesAreOurs, Open
<1> QED
  BY <1>1, <1>4, <1>5, <1>6, <1>7, Restores DEF LifeInv

\* The CLI tells its session: a node that had failed runs again, in its own CLI.
LEMMA SessionInfoInv == ASSUME LifeInv, NEW n \in Nodes, SessionInfo(n) PROVE LifeInv'
<1>1. /\ n \in tasks /\ live[n].session = FALSE
      /\ live' = [live EXCEPT ![n].session = TRUE, ![n].state = "in_progress"]
      /\ SaveTree(n)
      /\ UNCHANGED <<phase, polling, tasks, ours, written, kept>>
  BY Records DEF LifeInv, LifeType, SessionInfo, connVars
<1>2. live[n] \in Record /\ live[n].state \in {"in_progress", "error"}
  BY <1>1, Records DEF LifeInv, LifeType, RunsOurs
<1>3. /\ live' \in Trees /\ live'[n].state = "in_progress" /\ live'[n] # Unknown
      /\ live'[n].parent = live[n].parent /\ live'[n].session = TRUE
      /\ \A m \in Nodes \ {n} : live'[m] = live[m]
  <2>1. /\ live'[n] = [live[n] EXCEPT !.session = TRUE, !.state = "in_progress"]
        /\ live' = [live EXCEPT ![n] = live'[n]]
    BY <1>1 DEF LifeInv, LifeType, Trees
  <2>2. /\ live'[n] \in Record /\ live'[n].state = "in_progress" /\ live'[n] # Unknown
        /\ live'[n].parent = live[n].parent /\ live'[n].session = TRUE
    BY <1>2, <2>1, WithSession
  <2> QED
    BY <2>1, <2>2 DEF LifeInv, LifeType, Trees
<1>4. Carried(live, live')
  BY <1>1, <1>2, <1>3, NodeCarried DEF LifeInv
<1>5. saved' \in Trees /\ Carried(live', saved')
  BY <1>1, <1>3, Saves DEF LifeInv, Restorable
<1>6. phase # "down"
  BY <1>1 DEF LifeInv, RunsOurs
<1>7. FailedStays'
  BY <1>1, <1>3, <1>6 DEF LifeInv, Restorable, FailedStays, Open
<1>8. LifeType' /\ RunsOurs' /\ OpenNodesAreOurs'
  BY <1>1, <1>3, <1>5, <1>6 DEF LifeInv, LifeType, RunsOurs, OpenNodesAreOurs, Open
<1> QED
  BY <1>1, <1>4, <1>5, <1>6, <1>7, <1>8, Restores DEF LifeInv

\* A node fails, and the replies that wait for it: with its CLI going on, or with its task.
LEMMA ErrorInv ==
    ASSUME LifeInv, NEW n \in Nodes, ErrorEvent(n) \/ TaskFails(n)
    PROVE  LifeInv'
<1>1. /\ n \in tasks /\ tasks' \subseteq tasks /\ tasks \subseteq tasks' \cup {n}
      /\ live' = [m \in Nodes |-> IF m \in {n} \cup PendingBelow(n)
                                    THEN [live[m] EXCEPT !.state = "error"] ELSE live[m]]
      /\ UNCHANGED <<phase, polling, ours, saved, written, kept>>
  BY DEF ErrorEvent, TaskFails, MarkNodeError, NotSaved, connVars
<1>2. phase # "down" /\ live \in Trees
  BY <1>1 DEF LifeInv, RunsOurs, LifeType
<1>3. ASSUME NEW m \in Nodes
      PROVE  \/ live'[m] = live[m]
             \/ /\ live'[m] \in Record /\ live'[m].state = "error" /\ live'[m] # Unknown
                /\ live'[m].parent = live[m].parent /\ live'[m].session = live[m].session
                /\ live[m].state \in {"pending", "in_progress", "error"}
  <2>1. CASE m \in {n} \cup PendingBelow(n)
    <3>1. live[m].state \in {"pending", "in_progress", "error"}
      BY <1>1, <2>1 DEF LifeInv, RunsOurs, PendingBelow
    <3>2. live[m] \in Record
      BY <1>2, <3>1, Records
    <3> QED
      BY <1>1, <2>1, <3>1, <3>2, Changed
  <2>2. CASE m \notin {n} \cup PendingBelow(n)
    BY <1>1, <2>2
  <2> QED
    BY <2>1, <2>2
<1>4. live' \in Trees
  <2>1. \A m \in Nodes : live'[m] \in Record \cup {Unknown}
    BY <1>2, <1>3, Records
  <2> QED
    BY <1>1, <2>1 DEF Trees
<1>5. Carried(live, live')
  BY <1>3 DEF Carried
<1>6. Carried(live', saved')
  BY <1>1, <1>2, <1>3, Records DEF LifeInv, Restorable, Carried
<1>7. FailedStays'
  BY <1>1, <1>2, <1>3 DEF LifeInv, Restorable, FailedStays, Open
<1>8. LifeType' /\ RunsOurs'
  BY <1>1, <1>2, <1>3, <1>4 DEF LifeInv, LifeType, RunsOurs
<1>9. OpenNodesAreOurs'
  BY <1>1, <1>3 DEF LifeInv, OpenNodesAreOurs, Open
<1> QED
  BY <1>1, <1>2, <1>5, <1>6, <1>7, <1>8, <1>9, Restores DEF LifeInv

\* The CLI exits, with a session or without.
LEMMA ExitInv == ASSUME LifeInv, NEW n \in Nodes, CliExits(n) PROVE LifeInv'
<1>1. /\ n \in tasks /\ tasks' = tasks \ {n}
      /\ live[n].session = TRUE \/ live[n].session = FALSE
      /\ UNCHANGED <<phase, polling, ours, written, kept>>
  BY Records DEF CliExits, connVars, LifeInv, LifeType
<1>2. live[n] \in Record /\ live[n].state \in {"in_progress", "error"} /\ phase # "down"
  BY <1>1, Records DEF LifeInv, LifeType, RunsOurs
<1>3. CASE live[n].session = FALSE
  <2>1. UNCHANGED <<live, saved>>
    BY <1>3 DEF CliExits, NotSaved
  <2>2. LifeType' /\ RunsOurs' /\ OpenNodesAreOurs'
    BY <1>1, <1>3, <2>1 DEF LifeInv, LifeType, RunsOurs, OpenNodesAreOurs, Open
  <2>3. FailedStays'
    BY <1>1, <1>2, <1>3, <2>1 DEF LifeInv, Restorable, FailedStays
  <2>4. Restorable'
    BY <1>1, <1>2, <2>1, <2>3 DEF LifeInv, Restorable, Carried
  <2> QED
    BY <2>2, <2>4 DEF LifeInv
<1>4. CASE live[n].session = TRUE
  <2>1. /\ live' = [live EXCEPT ![n].state = "completed"] /\ SaveTree(n)
    BY <1>4 DEF CliExits, Update
  <2>2. /\ live' \in Trees /\ live'[n].state = "completed" /\ live'[n] # Unknown
        /\ live'[n].parent = live[n].parent /\ live'[n].session = live[n].session
        /\ \A m \in Nodes \ {n} : live'[m] = live[m]
    BY <1>2, <2>1, Updated DEF LifeInv, LifeType, Update
  <2>3. Carried(live, live')
    BY <1>2, <2>2, NodeCarried DEF LifeInv
  <2>4. saved' \in Trees /\ Carried(live', saved')
    BY <2>1, <2>2, Saves DEF LifeInv, Restorable
  <2>5. FailedStays'
    BY <1>1, <1>2, <2>2 DEF LifeInv, Restorable, FailedStays, Open
  <2>6. LifeType' /\ RunsOurs' /\ OpenNodesAreOurs'
    BY <1>1, <1>2, <2>2, <2>4 DEF LifeInv, LifeType, RunsOurs, OpenNodesAreOurs, Open
  <2> QED
    BY <1>1, <1>2, <2>3, <2>4, <2>5, <2>6, Restores DEF LifeInv
<1> QED
  BY <1>1, <1>3, <1>4

\* A node is stopped.
LEMMA StopInv == ASSUME LifeInv, NEW n \in Nodes, Stop(n) PROVE LifeInv'
<1>1. /\ phase # "down" /\ live[n].state \in Open /\ tasks' = tasks \ {n}
      /\ Update(n, "error") /\ SaveTree(n)
      /\ UNCHANGED <<phase, polling, ours, written, kept>>
  BY DEF Stop, Alive, connVars
<1>2. live[n] \in Record
  BY <1>1, Records DEF LifeInv, LifeType, Open
<1>3. /\ live' \in Trees /\ live'[n].state = "error" /\ live'[n] # Unknown
      /\ live'[n].parent = live[n].parent /\ live'[n].session = live[n].session
      /\ \A m \in Nodes \ {n} : live'[m] = live[m]
  BY <1>1, <1>2, Updated DEF LifeInv, LifeType
<1>4. Carried(live, live')
  BY <1>1, <1>3, NodeCarried DEF LifeInv, Open
<1>5. saved' \in Trees /\ Carried(live', saved')
  BY <1>1, <1>3, Saves DEF LifeInv, Restorable
<1>6. FailedStays'
  BY <1>1, <1>3 DEF LifeInv, Restorable, FailedStays, Open
<1>7. LifeType' /\ RunsOurs' /\ OpenNodesAreOurs'
  BY <1>1, <1>3, <1>5 DEF LifeInv, LifeType, RunsOurs, OpenNodesAreOurs, Open
<1> QED
  BY <1>1, <1>4, <1>5, <1>6, <1>7, Restores DEF LifeInv

\* The store is written: from now on it is these trees that must survive.
LEMMA WriteInv ==
    ASSUME LifeInv, written' = saved, kept' = live, UNCHANGED <<live, saved, tasks, ours>>,
           phase # "down", phase' # "down"
    PROVE  LifeInv'
<1>1. LifeType' /\ RunsOurs' /\ OpenNodesAreOurs'
  BY DEF LifeInv, LifeType, RunsOurs, OpenNodesAreOurs
<1>2. Carried(live', saved') /\ Carried(kept', written') /\ Carried(kept', live')
  BY DEF LifeInv, Restorable, Carried
<1>3. FailedStays'
  BY DEF FailedStays, Open
<1> QED
  BY <1>1, <1>2, <1>3 DEF LifeInv, Restorable

\* The process ends, and only the file is left.
LEMMA DieInv == ASSUME LifeInv, Die PROVE LifeInv'
<1> USE DEF Die
<1>1. LifeType' /\ RunsOurs'
  BY Records DEF LifeInv, LifeType, RunsOurs
<1>2. OpenNodesAreOurs' /\ Carried(live', saved')
  BY Records DEF OpenNodesAreOurs, Open, Carried
<1>3. Carried(kept', written')
  BY DEF LifeInv, Restorable, Carried
<1> QED
  BY <1>1, <1>2, <1>3 DEF LifeInv, Restorable

\* LifeInv is inductive.
LEMMA StepLife == LifeInv /\ [LifeNext]_lifeVars => LifeInv'
<1> SUFFICES ASSUME LifeInv, [LifeNext]_lifeVars PROVE LifeInv'
  OBVIOUS
<1>1. CASE UNCHANGED lifeVars
  BY <1>1 DEF lifeVars, connVars, nodeVars, LifeInv, LifeType, RunsOurs, OpenNodesAreOurs,
              Restorable, Carried, FailedStays
<1>2. ASSUME \/ Connect \/ InitializeFails \/ PollingFails \/ StartAgain
             \/ on_ready \/ DiscordStarted \/ StopPlatform
      PROVE  LifeInv'
  <2>1. /\ UNCHANGED <<live, saved, written, kept, tasks, ours>>
        /\ phase # "down" /\ phase' # "down"
    BY <1>2 DEF Connect, InitializeFails, PollingFails, StartAgain, on_ready,
                DiscordStarted, StopPlatform, NextAttempt, nodeVars
  <2> QED
    BY <2>1, ConnectionOnly
<1>3. ASSUME SaveFromTimer \/ Flush PROVE LifeInv'
  <2>1. /\ written' = saved /\ kept' = live /\ UNCHANGED <<live, saved, tasks, ours>>
        /\ phase # "down" /\ phase' # "down"
    BY <1>3 DEF SaveFromTimer, Flush, Alive
  <2> QED
    BY <2>1, WriteInv
<1>4. ASSUME ProcessEnds \/ ProcessCrashes PROVE LifeInv'
  BY <1>4, DieInv DEF ProcessEnds, ProcessCrashes
<1> QED
  BY <1>1, <1>2, <1>3, <1>4, StartupInv, MessageInv, RunInv, SessionInfoInv, ErrorInv,
     ExitInv, StopInv DEF LifeNext

\* And holds at all times.
LEMMA LifeInvariance == LifeSpec => []LifeInv
BY InitLife, StepLife, PTL DEF LifeSpec

\* In every run, however often the process ends and however it does, what the trees were
\* when the store was last written is known again: each node has its parent and its
\* session, a completed one is completed, and one that had failed only runs if its own CLI
\* goes on (runtime.py flush_pending_save and _restore_tree_state, cleanup_stale_nodes).
THEOREM WrittenIsRestoredHolds == LifeSpec => []WrittenIsRestored
<1>1. LifeInv => WrittenIsRestored
  BY DEF LifeInv, Restorable, Carried, FailedStays, WrittenIsRestored, Known
<1> QED
  BY <1>1, LifeInvariance, PTL

\* In every run a node that waits or runs came in since the process was started, and one
\* that is said to run has its CLI, or its CLI ended without a session: nothing that was
\* restored is taken for alive (cleanup_stale_nodes before the platform starts).
THEOREM OpenNodesAreOursHolds == LifeSpec => []OpenNodesAreOurs
<1>1. LifeInv => OpenNodesAreOurs
  BY DEF LifeInv
<1> QED
  BY <1>1, LifeInvariance, PTL
=============================================================================
