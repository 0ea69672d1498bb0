-------------------------- MODULE MessagingLimiter --------------------------
(***************************************************************************)
(* The limiter that all messages to the chat platform go through: a queue  *)
(* of updates in which a newer update of a message takes the place of an   *)
(* older one, one worker that performs them within a rolling window, and   *)
(* the tasks of fire_and_forget, which try again when the platform cannot  *)
(* be reached.                                                             *)
(*                                                                         *)
(* Source: messaging/limiter.py, as used by queue_send_message,            *)
(* queue_edit_message and queue_delete_message of messaging/platforms.     *)
(*                                                                         *)
(* Granularity.  One event loop: a stretch between two awaits that can     *)
(* suspend is one action.  Nobody suspends inside _condition but to wait   *)
(* for work, and the task that fire_and_forget creates runs before         *)
(* anything that is created later, so a call and its enqueuing are one     *)
(* step.  Time is relative, as in SlidingWindow.                           *)
(***************************************************************************)
EXTENDS SlidingWindow, FiniteSets

CONSTANTS
    Keys,           \* dedup keys: what is edited, deleted or sent
    MaxCalls,       \* bound: updates made
    MaxRetries,     \* max_retries of fire_and_forget
    Pause           \* for how long the platform asks to be left alone

ASSUME KeysAssumption == IsFiniteSet(Keys)
ASSUME BoundsAssumption ==
    MaxCalls \in Nat \ {0} /\ MaxRetries \in Nat /\ Pause \in Nat
\* A fact of arithmetic that the provers do not know.
ASSUME PowersAssumption == \A n \in 0..MaxRetries : 2^n \in Nat

\* The n-th update of key k is call <<k, n>>.
Versions == 1..MaxCalls
Calls == Keys \X Versions
KeyOf(c) == c[1]
VersionOf(c) == c[2]

VARIABLES
    list,           \* _queue_list
    latest,         \* _queue_map: the version to perform, 0 if the key is not there ...
    futures,        \* ... and whose futures wait for it
    worker,         \* where the worker is
    job,            \* the call it has taken, with the futures
    rest,           \* ticks left of its sleep
    times,          \* _times of its limiter, as ages
    paused,         \* _paused_until, as the ticks left
    state,          \* what became of each call
    awaited,        \* calls of enqueue; the others are of fire_and_forget
    attempt,        \* attempts that failed
    nap,            \* ticks left until the next one
    issued,         \* versions made of each key
    shown,          \* the version the platform shows
    stale           \* history: keys of which an old version was enqueued again

queueVars == <<list, latest, futures>>
workerVars == <<worker, job, rest, times, paused>>
callVars == <<state, awaited, attempt, nap>>
messageVars == <<issued, shown, stale>>
vars == <<queueVars, workerVars, callVars, messageVars>>

\* waiting: for its future; again: asleep before the next attempt.
States == {"new", "waiting", "again", "done", "failed", "cancelled"}
Idle == [call |-> <<>>, for |-> {}]
Jobs == [call : Calls, for : SUBSET Calls]

TypeOK ==
    /\ list \in Seq(Keys)
    /\ latest \in [Keys -> 0..MaxCalls]
    /\ futures \in [Keys -> SUBSET Calls]
    /\ worker \in {"idle", "paused", "pacing", "calling", "stopped"}
    /\ job \in Jobs \cup {Idle}
    /\ rest \in Nat /\ paused \in Nat
    /\ times \in Seq(Ages)
    /\ state \in [Calls -> States]
    /\ awaited \subseteq Calls
    /\ attempt \in [Calls -> 0..MaxRetries]
    /\ nap \in [Calls -> Nat]
    /\ issued \in [Keys -> 0..MaxCalls]
    /\ shown \in [Keys -> 0..MaxCalls]
    /\ stale \subseteq Keys

Init ==
    /\ list = <<>> /\ latest = [k \in Keys |-> 0] /\ futures = [k \in Keys |-> {}]
    /\ worker = "idle" /\ job = Idle /\ rest = 0 /\ times = <<>> /\ paused = 0
    /\ state = [c \in Calls |-> "new"] /\ awaited = {}
    /\ attempt = [c \in Calls |-> 0] /\ nap = [c \in Calls |-> 0]
    /\ issued = [k \in Keys |-> 0] /\ shown = [k \in Keys |-> 0] /\ stale = {}

-----------------------------------------------------------------------------
(* The callers.                                                            *)

\* Mutant: compaction keeps the old function.
MutantEnqueue(c) ==
    LET k == KeyOf(c) IN
    /\ latest' = [latest EXCEPT ![k] = IF @ = 0 THEN VersionOf(c) ELSE @]
    /\ futures' = [futures EXCEPT ![k] = IF latest[k] = 0 THEN {c} ELSE @ \cup {c}]
    /\ list' = IF latest[k] = 0 THEN Append(list, k) ELSE list

\* Mutant: compaction drops the futures of those it replaces.
MutantCompact(c) ==
    LET k == KeyOf(c) IN
    /\ latest' = [latest EXCEPT ![k] = VersionOf(c)]
    /\ futures' = [futures EXCEPT ![k] = {c}]
    /\ list' = IF latest[k] = 0 THEN Append(list, k) ELSE list

\* _enqueue_internal_multi: the newest function, the futures of all, the old place.
Enqueue(c) ==
    LET k == KeyOf(c) IN
    /\ latest' = [latest EXCEPT ![k] = VersionOf(c)]
    /\ futures' = [futures EXCEPT ![k] = IF latest[k] = 0 THEN {c} ELSE @ \cup {c}]
    /\ list' = IF latest[k] = 0 THEN Append(list, k) ELSE list

\* Somebody makes the next update of a key, and waits for it or not.
Issue(c) ==
    /\ VersionOf(c) = issued[KeyOf(c)] + 1
    /\ Cardinality({d \in Calls : state[d] # "new"}) < MaxCalls
    /\ issued' = [issued EXCEPT ![KeyOf(c)] = VersionOf(c)]
    /\ Enqueue(c)
    /\ state' = [state EXCEPT ![c] = "waiting"]
    /\ awaited' \in {awaited, awaited \cup {c}}
    /\ UNCHANGED <<workerVars, attempt, nap, shown, stale>>

\* The task of one who waits is cancelled, and its future with it.
Cancel(c) ==
    /\ c \in awaited /\ state[c] = "waiting"
    /\ state' = [state EXCEPT ![c] = "cancelled"]
    /\ UNCHANGED <<queueVars, workerVars, awaited, attempt, nap, messageVars>>

\* fire_and_forget has slept and enqueues its own function again.
Again(c) ==
    /\ state[c] = "again" /\ nap[c] = 0
    /\ Enqueue(c)
    /\ state' = [state EXCEPT ![c] = "waiting"]
    /\ stale' = IF VersionOf(c) < issued[KeyOf(c)] THEN stale \cup {KeyOf(c)} ELSE stale
    /\ UNCHANGED <<workerVars, awaited, attempt, nap, issued, shown>>

-----------------------------------------------------------------------------
(* The worker.                                                             *)

\* SlidingWindowLimiter.acquire: one turn of its loop, and the call if there is room.
Acquire ==
    \E k \in 0..Len(times) :
        /\ PopsOff(times, k)
        /\ IF Len(Kept(times, k)) < Limit
             THEN /\ times' = Append(Kept(times, k), 0)
                  /\ worker' = "calling" /\ rest' = 0
             ELSE /\ times' = Kept(times, k)
                  /\ worker' = "pacing" /\ rest' = TimeToRoom(times')

\* Mutant: a pause is waited for only after the window.
MutantTake ==
    /\ worker = "idle" /\ list # <<>>
    /\ LET k == Head(list) IN
        /\ list' = Tail(list)
        /\ job' = [call |-> <<k, latest[k]>>, for |-> futures[k]]
        /\ latest' = [latest EXCEPT ![k] = 0]
        /\ futures' = [futures EXCEPT ![k] = {}]
    /\ Acquire
    /\ UNCHANGED <<paused, callVars, messageVars>>

\* It takes the first key of the queue, with all that was enqueued under it.
Take ==
    /\ worker = "idle" /\ list # <<>>
    /\ LET k == Head(list) IN
        /\ list' = Tail(list)
        /\ job' = [call |-> <<k, latest[k]>>, for |-> futures[k]]
        /\ latest' = [latest EXCEPT ![k] = 0]
        /\ futures' = [futures EXCEPT ![k] = {}]
    /\ IF paused > 0
         THEN worker' = "paused" /\ rest' = paused /\ UNCHANGED times
         ELSE Acquire
    /\ UNCHANGED <<paused, callVars, messageVars>>

\* It has slept for a pause or for the window.
Resume ==
    /\ worker \in {"paused", "pacing"} /\ rest = 0
    /\ Acquire
    /\ UNCHANGED <<queueVars, job, paused, callVars, messageVars>>

\* Mutant: only the newest of the merged calls is told.
MutantWaiting == {c \in {job.call} : state[c] = "waiting"}

\* Those who still wait for the job.
Waiting == {c \in job.for : state[c] = "waiting"}

\* The worker turns to the next key.
Finished == worker' = "idle" /\ job' = Idle /\ UNCHANGED <<rest, times>>

\* The platform has done it, and all who wait learn the result.
Succeed ==
    /\ worker = "calling"
    /\ shown' = [shown EXCEPT ![KeyOf(job.call)] = VersionOf(job.call)]
    /\ state' = [c \in Calls |-> IF c \in Waiting THEN "done" ELSE state[c]]
    /\ Finished
    /\ UNCHANGED <<queueVars, paused, awaited, attempt, nap, issued, stale>>

\* Those who try again after an error that was transient or not.
Retrying(transient) ==
    {c \in Waiting : transient /\ c \notin awaited /\ attempt[c] < MaxRetries}

\* The platform answers with an error, which may be a flood warning, transient, both
\* or neither; a call that failed may have had its effect.
Fail ==
    /\ worker = "calling"
    /\ shown' \in {shown, [shown EXCEPT ![KeyOf(job.call)] = VersionOf(job.call)]}
    /\ paused' \in {paused, Pause}
    /\ \E transient \in BOOLEAN :
        /\ state' = [c \in Calls |-> IF c \in Retrying(transient) THEN "again"
                                     ELSE IF c \in Waiting THEN "failed" ELSE state[c]]
        /\ attempt' = [c \in Calls |->
                          IF c \in Retrying(transient) THEN attempt[c] + 1 ELSE attempt[c]]
        /\ nap' = [c \in Calls |->
                      IF c \in Retrying(transient) THEN 2^attempt[c] ELSE nap[c]]
    /\ Finished
    /\ UNCHANGED <<queueVars, awaited, issued, stale>>

\* shutdown() cancels the worker wherever it is; futures stay as they are.
Shutdown ==
    /\ worker # "stopped"
    /\ worker' = "stopped" /\ job' = Idle
    /\ UNCHANGED <<queueVars, rest, times, paused, callVars, messageVars>>

\* Time passes.
Left(d) == IF d > 0 THEN d - 1 ELSE 0

Tick ==
    /\ times' = Aged(times)
    /\ paused' = Left(paused) /\ rest' = Left(rest)
    /\ nap' = [c \in Calls |-> Left(nap[c])]
    /\ UNCHANGED <<queueVars, worker, job, state, awaited, attempt, messageVars>>

Work == Take \/ Resume \/ Succeed \/ Fail

Next ==
    \/ Work \/ Shutdown \/ Tick
    \/ \E c \in Calls : Issue(c) \/ Cancel(c) \/ Again(c)

Spec == Init /\ [][Next]_vars

\* The loop runs whatever is ready, the clock advances, and the libraries of the
\* platforms answer or time out.
FairSpec ==
    /\ Spec /\ WF_vars(Tick) /\ WF_vars(Work)
    /\ \A c \in Calls : WF_vars(Again(c))

-----------------------------------------------------------------------------
(* Properties.                                                             *)

\* The two halves of the queue agree, whatever is compacted, taken and enqueued again
\* meanwhile: a key is in line once if the map has it and not otherwise, so the
\* worker's pop from the map never fails.
QueueIndexed ==
    /\ \A i, j \in 1..Len(list) : list[i] = list[j] => i = j
    /\ \A k \in Keys : latest[k] # 0 <=> \E i \in 1..Len(list) : list[i] = k

\* A future that is waited for is held in one place, in the queue or by the worker,
\* where it will be answered: compaction loses none, and none is answered twice.
FuturesHeld ==
    worker # "stopped" =>
        \A c \in Calls : state[c] = "waiting" =>
            /\ c \in futures[KeyOf(c)] \/ c \in job.for
            /\ ~(c \in futures[KeyOf(c)] /\ c \in job.for)

\* One whose update succeeded finds it, or a newer one, on the platform from then on,
\* although updates are merged and failed ones may have had their effect; except
\* when an old update of the same key was enqueued again.
DoneIsShown ==
    \A c \in Calls :
        state[c] = "done" /\ KeyOf(c) \notin stale => shown[KeyOf(c)] >= VersionOf(c)

\* The worker calls nobody while it is asked to pause: it looks at the pause before it
\* waits for the window, but nobody else can have set it meanwhile.
PauseRespected == [][worker # "calling" /\ worker' = "calling" => paused = 0]_vars

\* The worker's calls respect the rolling window.
Rolling == INSTANCE RollingWindow WITH recent <- Fresh(times)
ImplementsRollingWindow == Rolling!Spec

\* Every call gets an answer or ends its retries, unless the limiter is shut down.
EveryCallAnswered ==
    \A c \in Calls :
        state[c] = "waiting" ~>
            state[c] \in {"done", "failed", "cancelled"} \/ worker = "stopped"
=============================================================================
