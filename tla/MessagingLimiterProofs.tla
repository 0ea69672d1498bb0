----------------------- MODULE MessagingLimiterProofs -----------------------
(***************************************************************************)
(* Proofs about the messaging limiter, for any set of keys and any number  *)
(* of updates, and any limit, window, pause and number of retries.         *)
(***************************************************************************)
EXTENDS MessagingLimiter, SlidingWindowProofs

\* The queue: keys in line once, the map and the futures agree with it.
QueueInv ==
    /\ QueueIndexed
    /\ \A k \in Keys : \A c \in futures[k] : KeyOf(c) = k
    /\ \A k \in Keys : latest[k] = 0 => futures[k] = {}

\* The worker has a job while it is at work, and only then.
JobInv ==
    /\ worker \in {"idle", "stopped"} => job = Idle
    /\ worker \in {"paused", "pacing", "calling"} => job \in Jobs
    /\ \A c \in job.for : KeyOf(c) = KeyOf(job.call)

\* Who is held is held in one place, and waits unless it was cancelled.
HeldInv ==
    /\ \A c \in Calls :
          /\ c \in futures[KeyOf(c)] \/ c \in job.for => state[c] \in {"waiting", "cancelled"}
          /\ ~(c \in futures[KeyOf(c)] /\ c \in job.for)
    /\ worker # "stopped" =>
          \A c \in Calls :
              state[c] = "waiting" => c \in futures[KeyOf(c)] \/ c \in job.for

\* Unless an old update was enqueued again, the queue holds the newest one and the
\* worker's is at least as new as what is shown and as those it answers for.
VersionInv ==
    /\ \A c \in Calls : state[c] # "new" => VersionOf(c) <= issued[KeyOf(c)]
    /\ \A k \in Keys : shown[k] <= issued[k] /\ latest[k] <= issued[k]
    /\ \A k \in Keys \ stale : latest[k] # 0 => latest[k] = issued[k]
    /\ worker \in {"paused", "pacing", "calling"} =>
          LET v == VersionOf(job.call) IN
          /\ v <= issued[KeyOf(job.call)]
          /\ KeyOf(job.call) \notin stale =>
                shown[KeyOf(job.call)] <= v /\ \A c \in job.for : VersionOf(c) <= v
    /\ DoneIsShown

\* The worker has slept off any pause before it looks at the window.
PauseInv ==
    /\ worker = "paused" => paused <= rest
    /\ worker = "pacing" => paused = 0

-----------------------------------------------------------------------------
(* Types.                                                                  *)

LEMMA CallTypes ==
    ASSUME NEW c \in Calls
    PROVE  /\ KeyOf(c) \in Keys /\ VersionOf(c) \in Nat
           /\ VersionOf(c) \in 1..MaxCalls /\ VersionOf(c) \in 0..MaxCalls
           /\ VersionOf(c) # 0
BY BoundsAssumption DEF Calls, Versions, KeyOf, VersionOf

\* What is enqueued keeps the types of the queue.
LEMMA EnqueueType ==
    ASSUME TypeOK, NEW c \in Calls, Enqueue(c)
    PROVE  /\ list' \in Seq(Keys)
           /\ latest' \in [Keys -> 0..MaxCalls]
           /\ futures' \in [Keys -> SUBSET Calls]
<1>1. list' \in Seq(Keys)
  BY CallTypes, AppendProperties DEF Enqueue, TypeOK
<1>2. latest' \in [Keys -> 0..MaxCalls]
  BY CallTypes DEF Enqueue, TypeOK
<1>3. futures' \in [Keys -> SUBSET Calls]
  BY CallTypes DEF Enqueue, TypeOK
<1> QED
  BY <1>1, <1>2, <1>3

\* What one turn of the window's loop does to the worker and to the deque.
LEMMA AcquireType ==
    ASSUME TypeOK, Acquire
    PROVE  /\ times' \in Seq(Ages) /\ rest' \in Nat
           /\ worker' \in {"calling", "pacing"}
<1> PICK k \in 0..Len(times) :
        /\ PopsOff(times, k)
        /\ IF Len(Kept(times, k)) < Limit
             THEN /\ times' = Append(Kept(times, k), 0)
                  /\ worker' = "calling" /\ rest' = 0
             ELSE /\ times' = Kept(times, k)
                  /\ worker' = "pacing" /\ rest' = TimeToRoom(times')
  BY DEF Acquire
<1>1. Kept(times, k) \in Seq(Ages) /\ Len(Kept(times, k)) \in Nat
  BY Suffix, AgesOf DEF TypeOK
<1>2. CASE Len(Kept(times, k)) < Limit
  <2>1. 0 \in Ages
    BY WindowAssumption DEF Ages
  <2> QED
    BY <1>1, <1>2, <2>1, AppendProperties
<1>3. CASE ~(Len(Kept(times, k)) < Limit)
  <2>1. times' \in Seq(Ages) /\ 1 \in 1..Len(times')
    BY <1>1, <1>3, WindowAssumption
  <2>2. TimeToRoom(times') \in Nat
    BY <2>1, AgesOf, WindowAssumption DEF TimeToRoom
  <2> QED
    BY <1>3, <2>1, <2>2
<1> QED
  BY <1>2, <1>3

\* The key that the worker takes, and what is left of the queue.
LEMMA HeadOfList ==
    ASSUME TypeOK, list # <<>>
    PROVE  /\ Len(list) \in Nat /\ 1 \in 1..Len(list)
           /\ Head(list) = list[1] /\ Head(list) \in Keys
           /\ Tail(list) \in Seq(Keys) /\ Len(Tail(list)) = Len(list) - 1
           /\ \A i \in 1..(Len(list) - 1) : Tail(list)[i] = list[i + 1]
<1>1. Len(list) \in Nat \ {0}
  BY EmptySeq DEF TypeOK
<1> QED
  BY <1>1, HeadTailProperties, ElementOfSeq DEF TypeOK

LEMMA TypeStep ==
    ASSUME TypeOK, QueueInv, JobInv, [Next]_vars
    PROVE  TypeOK'
<1>1. ASSUME NEW c \in Calls, Issue(c) PROVE TypeOK'
  BY <1>1, EnqueueType, CallTypes DEF Issue, TypeOK, workerVars, States
<1>2. ASSUME NEW c \in Calls, Cancel(c) PROVE TypeOK'
  BY <1>2 DEF Cancel, TypeOK, workerVars, queueVars, messageVars, States
<1>3. ASSUME NEW c \in Calls, Again(c) PROVE TypeOK'
  BY <1>3, EnqueueType, CallTypes DEF Again, TypeOK, workerVars, States
<1>4. CASE Take
  <2>1. /\ Head(list) \in Keys /\ Tail(list) \in Seq(Keys)
        /\ latest[Head(list)] # 0
    BY <1>4, HeadOfList DEF Take, QueueInv, QueueIndexed
  <2>2. job' \in Jobs
    BY <1>4, <2>1 DEF Take, TypeOK, Jobs, Calls, Versions
  <2>3. worker' \in {"paused", "calling", "pacing"} /\ rest' \in Nat /\ times' \in Seq(Ages)
    BY <1>4, AcquireType DEF Take, TypeOK
  <2>4. latest' \in [Keys -> 0..MaxCalls] /\ futures' \in [Keys -> SUBSET Calls]
    BY <1>4, BoundsAssumption DEF Take, TypeOK
  <2> QED
    BY <1>4, <2>1, <2>2, <2>3, <2>4 DEF Take, TypeOK, callVars, messageVars
<1>5. CASE Resume
  BY <1>5, AcquireType DEF Resume, TypeOK, queueVars, callVars, messageVars
<1>6. CASE Succeed
  <2>1. job.call \in Calls
    BY <1>6 DEF Succeed, JobInv, Jobs
  <2>2. shown' \in [Keys -> 0..MaxCalls]
    BY <1>6, <2>1, CallTypes DEF Succeed, TypeOK
  <2>3. state' \in [Calls -> States]
    BY <1>6 DEF Succeed, TypeOK, States
  <2> QED
    BY <1>6, <2>2, <2>3 DEF Succeed, Finished, TypeOK, queueVars
<1>7. CASE Fail
  <2>1. job.call \in Calls
    BY <1>7 DEF Fail, JobInv, Jobs
  <2>2. shown' \in [Keys -> 0..MaxCalls]
    BY <1>7, <2>1, CallTypes DEF Fail, TypeOK
  <2>3. PICK transient \in BOOLEAN :
        /\ state' = [c \in Calls |-> IF c \in Retrying(transient) THEN "again"
                                     ELSE IF c \in Waiting THEN "failed" ELSE state[c]]
        /\ attempt' = [c \in Calls |->
                          IF c \in Retrying(transient) THEN attempt[c] + 1 ELSE attempt[c]]
        /\ nap' = [c \in Calls |->
                      IF c \in Retrying(transient) THEN 2^attempt[c] ELSE nap[c]]
    BY <1>7 DEF Fail
  <2>4. state' \in [Calls -> States]
    BY <2>3 DEF TypeOK, States
  <2>5. attempt' \in [Calls -> 0..MaxRetries]
    BY <2>3, BoundsAssumption DEF TypeOK, Retrying
  <2>6. nap' \in [Calls -> Nat]
    BY <2>3, PowersAssumption DEF TypeOK
  <2>7. paused' \in Nat
    BY <1>7, BoundsAssumption DEF Fail, TypeOK
  <2> QED
    BY <1>7, <2>2, <2>4, <2>5, <2>6, <2>7 DEF Fail, Finished, TypeOK, queueVars
<1>8. CASE Shutdown
  BY <1>8 DEF Shutdown, TypeOK, queueVars, callVars, messageVars
<1>9. CASE Tick
  <2>1. nap' \in [Calls -> Nat] /\ paused' \in Nat /\ rest' \in Nat
    BY <1>9 DEF Tick, TypeOK, Left
  <2> QED
    BY <1>9, <2>1, AgedIs DEF Tick, TypeOK, queueVars, messageVars
<1>10. CASE UNCHANGED vars
  BY <1>10 DEF vars, queueVars, workerVars, callVars, messageVars, TypeOK
<1> QED
  BY <1>1, <1>2, <1>3, <1>4, <1>5, <1>6, <1>7, <1>8, <1>9, <1>10 DEF Next, Work

-----------------------------------------------------------------------------
(* The queue.                                                              *)

\* Enqueuing keeps the queue and its map in agreement.
LEMMA EnqueueQueue ==
    ASSUME TypeOK, QueueInv, NEW c \in Calls, Enqueue(c)
    PROVE  QueueInv'
<1> DEFINE k == KeyOf(c)
<1>0. k \in Keys /\ VersionOf(c) # 0 /\ Len(list) \in Nat
  BY CallTypes, LenProperties DEF TypeOK
<1>1. latest' = [latest EXCEPT ![k] = VersionOf(c)] /\ latest'[k] # 0
  BY <1>0 DEF Enqueue, TypeOK
<1>2. /\ \A q \in Keys : \A d \in futures'[q] : KeyOf(d) = q
      /\ \A q \in Keys : latest'[q] = 0 => futures'[q] = {}
  BY <1>0, <1>1 DEF Enqueue, QueueInv, TypeOK
<1>3. CASE latest[k] = 0
  <2>1. /\ Len(list') = Len(list) + 1 /\ list'[Len(list) + 1] = k
        /\ \A i \in 1..Len(list) : list'[i] = list[i] /\ list[i] # k
    BY <1>0, <1>3, AppendProperties DEF Enqueue, QueueInv, QueueIndexed, TypeOK
  <2>2. \A i, j \in 1..Len(list') : list'[i] = list'[j] => i = j
    BY <1>0, <2>1 DEF QueueInv, QueueIndexed
  <2>3. \A q \in Keys : (\E i \in 1..Len(list') : list'[i] = q) <=>
                            q = k \/ \E i \in 1..Len(list) : list[i] = q
    BY <1>0, <2>1
  <2>4. \A q \in Keys : latest'[q] # 0 <=> q = k \/ latest[q] # 0
    BY <1>0, <1>1 DEF TypeOK
  <2>5. \A q \in Keys : latest[q] # 0 <=> \E i \in 1..Len(list) : list[i] = q
    BY DEF QueueInv, QueueIndexed
  <2> QED
    BY <1>2, <2>2, <2>3, <2>4, <2>5 DEF QueueInv, QueueIndexed
<1>4. CASE latest[k] # 0
  <2>1. list' = list
    BY <1>4 DEF Enqueue
  <2>2. \A q \in Keys : latest'[q] # 0 <=> latest[q] # 0
    BY <1>0, <1>1, <1>4 DEF TypeOK
  <2> QED
    BY <1>2, <2>1, <2>2 DEF QueueInv, QueueIndexed
<1> QED
  BY <1>3, <1>4

\* So does the worker that takes a key.
LEMMA TakeQueue ==
    ASSUME TypeOK, QueueInv, Take
    PROVE  QueueInv'
<1> DEFINE k == Head(list)
<1>0. /\ Len(list) \in Nat /\ 1 \in 1..Len(list)
      /\ k = list[1] /\ k \in Keys
      /\ list' \in Seq(Keys) /\ Len(list') = Len(list) - 1
      /\ \A i \in 1..(Len(list) - 1) : list'[i] = list[i + 1]
  BY HeadOfList DEF Take
<1>1. /\ latest' = [latest EXCEPT ![k] = 0]
      /\ futures' = [futures EXCEPT ![k] = {}]
  BY DEF Take
<1>2. /\ \A q \in Keys : \A d \in futures'[q] : KeyOf(d) = q
      /\ \A q \in Keys : latest'[q] = 0 => futures'[q] = {}
  BY <1>0, <1>1 DEF QueueInv, TypeOK
<1> HIDE DEF k
<1>3. \A i, j \in 1..Len(list') : list'[i] = list'[j] => i = j
  <2> SUFFICES ASSUME NEW i \in 1..Len(list'), NEW j \in 1..Len(list'),
                      list'[i] = list'[j]
               PROVE  i = j
    OBVIOUS
  <2>1. i + 1 \in 1..Len(list) /\ j + 1 \in 1..Len(list) /\ list[i + 1] = list[j + 1]
    BY <1>0
  <2>2. i + 1 = j + 1
    BY <2>1 DEF QueueInv, QueueIndexed
  <2> QED BY <1>0, <2>2
<1>4. ASSUME NEW q \in Keys
      PROVE  latest'[q] # 0 <=> \E i \in 1..Len(list') : list'[i] = q
  <2>1. latest[q] # 0 <=> \E i \in 1..Len(list) : list[i] = q
    BY DEF QueueInv, QueueIndexed
  <2>2. CASE q = k
    <3>1. latest'[q] = 0
      BY <1>0, <1>1, <2>2 DEF TypeOK
    <3>2. ASSUME NEW i \in 1..Len(list'), list'[i] = q PROVE FALSE
      <4>1. i + 1 \in 1..Len(list) /\ list[i + 1] = list[1] /\ i + 1 # 1
        BY <1>0, <2>2, <3>2
      <4> QED BY <1>0, <4>1 DEF QueueInv, QueueIndexed
    <3> QED BY <3>1, <3>2
  <2>3. CASE q # k
    <3>1. latest'[q] = latest[q]
      BY <1>0, <1>1, <2>3 DEF TypeOK
    <3>2. ASSUME NEW i \in 1..Len(list), list[i] = q
          PROVE  \E j \in 1..Len(list') : list'[j] = q
      <4>1. i - 1 \in 1..Len(list') /\ list'[i - 1] = q
        BY <1>0, <2>3, <3>2
      <4> QED BY <4>1
    <3>3. ASSUME NEW j \in 1..Len(list'), list'[j] = q
          PROVE  \E i \in 1..Len(list) : list[i] = q
      <4>1. j + 1 \in 1..Len(list) /\ list[j + 1] = q
        BY <1>0, <3>3
      <4> QED BY <4>1
    <3> QED BY <2>1, <3>1, <3>2, <3>3
  <2> QED BY <2>2, <2>3
<1> QED
  BY <1>2, <1>3, <1>4 DEF QueueInv, QueueIndexed

LEMMA QueueStep ==
    ASSUME TypeOK, QueueInv, [Next]_vars
    PROVE  QueueInv'
<1>1. ASSUME NEW c \in Calls, Issue(c) \/ Again(c) PROVE QueueInv'
  BY <1>1, EnqueueQueue DEF Issue, Again
<1>2. CASE Take
  BY <1>2, TakeQueue
<1>3. CASE UNCHANGED queueVars
  BY <1>3 DEF queueVars, QueueInv, QueueIndexed
<1> QED
  BY <1>1, <1>2, <1>3 DEF Next, Work, Cancel, Resume, Succeed, Fail, Shutdown, Tick, vars

-----------------------------------------------------------------------------
(* The worker and its job.                                                 *)

LEMMA JobStep ==
    ASSUME TypeOK, QueueInv, JobInv, [Next]_vars
    PROVE  JobInv'
<1>1. CASE Take
  <2>1. Head(list) \in Keys /\ latest[Head(list)] # 0
    BY <1>1, HeadOfList DEF Take, QueueInv, QueueIndexed
  <2>2. /\ job' = [call |-> <<Head(list), latest[Head(list)]>>, for |-> futures[Head(list)]]
        /\ job' \in Jobs
    BY <1>1, <2>1 DEF Take, TypeOK, Jobs, Calls, Versions
  <2>3. worker' \in {"paused", "calling", "pacing"}
    BY <1>1, AcquireType DEF Take
  <2>4. \A c \in job'.for : KeyOf(c) = KeyOf(job'.call)
    BY <2>1, <2>2 DEF QueueInv, KeyOf
  <2> QED
    BY <2>2, <2>3, <2>4 DEF JobInv
<1>2. CASE Resume
  BY <1>2, AcquireType DEF Resume, JobInv
<1>3. CASE Succeed \/ Fail \/ Shutdown
  BY <1>3 DEF Succeed, Fail, Shutdown, Finished, JobInv, Idle
<1>4. CASE UNCHANGED <<worker, job>>
  BY <1>4 DEF JobInv
<1> QED
  BY <1>1, <1>2, <1>3, <1>4
  DEF Next, Work, Issue, Again, Cancel, Tick, vars, workerVars

\* Enqueuing a call that nobody holds.
LEMMA EnqueueHeld ==
    ASSUME TypeOK, QueueInv, HeldInv, NEW c \in Calls, Enqueue(c),
           state[c] \in {"new", "again"}, state' = [state EXCEPT ![c] = "waiting"],
           UNCHANGED <<worker, job>>
    PROVE  HeldInv'
<1>1. c \notin futures[KeyOf(c)] /\ c \notin job.for
  BY DEF HeldInv
<1>2. ASSUME NEW d \in Calls
      PROVE  d \in futures'[KeyOf(d)] <=> d = c \/ d \in futures[KeyOf(d)]
  <2>1. KeyOf(d) \in Keys /\ KeyOf(c) \in Keys
    BY CallTypes
  <2> QED
    BY <2>1 DEF Enqueue, TypeOK, QueueInv
<1> QED
  BY <1>1, <1>2 DEF HeldInv, TypeOK

LEMMA HeldStep ==
    ASSUME TypeOK, QueueInv, JobInv, HeldInv, VersionInv, [Next]_vars
    PROVE  HeldInv'
<1>1. ASSUME NEW c \in Calls, Issue(c) PROVE HeldInv'
  <2>1. state[c] = "new"
    BY <1>1, CallTypes DEF Issue, VersionInv, TypeOK
  <2> QED
    BY <1>1, <2>1, EnqueueHeld DEF Issue, workerVars
<1>2. ASSUME NEW c \in Calls, Again(c) PROVE HeldInv'
  BY <1>2, EnqueueHeld DEF Again, workerVars
<1>3. ASSUME NEW c \in Calls, Cancel(c) PROVE HeldInv'
  BY <1>3 DEF Cancel, HeldInv, TypeOK, queueVars, workerVars
<1>4. CASE Take
  <2>1. Head(list) \in Keys
    BY <1>4, HeadOfList DEF Take
  <2>2. job = Idle /\ job.for = {} /\ state' = state /\ worker # "stopped"
    BY <1>4 DEF Take, JobInv, Idle, callVars
  <2>3. job'.for = futures[Head(list)] /\ futures' = [futures EXCEPT ![Head(list)] = {}]
    BY <1>4 DEF Take
  <2>4. ASSUME NEW d \in Calls
        PROVE  /\ d \in futures'[KeyOf(d)] <=>
                    d \in futures[KeyOf(d)] /\ KeyOf(d) # Head(list)
               /\ d \in job'.for <=> d \in futures[KeyOf(d)] /\ KeyOf(d) = Head(list)
    BY <2>1, <2>3, CallTypes DEF TypeOK, QueueInv
  <2> QED
    BY <2>2, <2>4 DEF HeldInv
<1>5. CASE Resume
  BY <1>5, AcquireType DEF Resume, HeldInv, callVars, queueVars
<1>6. CASE Succeed
  <2>1. \A c \in Calls : state'[c] = IF c \in Waiting THEN "done" ELSE state[c]
    BY <1>6 DEF Succeed
  <2>2. job'.for = {} /\ UNCHANGED futures /\ worker # "stopped"
    BY <1>6 DEF Succeed, Finished, Idle, queueVars
  <2> QED
    BY <2>1, <2>2 DEF HeldInv, Waiting
<1>7. CASE Fail
  <2>1. PICK transient \in BOOLEAN :
          \A c \in Calls : state'[c] = IF c \in Retrying(transient) THEN "again"
                                       ELSE IF c \in Waiting THEN "failed" ELSE state[c]
    BY <1>7 DEF Fail
  <2>2. job'.for = {} /\ UNCHANGED futures /\ worker # "stopped"
    BY <1>7 DEF Fail, Finished, Idle, queueVars
  <2> QED
    BY <2>1, <2>2 DEF HeldInv, Waiting, Retrying
<1>8. CASE Shutdown
  BY <1>8 DEF Shutdown, HeldInv, Idle, queueVars, callVars
<1>9. CASE UNCHANGED <<futures, worker, job, state>>
  BY <1>9 DEF HeldInv
<1> QED
  BY <1>1, <1>2, <1>3, <1>4, <1>5, <1>6, <1>7, <1>8, <1>9
  DEF Next, Work, Tick, vars, queueVars, workerVars, callVars

-----------------------------------------------------------------------------
(* Versions.                                                               *)

LEMMA VersionStep ==
    ASSUME TypeOK, QueueInv, JobInv, HeldInv, VersionInv, [Next]_vars, TypeOK'
    PROVE  VersionInv'
<1>0. /\ \A k \in Keys : issued[k] \in Nat /\ shown[k] \in Nat /\ latest[k] \in Nat
      /\ \A c \in Calls : KeyOf(c) \in Keys /\ VersionOf(c) \in Nat /\ VersionOf(c) # 0
  BY CallTypes, BoundsAssumption DEF TypeOK
<1>1. ASSUME NEW c \in Calls, Issue(c) PROVE VersionInv'
  <2>1. /\ issued' = [issued EXCEPT ![KeyOf(c)] = VersionOf(c)]
        /\ VersionOf(c) = issued[KeyOf(c)] + 1
        /\ latest' = [latest EXCEPT ![KeyOf(c)] = VersionOf(c)]
        /\ state' = [state EXCEPT ![c] = "waiting"]
        /\ UNCHANGED <<worker, job, shown, stale>>
    BY <1>1 DEF Issue, Enqueue, workerVars
  <2>2. \A k \in Keys : issued'[k] >= issued[k] /\ issued'[k] \in Nat
    BY <1>0, <2>1 DEF TypeOK
  <2>3. ASSUME NEW d \in Calls, state'[d] # "new" PROVE VersionOf(d) <= issued'[KeyOf(d)]
    <3>1. CASE d = c
      BY <1>0, <2>1, <3>1 DEF TypeOK
    <3>2. CASE d # c
      <4>1. VersionOf(d) <= issued[KeyOf(d)]
        BY <2>1, <2>3, <3>2 DEF TypeOK, VersionInv
      <4> QED
        BY <1>0, <2>2, <4>1
    <3> QED
      BY <3>1, <3>2
  <2>4. \A k \in Keys : shown'[k] <= issued'[k] /\ latest'[k] <= issued'[k]
    <3>1. \A k \in Keys : latest'[k] = IF k = KeyOf(c) THEN issued'[k] ELSE latest[k]
      BY <1>0, <2>1 DEF TypeOK
    <3> QED
      BY <1>0, <2>1, <2>2, <3>1 DEF VersionInv
  <2>5. \A k \in Keys \ stale' : latest'[k] # 0 => latest'[k] = issued'[k]
    BY <1>0, <2>1 DEF VersionInv, TypeOK
  <2>6. worker' \in {"paused", "pacing", "calling"} =>
          /\ VersionOf(job'.call) <= issued'[KeyOf(job'.call)]
          /\ KeyOf(job'.call) \notin stale' =>
                /\ shown'[KeyOf(job'.call)] <= VersionOf(job'.call)
                /\ \A d \in job'.for : VersionOf(d) <= VersionOf(job'.call)
    BY <1>0, <2>1, <2>2 DEF VersionInv, JobInv, Jobs
  <2>7. DoneIsShown'
    BY <2>1 DEF VersionInv, DoneIsShown, TypeOK
  <2> QED
    BY <2>3, <2>4, <2>5, <2>6, <2>7 DEF VersionInv
<1>2. ASSUME NEW c \in Calls, Again(c) PROVE VersionInv'
  <2>1. /\ latest' = [latest EXCEPT ![KeyOf(c)] = VersionOf(c)]
        /\ state' = [state EXCEPT ![c] = "waiting"] /\ state[c] = "again"
        /\ stale' = IF VersionOf(c) < issued[KeyOf(c)] THEN stale \cup {KeyOf(c)} ELSE stale
        /\ UNCHANGED <<worker, job, shown, issued>>
    BY <1>2 DEF Again, Enqueue, workerVars
  <2>2. stale \subseteq stale' /\ (KeyOf(c) \notin stale' => VersionOf(c) = issued[KeyOf(c)])
    BY <1>0, <2>1 DEF VersionInv
  <2>3. \A d \in Calls : state'[d] # "new" => VersionOf(d) <= issued'[KeyOf(d)]
    BY <1>0, <2>1 DEF TypeOK, VersionInv
  <2>4. \A k \in Keys \ stale' : latest'[k] # 0 => latest'[k] = issued'[k]
    BY <1>0, <2>1, <2>2 DEF VersionInv, TypeOK
  <2>5. DoneIsShown'
    BY <2>1, <2>2 DEF VersionInv, DoneIsShown, TypeOK
  <2>6. \A k \in Keys : shown'[k] <= issued'[k] /\ latest'[k] <= issued'[k]
    BY <1>0, <2>1 DEF VersionInv, TypeOK
  <2> QED
    BY <2>1, <2>2, <2>3, <2>4, <2>5, <2>6 DEF VersionInv
<1>3. ASSUME NEW c \in Calls, Cancel(c) PROVE VersionInv'
  BY <1>3 DEF Cancel, VersionInv, DoneIsShown, TypeOK, queueVars, workerVars, messageVars
<1>4. CASE Take
  <2> DEFINE k == Head(list)
  <2>1. k \in Keys /\ latest[k] # 0
    BY <1>4, HeadOfList DEF Take, QueueInv, QueueIndexed
  <2>2. /\ latest' = [latest EXCEPT ![k] = 0]
        /\ job' = [call |-> <<k, latest[k]>>, for |-> futures[k]]
        /\ UNCHANGED <<state, issued, shown, stale>>
    BY <1>4 DEF Take, callVars, messageVars
  <2> HIDE DEF k
  <2>3. KeyOf(job'.call) = k /\ VersionOf(job'.call) = latest[k] /\ job'.for = futures[k]
    BY <2>2 DEF KeyOf, VersionOf
  <2>4. \A d \in futures[k] : d \in Calls /\ KeyOf(d) = k /\ VersionOf(d) <= issued[k]
    BY <2>1 DEF TypeOK, QueueInv, HeldInv, VersionInv
  <2>5. latest[k] <= issued[k]
    BY <2>1 DEF VersionInv
  <2>6. k \notin stale => latest[k] = issued[k]
    BY <2>1 DEF VersionInv
  <2>7. k \notin stale => shown[k] <= latest[k] /\ \A d \in futures[k] : VersionOf(d) <= latest[k]
    BY <2>1, <2>4, <2>6 DEF VersionInv
  <2>8. \A q \in Keys \ stale' : latest'[q] # 0 => latest'[q] = issued'[q]
    BY <2>1, <2>2 DEF VersionInv, TypeOK
  <2>9. \A q \in Keys : latest'[q] <= issued[q]
    BY <1>0, <2>1, <2>2 DEF VersionInv, TypeOK
  <2> QED
    BY <2>2, <2>3, <2>5, <2>7, <2>8, <2>9 DEF VersionInv, DoneIsShown
<1>5. CASE Resume
  BY <1>5 DEF Resume, VersionInv, DoneIsShown, queueVars, callVars, messageVars
<1> DEFINE v == VersionOf(job.call)
           q == KeyOf(job.call)
           moved == [shown EXCEPT ![q] = v]
<1>6. ASSUME worker = "calling"
      PROVE  /\ q \in Keys /\ v \in Nat /\ v <= issued[q]
             /\ \A k \in Keys : moved[k] <= issued[k]
             /\ \A k \in Keys \ stale : shown[k] <= moved[k]
             /\ \A c \in Waiting : KeyOf(c) = q /\ (q \notin stale => VersionOf(c) <= moved[q])
  <2>1. q \in Keys /\ v \in Nat
    BY <1>0, <1>6 DEF JobInv, Jobs
  <2>2. /\ v <= issued[q]
        /\ q \notin stale => shown[q] <= v /\ \A c \in job.for : VersionOf(c) <= v
    BY <1>6 DEF VersionInv
  <2>3. \A c \in job.for : KeyOf(c) = q
    BY DEF JobInv
  <2> HIDE DEF v, q
  <2>4. \A k \in Keys : moved[k] = IF k = q THEN v ELSE shown[k]
    BY DEF TypeOK
  <2> HIDE DEF moved
  <2> QED
    BY <1>0, <2>1, <2>2, <2>3, <2>4 DEF VersionInv, Waiting
<1>7. CASE Succeed
  <2>1. /\ worker = "calling" /\ worker' = "idle" /\ shown' = moved
        /\ \A c \in Calls : state'[c] = IF c \in Waiting THEN "done" ELSE state[c]
        /\ UNCHANGED <<latest, issued, stale>>
    BY <1>7 DEF Succeed, Finished, queueVars
  <2> HIDE DEF moved, q, v
  <2>2. \A c \in Calls : c \in Waiting => state[c] # "new"
    BY DEF Waiting
  <2>3. ASSUME NEW c \in Calls, state'[c] = "done", KeyOf(c) \notin stale
        PROVE  moved[KeyOf(c)] >= VersionOf(c)
    <3>1. CASE c \in Waiting
      BY <1>0, <1>6, <2>1, <2>3, <3>1
    <3>2. CASE c \notin Waiting
      <4>1. shown[KeyOf(c)] >= VersionOf(c) /\ shown[KeyOf(c)] <= moved[KeyOf(c)]
        BY <1>0, <1>6, <2>1, <2>3, <3>2 DEF VersionInv, DoneIsShown
      <4>2. moved[KeyOf(c)] \in Nat
        BY <1>0, <2>1, BoundsAssumption DEF TypeOK
      <4> QED
        BY <1>0, <4>1, <4>2
    <3> QED
      BY <3>1, <3>2
  <2> QED
    BY <1>6, <2>1, <2>2, <2>3 DEF VersionInv, DoneIsShown
<1>8. CASE Fail
  <2>1. /\ worker = "calling" /\ worker' = "idle" /\ shown' \in {shown, moved}
        /\ UNCHANGED <<latest, issued, stale>>
    BY <1>8 DEF Fail, Finished, queueVars
  <2>2. PICK transient \in BOOLEAN :
          \A c \in Calls : state'[c] = IF c \in Retrying(transient) THEN "again"
                                       ELSE IF c \in Waiting THEN "failed" ELSE state[c]
    BY <1>8 DEF Fail
  <2> HIDE DEF moved, q, v
  <2>3. \A c \in Calls : c \in Waiting => state[c] # "new"
    BY DEF Waiting
  <2>4. \A c \in Calls : c \in Retrying(transient) => c \in Waiting
    BY DEF Retrying
  <2>5. ASSUME NEW c \in Calls, state'[c] = "done", KeyOf(c) \notin stale
        PROVE  shown'[KeyOf(c)] >= VersionOf(c)
    <3>1. state[c] = "done"
      BY <2>2, <2>5
    <3>2. shown[KeyOf(c)] >= VersionOf(c) /\ shown[KeyOf(c)] <= shown'[KeyOf(c)]
      BY <1>0, <1>6, <2>1, <2>5, <3>1 DEF VersionInv, DoneIsShown
    <3>3. shown'[KeyOf(c)] \in Nat
      BY <1>0, BoundsAssumption DEF TypeOK
    <3> QED
      BY <1>0, <3>2, <3>3
  <2> QED
    BY <1>6, <2>1, <2>2, <2>3, <2>4, <2>5 DEF VersionInv, DoneIsShown
<1>9. CASE Shutdown
  BY <1>9 DEF Shutdown, VersionInv, DoneIsShown, queueVars, callVars, messageVars
<1>10. CASE Tick
  BY <1>10 DEF Tick, VersionInv, DoneIsShown, queueVars, messageVars
<1>11. CASE UNCHANGED vars
  BY <1>11 DEF vars, VersionInv, DoneIsShown, queueVars, workerVars, callVars, messageVars
<1> QED
  BY <1>1, <1>2, <1>3, <1>4, <1>5, <1>7, <1>8, <1>9, <1>10, <1>11 DEF Next, Work

-----------------------------------------------------------------------------
(* Pauses, and the theorems.                                               *)

LEMMA PauseStep ==
    ASSUME TypeOK, PauseInv, [Next]_vars
    PROVE  PauseInv' /\ (worker # "calling" /\ worker' = "calling" => paused = 0)
<1>0. paused \in Nat /\ rest \in Nat
  BY DEF TypeOK
<1>1. CASE Take
  <2>1. CASE paused > 0
    BY <1>0, <1>1, <2>1 DEF Take, PauseInv
  <2>2. CASE ~(paused > 0)
    BY <1>0, <1>1, <2>2, AcquireType DEF Take, PauseInv
  <2> QED BY <2>1, <2>2
<1>2. CASE Resume
  <2>1. paused = 0
    BY <1>0, <1>2 DEF Resume, PauseInv
  <2> QED
    BY <1>2, <2>1, AcquireType DEF Resume, PauseInv
<1>3. CASE Tick
  BY <1>0, <1>3 DEF Tick, Left, PauseInv
<1>4. CASE worker' \in {"idle", "stopped"}
  BY <1>4 DEF PauseInv
<1>5. CASE UNCHANGED <<worker, rest, paused>>
  BY <1>5 DEF PauseInv
<1> QED
  BY <1>1, <1>2, <1>3, <1>4, <1>5
  DEF Next, Work, Succeed, Fail, Finished, Shutdown, Issue, Again, Cancel, vars, workerVars

Inv == TypeOK /\ QueueInv /\ JobInv /\ HeldInv /\ VersionInv /\ PauseInv

LEMMA Inductive == Spec => []Inv
<1>1. Init => Inv
  <2> SUFFICES ASSUME Init PROVE Inv
    OBVIOUS
  <2>1. TypeOK
    BY EmptySeq, BoundsAssumption DEF Init, TypeOK, States
  <2>2. QueueInv
    <3>1. Len(list) = 0
      BY EmptySeq DEF Init
    <3> QED BY <3>1 DEF Init, QueueInv, QueueIndexed
  <2>3. JobInv /\ PauseInv
    BY DEF Init, JobInv, PauseInv, Idle
  <2>4. HeldInv
    BY CallTypes DEF Init, HeldInv, Idle
  <2>5. VersionInv
    BY DEF Init, VersionInv, DoneIsShown
  <2> QED
    BY <2>1, <2>2, <2>3, <2>4, <2>5 DEF Inv
<1>2. Inv /\ [Next]_vars => Inv'
  <2> SUFFICES ASSUME Inv, [Next]_vars PROVE Inv'
    OBVIOUS
  <2>1. TypeOK'
    BY TypeStep DEF Inv
  <2>2. QueueInv' /\ JobInv' /\ HeldInv' /\ PauseInv'
    BY QueueStep, JobStep, HeldStep, PauseStep DEF Inv
  <2>3. VersionInv'
    BY <2>1, VersionStep DEF Inv
  <2> QED
    BY <2>1, <2>2, <2>3 DEF Inv
<1> QED
  BY <1>1, <1>2, PTL DEF Spec

\* The variables of the limiter keep their types.
THEOREM TypeCorrect == Spec => []TypeOK
<1>1. Inv => TypeOK
  BY DEF Inv
<1> QED
  BY <1>1, Inductive, PTL

\* Queue and map agree, however often a key is enqueued while it is being performed.
THEOREM QueueIndexedHolds == Spec => []QueueIndexed
<1>1. Inv => QueueIndexed
  BY DEF Inv, QueueInv
<1> QED
  BY <1>1, Inductive, PTL

\* No future that is waited for is lost, merged away or held twice.
THEOREM FuturesHeldHolds == Spec => []FuturesHeld
<1>1. Inv => FuturesHeld
  BY DEF Inv, HeldInv, FuturesHeld
<1> QED
  BY <1>1, Inductive, PTL

\* Where no old update was enqueued again, success means that one's update or a newer
\* one is shown.
THEOREM DoneIsShownHolds == Spec => []DoneIsShown
<1>1. Inv => DoneIsShown
  BY DEF Inv, VersionInv
<1> QED
  BY <1>1, Inductive, PTL

\* The worker never calls during a pause.
THEOREM PauseRespectedHolds == Spec => PauseRespected
<1>1. Inv /\ [Next]_vars => [worker # "calling" /\ worker' = "calling" => paused = 0]_vars
  BY PauseStep DEF Inv
<1> QED
  BY <1>1, Inductive, PTL DEF Spec, PauseRespected

\* The worker that looks at the deque grants itself a call or stutters.
LEMMA AcquireGrants ==
    ASSUME Layered(times), Acquire
    PROVE  Layered(times)' /\ (Rolling!Grant \/ UNCHANGED Fresh(times))
<1> PICK k \in 0..Len(times) :
        /\ PopsOff(times, k)
        /\ IF Len(Kept(times, k)) < Limit
             THEN /\ times' = Append(Kept(times, k), 0)
                  /\ worker' = "calling" /\ rest' = 0
             ELSE /\ times' = Kept(times, k)
                  /\ worker' = "pacing" /\ rest' = TimeToRoom(times')
  BY DEF Acquire
<1>1. /\ Kept(times, k) = Fresh(times)
      /\ Fresh(Kept(times, k)) = Fresh(times)
      /\ Fresh(Append(Kept(times, k), 0)) = Append(Fresh(times), 0)
  BY PopsToFresh, FreshGrant
<1>2. Layered(Kept(times, k)) /\ Layered(Append(Kept(times, k), 0))
  BY LayeredSuffix, LayeredGrant
<1>3. CASE Len(Kept(times, k)) < Limit
  <2>1. times' = Append(Kept(times, k), 0)
    BY <1>3
  <2>2. Fresh(times') = Append(Fresh(times), 0) /\ Len(Fresh(times)) < Limit
    BY <1>1, <1>3, <2>1
  <2> QED
    BY <1>2, <2>1, <2>2 DEF Rolling!Grant
<1>4. CASE ~(Len(Kept(times, k)) < Limit)
  <2>1. times' = Kept(times, k)
    BY <1>4
  <2> QED
    BY <1>1, <1>2, <2>1
<1> QED
  BY <1>3, <1>4

\* The calls of the worker are those that a strict rolling window grants.
THEOREM ImplementsRollingWindowHolds == Spec => ImplementsRollingWindow
<1>1. Init => Layered(times) /\ Rolling!Init
  <2> SUFFICES ASSUME times = <<>> PROVE Layered(times) /\ Fresh(times) = <<>>
    BY DEF Init, Rolling!Init
  <2> QED
    BY LayeredEmpty
<1>2. Layered(times) /\ [Next]_vars => Layered(times)' /\ [Rolling!Next]_(Fresh(times))
  <2> SUFFICES ASSUME Layered(times), [Next]_vars
               PROVE  Layered(times)' /\ [Rolling!Next]_(Fresh(times))
    OBVIOUS
  <2>1. CASE Tick
    <3>1. times' = Aged(times)
      BY <2>1 DEF Tick
    <3>2. Rolling!Tick
      BY <3>1, FreshAged DEF Rolling!Tick
    <3> QED
      BY <3>1, <3>2, LayeredAged DEF Rolling!Next
  <2>2. CASE Acquire
    BY <2>2, AcquireGrants DEF Rolling!Next
  <2>3. CASE UNCHANGED times
    BY <2>3
  <2> QED
    BY <2>1, <2>2, <2>3
    DEF Next, Work, Take, Resume, Succeed, Fail, Finished, Shutdown, Issue, Again, Cancel,
        vars, workerVars
<1> QED
  BY <1>1, <1>2, PTL DEF Spec, ImplementsRollingWindow, Rolling!Spec
=============================================================================
