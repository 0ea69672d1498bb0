--------------------------- MODULE ProviderLimiter ---------------------------
(***************************************************************************)
(* The limiter that all requests to one provider share: how many streams   *)
(* may be open, how many calls may be made in a rolling window, and how    *)
(* long nobody calls after an answer 429; with the requests that use it.   *)
(*                                                                         *)
(* Sources: providers/rate_limit.py, and its use by the two transports     *)
(* providers/openai_compat.py and providers/anthropic_messages.py and by   *)
(* providers/error_mapping.py.                                             *)
(*                                                                         *)
(* Granularity.  One event loop: a stretch between two awaits that can     *)
(* suspend is one action.  wait_if_blocked suspends only to sleep, so a    *)
(* granted slot and the call it is for are one step.                       *)
(*                                                                         *)
(* Time is relative, as in SlidingWindow: a deadline is represented by the *)
(* ticks left until then.  A sleep ends at its time or, when the loop is   *)
(* busy, later.                                                            *)
(***************************************************************************)
EXTENDS SlidingWindow, FiniteSets, SequencesExt

CONSTANTS
    Requests,       \* streaming requests
    Transports,     \* kinds of transport to consider: "openai", "native"
    MaxConcurrency, \* streams open at the same time
    MaxRetries,     \* retries of execute_with_retry
    BaseDelay,      \* its backoff before the first retry,
    MaxDelay,       \*   the longest, without the jitter,
    Jitter,         \*   and the most the jitter adds
    Penalty         \* how long map_error blocks after a 429

ASSUME RequestsAssumption == IsFiniteSet(Requests)
ASSUME TransportsAssumption == Transports \subseteq {"openai", "native"}
ASSUME CapAssumption == MaxConcurrency \in Nat \ {0}
ASSUME RetryAssumption ==
    /\ MaxRetries \in Nat /\ BaseDelay \in Nat /\ MaxDelay \in Nat
    /\ Jitter \in Nat /\ Penalty \in Nat
\* A fact of arithmetic that the provers do not know.
ASSUME PowersAssumption == \A n \in 0..MaxRetries : 2^n \in Nat

VARIABLES
    transport,      \* the transport of the provider
    times,          \* _request_times, as ages
    blocked,        \* _blocked_until, as remaining_wait()
    free,           \* value of _concurrency_sem ...
    waiters,        \* ... those that wait for it, first come first served ...
    handed,         \* ... and those that were given a slot and have not run since
    pc,             \* where each request is
    sleep,          \* ticks left of its sleep
    attempt,        \* the attempt execute_with_retry is making
    altered,        \* the body was changed for the one retry after a 400
    slipped         \* history: who called in spite of the block in force

limiterVars == <<times, blocked>>
semVars == <<free, waiters, handed>>
requestVars == <<sleep, attempt, altered>>
vars == <<transport, limiterVars, semVars, pc, requestVars, slipped>>

\* new; queued: waiting for a stream slot; blocked, pacing, backoff: asleep for a
\* block, for the window, after a 429; calling: request sent upstream; streaming:
\* relaying the answer; reporting: yielding the events of an error; done.
Asleep == {"blocked", "pacing", "backoff"}
InSlot == Asleep \cup {"calling", "streaming", "reporting"}
Phases == InSlot \cup {"new", "queued", "done"}

\* Requests inside `async with concurrency_slot()`.
Open == {r \in Requests : pc[r] \in InSlot}

TypeOK ==
    /\ transport \in Transports
    /\ times \in Seq(Ages)
    /\ blocked \in Nat
    /\ free \in 0..MaxConcurrency
    /\ waiters \in Seq(Requests)
    /\ handed \subseteq Requests
    /\ pc \in [Requests -> Phases]
    /\ sleep \in [Requests -> Nat]
    /\ attempt \in [Requests -> 0..MaxRetries]
    /\ altered \in [Requests -> BOOLEAN]
    /\ slipped \subseteq Requests

Init ==
    /\ transport \in Transports
    /\ times = <<>> /\ blocked = 0
    /\ free = MaxConcurrency /\ waiters = <<>> /\ handed = {}
    /\ pc = [r \in Requests |-> "new"]
    /\ sleep = [r \in Requests |-> 0]
    /\ attempt = [r \in Requests |-> 0]
    /\ altered = [r \in Requests |-> FALSE]
    /\ slipped = {}

-----------------------------------------------------------------------------
(* The semaphore of asyncio.                                               *)

\* Slots f are free, ws wait and hs were handed one: the first k waiters get one.
HandOut(f, ws, hs, k) ==
    /\ free' = f - k
    /\ waiters' = SubSeq(ws, k + 1, Len(ws))
    /\ handed' = hs \cup {ws[i] : i \in 1..k}

\* release() wakes one waiter.
ReleaseSlot == HandOut(free + 1, waiters, handed, IF waiters = <<>> THEN 0 ELSE 1)

\* acquire(), whichever way it ends after a wait, wakes as many as there are slots:
\* newcomers queue behind one that was handed a slot even when others are free.
WakeAll(f, ws, hs) == HandOut(f, ws, hs, IF f < Len(ws) THEN f ELSE Len(ws))

-----------------------------------------------------------------------------
(* Waiting for one's turn to call.                                         *)

\* Request r goes to sleep for d ticks.
Sleep(r, phase, d) ==
    /\ pc' = [pc EXCEPT ![r] = phase]
    /\ sleep' = [sleep EXCEPT ![r] = d]

\* The window has room: r takes a place in it and calls upstream.
Call(r) ==
    /\ pc' = [pc EXCEPT ![r] = "calling"]
    /\ slipped' = IF blocked > 0 THEN slipped \cup {r} ELSE slipped
    /\ UNCHANGED sleep

\* _acquire_proactive_slot: one turn of its loop.
Acquire(r) ==
    \E k \in 0..Len(times) :
        /\ PopsOff(times, k)
        /\ IF Len(Kept(times, k)) < Limit
             THEN times' = Append(Kept(times, k), 0) /\ Call(r)
             ELSE /\ times' = Kept(times, k)
                  /\ Sleep(r, "pacing", TimeToRoom(times'))
                  /\ UNCHANGED slipped

\* Mutant: only the window is waited for.
MutantWaitIfBlocked(r) == Acquire(r)

\* wait_if_blocked, and the call if nothing is in its way.
WaitIfBlocked(r) ==
    IF blocked > 0
      THEN Sleep(r, "blocked", blocked) /\ UNCHANGED <<times, slipped>>
      ELSE Acquire(r)

\* A request arrives: it takes a stream slot, or queues behind those that wait.
Arrive(r) ==
    /\ pc[r] = "new"
    /\ IF free > 0 /\ waiters = <<>> /\ handed = {}
         THEN /\ free' = free - 1
              /\ WaitIfBlocked(r)
              /\ UNCHANGED waiters
         ELSE /\ waiters' = Append(waiters, r)
              /\ pc' = [pc EXCEPT ![r] = "queued"]
              /\ UNCHANGED <<free, sleep, times, slipped>>
    /\ UNCHANGED <<transport, blocked, handed, attempt, altered>>

\* One that was handed a slot goes on into its first attempt.
Enter(r) ==
    /\ r \in handed
    /\ WakeAll(free, waiters, handed \ {r})
    /\ WaitIfBlocked(r)
    /\ UNCHANGED <<transport, blocked, attempt, altered>>

\* One that slept off its backoff makes its next attempt.
Retry(r) ==
    /\ pc[r] = "backoff" /\ sleep[r] = 0
    /\ WaitIfBlocked(r)
    /\ UNCHANGED <<transport, blocked, semVars, attempt, altered>>

\* One that slept off a block or a full window: the block is not looked at again.
WakeUp(r) ==
    /\ pc[r] \in {"blocked", "pacing"} /\ sleep[r] = 0
    /\ Acquire(r)
    /\ UNCHANGED <<transport, blocked, semVars, attempt, altered>>

-----------------------------------------------------------------------------
(* The answers of the provider.                                            *)

Goto(r, phase) == pc' = [pc EXCEPT ![r] = phase]

\* Request r is over, and its coroutines with it.
End(r) ==
    /\ Goto(r, "done")
    /\ sleep' = [sleep EXCEPT ![r] = 0]
    /\ attempt' = [attempt EXCEPT ![r] = 0]
    /\ altered' = [altered EXCEPT ![r] = FALSE]

\* set_blocked replaces the deadline, by an earlier one too.
SetBlocked(d) ==
    /\ blocked' = d
    /\ slipped' = {}

\* Exponential backoff, without the jitter.
Backoff(n) == IF BaseDelay * 2^n < MaxDelay THEN BaseDelay * 2^n ELSE MaxDelay

\* Mutant: the attempts are not counted.
MutantBackOff(r) ==
    /\ pc[r] = "calling" /\ transport = "openai" /\ attempt[r] < MaxRetries
    /\ SetBlocked(Backoff(attempt[r])) /\ Sleep(r, "backoff", Backoff(attempt[r]))
    /\ UNCHANGED <<transport, times, semVars, attempt, altered>>

\* openai.RateLimitError with attempts left: block everyone, sleep as long.
BackOff(r) ==
    /\ pc[r] = "calling" /\ transport = "openai" /\ attempt[r] < MaxRetries
    /\ \E j \in 0..Jitter :
        LET delay == Backoff(attempt[r]) + j
        IN  SetBlocked(delay) /\ Sleep(r, "backoff", delay)
    /\ attempt' = [attempt EXCEPT ![r] = @ + 1]
    /\ UNCHANGED <<transport, times, semVars, altered>>

\* A 429 that is not retried, the last one or any of the native transport:
\* map_error blocks everyone.
RateLimited(r) ==
    /\ pc[r] = "calling"
    /\ transport = "openai" => attempt[r] = MaxRetries
    /\ SetBlocked(Penalty)
    /\ Goto(r, "reporting")
    /\ UNCHANGED <<transport, times, semVars, requestVars>>

\* A 400 for which _get_retry_request_body knows a smaller body: execute_with_retry
\* starts again, once.
RetryAltered(r) ==
    /\ pc[r] = "calling" /\ transport = "openai" /\ ~altered[r]
    /\ altered' = [altered EXCEPT ![r] = TRUE]
    /\ attempt' = [attempt EXCEPT ![r] = 0]
    /\ WaitIfBlocked(r)
    /\ UNCHANGED <<transport, blocked, semVars>>

\* Any other error, of the call or in mid-stream.
Fail(r) ==
    /\ pc[r] \in {"calling", "streaming"}
    /\ Goto(r, "reporting")
    /\ UNCHANGED <<transport, limiterVars, semVars, requestVars, slipped>>

Answer(r) ==
    /\ pc[r] = "calling"
    /\ Goto(r, "streaming")
    /\ UNCHANGED <<transport, limiterVars, semVars, requestVars, slipped>>

\* Mutant: an error is reported without giving the slot back.
MutantFinish(r) ==
    /\ pc[r] \in {"streaming", "reporting"}
    /\ End(r)
    /\ IF pc[r] = "streaming" THEN ReleaseSlot ELSE UNCHANGED semVars
    /\ UNCHANGED <<transport, limiterVars, slipped>>

\* The stream or the report of the error ends, and with it the slot.
Finish(r) ==
    /\ pc[r] \in {"streaming", "reporting"}
    /\ End(r)
    /\ ReleaseSlot
    /\ UNCHANGED <<transport, limiterVars, slipped>>

\* The client goes away: the request is cancelled at whatever await it is.
Disconnect(r) ==
    /\ \/ pc[r] \in InSlot /\ ReleaseSlot
       \/ r \in handed /\ WakeAll(free + 1, waiters, handed \ {r})
       \/ \E i \in 1..Len(waiters) :
            waiters[i] = r /\ WakeAll(free, RemoveAt(waiters, i), handed)
    /\ End(r)
    /\ UNCHANGED <<transport, limiterVars, slipped>>

\* Time passes.
Left(d) == IF d > 0 THEN d - 1 ELSE 0

Tick ==
    /\ times' = Aged(times)
    /\ blocked' = Left(blocked)
    /\ sleep' = [r \in Requests |-> Left(sleep[r])]
    /\ slipped' = IF blocked' > 0 THEN slipped ELSE {}
    /\ UNCHANGED <<transport, semVars, pc, attempt, altered>>

Progress(r) ==
    \/ Arrive(r) \/ Enter(r) \/ Retry(r) \/ WakeUp(r)
    \/ BackOff(r) \/ RateLimited(r) \/ RetryAltered(r) \/ Fail(r) \/ Answer(r)
    \/ Finish(r)

Next == Tick \/ \E r \in Requests : Progress(r) \/ Disconnect(r)

Spec == Init /\ [][Next]_vars

\* Every request goes on: the loop runs what is ready, the clock advances, and the
\* provider answers, ends its stream or runs into the read timeout of the client.
FairSpec == Spec /\ WF_vars(Tick) /\ \A r \in Requests : WF_vars(Progress(r))

-----------------------------------------------------------------------------
(* Properties.                                                             *)

\* Every stream slot is free, handed over or held by an open request: no error, no
\* cancellation before, during or after the wait for the semaphore loses one or
\* frees one twice, so at most MaxConcurrency streams are open.
SlotsConserved ==
    free + Cardinality(handed) + Cardinality(Open) = MaxConcurrency

\* The calls that are made although a 429 has blocked the provider are few: only
\* requests that had passed the check before the block are not held up by it, each
\* for one call, so fewer than there are stream slots.
FewSlipThrough == Cardinality(slipped) < MaxConcurrency

\* The calls upstream respect the rolling window: a deque from which stale entries
\* are dropped only when somebody looks at it grants what the exact list of recent
\* calls allows, and nothing else.
Rolling == INSTANCE RollingWindow WITH recent <- Fresh(times)
ImplementsRollingWindow == Rolling!Spec

\* Every request gets its turn and ends, however full the window, whoever blocks
\* and disconnects.
EveryRequestEnds == \A r \in Requests : pc[r] # "new" ~> pc[r] = "done"
=============================================================================
