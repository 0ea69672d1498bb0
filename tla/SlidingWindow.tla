---------------------------- MODULE SlidingWindow ----------------------------
(***************************************************************************)
(* The deque of timestamps that both rate limiters keep, and the rule they *)
(* grant by.  The two classes hold the same code, GlobalRateLimiter's      *)
(* _acquire_proactive_slot and SlidingWindowLimiter.acquire: drop what is  *)
(* too old, then grant if the deque is short enough, else say when to try  *)
(* again.  asyncio.Lock guards that code and nothing suspends inside, so   *)
(* it is one step and nobody ever waits for the lock.                      *)
(*                                                                         *)
(* Time is relative.  The code only compares differences to the monotonic  *)
(* clock, so a timestamp is represented by its age in ticks; an age of     *)
(* Window or more is as good as any other such age.                        *)
(***************************************************************************)
EXTENDS Integers, Sequences

CONSTANTS
    Limit,      \* grants allowed in a window ...
    Window      \* ... and its length in ticks

ASSUME WindowAssumption == Limit \in Nat \ {0} /\ Window \in Nat \ {0}

Ages == 0..Window

\* The deque after one tick.
Aged(ages) == [i \in 1..Len(ages) |-> IF ages[i] < Window THEN ages[i] + 1 ELSE Window]

\* Mutant: entries leave one tick early.
MutantPopsOff(ages, k) ==
    /\ \A i \in 1..k : ages[i] >= Window - 1
    /\ k < Len(ages) => ages[k + 1] < Window - 1

\* k entries leave the deque: popleft() while the first is stale.
PopsOff(ages, k) ==
    /\ \A i \in 1..k : ages[i] >= Window
    /\ k < Len(ages) => ages[k + 1] < Window

\* What is left of the deque.
Kept(ages, k) == SubSeq(ages, k + 1, Len(ages))

\* How long one who finds the deque full sleeps: until its first entry leaves.
TimeToRoom(kept) == Window - kept[1]

\* The entries that count, whether or not the stale ones before them are still there.
Fresh(ages) ==
    LET stale == CHOOSE k \in 0..Len(ages) :
                    \A i \in 1..Len(ages) : i <= k <=> ages[i] >= Window
    IN  SubSeq(ages, stale + 1, Len(ages))
=============================================================================
