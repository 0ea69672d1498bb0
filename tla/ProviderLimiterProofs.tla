------------------------ MODULE ProviderLimiterProofs ------------------------
(***************************************************************************)
(* Proofs about the limiter of a provider, for any number of requests and  *)
(* any limits and delays: its stream slots are conserved, few calls slip   *)
(* past a block, and its deque implements the exact rolling window.        *)
(***************************************************************************)
EXTENDS ProviderLimiter, SlidingWindowProofs, FiniteSetTheorems

\* Those in line for a slot, with one handed over or still waiting, are in line once.
InLine(ws, hs) ==
    /\ ws \in Seq(Requests)
    /\ hs \subseteq Requests
    /\ \A i, j \in 1..Len(ws) : ws[i] = ws[j] => i = j
    /\ \A i \in 1..Len(ws) : ws[i] \notin hs

\* Who is in line is queued, and slots are conserved.
SlotInv ==
    /\ TypeOK
    /\ InLine(waiters, handed)
    /\ \A i \in 1..Len(waiters) : pc[waiters[i]] = "queued"
    /\ \A r \in handed : pc[r] = "queued"
    /\ SlotsConserved

-----------------------------------------------------------------------------
(* The semaphore.                                                          *)

\* Sets of requests are finite.
LEMMA Finite == \A S \in SUBSET Requests : IsFiniteSet(S) /\ Cardinality(S) \in Nat
BY RequestsAssumption, FS_Subset, FS_CardinalityType

\* The first k in line are k requests.
LEMMA FirstCount ==
    ASSUME NEW ws \in Seq(Requests), NEW k \in 0..Len(ws),
           \A i, j \in 1..Len(ws) : ws[i] = ws[j] => i = j
    PROVE  Cardinality({ws[i] : i \in 1..k}) = k
<1> DEFINE T == {ws[i] : i \in 1..k}
           f == [i \in 1..k |-> ws[i]]
<1>1. f \in Bijection(1..k, T)
  <2>1. Len(ws) \in Nat /\ 1..k \subseteq 1..Len(ws)
    BY LenProperties
  <2>2. f \in [1..k -> T] /\ \A t \in T : \E i \in 1..k : f[i] = t
    OBVIOUS
  <2>3. IsInjective(f)
    BY <2>1 DEF IsInjective
  <2> QED
    BY <2>2, <2>3 DEF Bijection, Injection, Surjection
<1>2. ExistsBijection(1..k, T)
  BY <1>1 DEF ExistsBijection
<1>3. k \in Nat
  BY LenProperties
<1> QED
  BY <1>2, <1>3, FS_CountingElements

\* Handing out slots moves them from the free ones to those in line.
LEMMA HandOutKeeps ==
    ASSUME NEW f \in Nat, NEW ws, NEW hs, NEW k \in 0..Len(ws), InLine(ws, hs), k <= f,
           HandOut(f, ws, hs, k)
    PROVE  /\ free' \in Nat
           /\ InLine(waiters', handed')
           /\ free' + Cardinality(handed') = f + Cardinality(hs)
           /\ \A i \in 1..Len(waiters') : \E j \in 1..Len(ws) : waiters'[i] = ws[j]
           /\ \A r \in handed' : r \in hs \/ \E j \in 1..Len(ws) : r = ws[j]
<1> DEFINE T == {ws[i] : i \in 1..k}
<1>1. Len(ws) \in Nat /\ \A i \in 1..Len(ws) : ws[i] \in Requests
  BY LenProperties, ElementOfSeq DEF InLine
<1>2. /\ waiters' \in Seq(Requests)
      /\ Len(waiters') = Len(ws) - k
      /\ \A i \in 1..Len(waiters') : waiters'[i] = ws[k + i]
  BY <1>1, SubSeqProperties DEF HandOut
<1>3. T \subseteq Requests /\ handed' = hs \cup T /\ T \cap hs = {}
  BY <1>1 DEF HandOut, InLine
<1>4. Cardinality(handed') = Cardinality(hs) + k
  <2>1. Cardinality(T) = k
    BY FirstCount DEF InLine
  <2>2. IsFiniteSet(hs) /\ IsFiniteSet(T) /\ Cardinality(hs) \in Nat
    BY <1>3, Finite DEF InLine
  <2>3. Cardinality(hs \cup T) = Cardinality(hs) + Cardinality(T) - Cardinality(hs \cap T)
    <3> HIDE DEF T
    <3> QED BY <2>2, FS_Union
  <2>4. Cardinality(hs \cap T) = 0
    <3> HIDE DEF T
    <3>1. hs \cap T = {}
      BY <1>3
    <3> QED BY <3>1, FS_EmptySet
  <2> HIDE DEF T
  <2> QED
    BY <1>1, <1>3, <2>1, <2>2, <2>3, <2>4
<1>5. free' = f - k
  BY DEF HandOut
<1>6. \A i \in 1..Len(waiters') : k + i \in 1..Len(ws) /\ k + i \notin 1..k
  BY <1>1, <1>2
<1>7. \A i \in 1..Len(waiters') : ws[k + i] \notin T
  BY <1>1, <1>6 DEF InLine
<1>8. InLine(waiters', handed')
  <2>1. \A i, j \in 1..Len(waiters') : waiters'[i] = waiters'[j] => i = j
    <3> SUFFICES ASSUME NEW i \in 1..Len(waiters'), NEW j \in 1..Len(waiters'),
                        ws[k + i] = ws[k + j]
                 PROVE  i = j
      BY <1>2
    <3>1. k + i = k + j
      BY <1>6 DEF InLine
    <3> QED BY <1>1, <1>2, <3>1
  <2>2. \A i \in 1..Len(waiters') : waiters'[i] \notin handed'
    <3> HIDE DEF T
    <3> QED BY <1>2, <1>3, <1>6, <1>7 DEF InLine
  <2>3. handed' \subseteq Requests
    <3> HIDE DEF T
    <3> QED BY <1>3 DEF InLine
  <2> QED
    BY <1>2, <2>1, <2>2, <2>3 DEF InLine
<1>9. free' \in Nat /\ free' + Cardinality(handed') = f + Cardinality(hs)
  <2>1. Cardinality(hs) \in Nat
    BY Finite DEF InLine
  <2> QED BY <1>1, <1>4, <1>5, <2>1
<1>10. \A r \in handed' : r \in hs \/ \E j \in 1..Len(ws) : r = ws[j]
  BY <1>1, <1>3
<1> QED
  BY <1>2, <1>6, <1>8, <1>9, <1>10

-----------------------------------------------------------------------------
(* Waiting for one's turn to call.                                         *)

\* What waiting for the window does to a request, and to the deque.
LEMMA AcquireType ==
    ASSUME TypeOK, NEW r \in Requests, Acquire(r)
    PROVE  /\ \E p \in {"pacing", "calling"} : pc' = [pc EXCEPT ![r] = p]
           /\ times' \in Seq(Ages)
           /\ sleep' \in [Requests -> Nat]
           /\ slipped' \in {slipped, slipped \cup {r}}
<1> PICK k \in 0..Len(times) :
        /\ PopsOff(times, k)
        /\ IF Len(Kept(times, k)) < Limit
             THEN times' = Append(Kept(times, k), 0) /\ Call(r)
             ELSE /\ times' = Kept(times, k)
                  /\ Sleep(r, "pacing", TimeToRoom(times'))
                  /\ UNCHANGED slipped
  BY DEF Acquire
<1>1. Kept(times, k) \in Seq(Ages) /\ Len(Kept(times, k)) \in Nat
  BY LenProperties, ElementOfSeq, SubSeqProperties DEF Kept, TypeOK
<1>2. 0 \in Ages
  BY WindowAssumption DEF Ages
<1>3. CASE Len(Kept(times, k)) < Limit
  <2>1. times' \in Seq(Ages)
    BY <1>1, <1>2, <1>3, AppendProperties
  <2> QED
    BY <1>3, <2>1 DEF Call, TypeOK
<1>4. CASE ~(Len(Kept(times, k)) < Limit)
  <2>1. times' \in Seq(Ages) /\ 1 \in 1..Len(times')
    BY <1>1, <1>4, WindowAssumption
  <2>2. TimeToRoom(times') \in Nat
    BY <2>1, ElementOfSeq, WindowAssumption DEF TimeToRoom, Ages
  <2> QED
    BY <1>4, <2>1, <2>2 DEF Sleep, TypeOK
<1> QED
  BY <1>3, <1>4

\* So does wait_if_blocked, which may also put the request to sleep for a block.
LEMMA WaitType ==
    ASSUME TypeOK, NEW r \in Requests, WaitIfBlocked(r)
    PROVE  /\ \E p \in {"blocked", "pacing", "calling"} : pc' = [pc EXCEPT ![r] = p]
           /\ times' \in Seq(Ages)
           /\ sleep' \in [Requests -> Nat]
           /\ slipped' \subseteq Requests
<1>1. CASE blocked > 0
  BY <1>1 DEF WaitIfBlocked, Sleep, TypeOK
<1>2. CASE ~(blocked > 0)
  BY <1>2, AcquireType DEF WaitIfBlocked, TypeOK
<1> QED
  BY <1>1, <1>2

-----------------------------------------------------------------------------
(* Stream slots are conserved.                                             *)

\* The types of what the steps below change besides the semaphore and pc.
RestType ==
    /\ transport \in Transports
    /\ times \in Seq(Ages)
    /\ blocked \in Nat
    /\ sleep \in [Requests -> Nat]
    /\ attempt \in [Requests -> 0..MaxRetries]
    /\ altered \in [Requests -> BOOLEAN]
    /\ slipped \subseteq Requests

\* Those in line have not entered.
Queued ==
    /\ \A i \in 1..Len(waiters) : pc[waiters[i]] = "queued"
    /\ \A r \in handed : pc[r] = "queued"

\* The invariant follows from its parts; the bounds on the free slots from the rest.
LEMMA SlotInvParts ==
    ASSUME RestType', pc' \in [Requests -> Phases], free' \in Nat,
           InLine(waiters', handed'), Queued', SlotsConserved'
    PROVE  SlotInv'
<1>1. Cardinality(handed') \in Nat /\ Cardinality(Open') \in Nat
  BY Finite DEF InLine, Open
<1>2. free' \in 0..MaxConcurrency
  BY <1>1, CapAssumption DEF SlotsConserved
<1> QED
  BY <1>2 DEF SlotInv, RestType, TypeOK, InLine, Queued

\* A request's share of the open ones.
Held(phase) == IF phase \in InSlot THEN 1 ELSE 0

\* When one request changes its phase, the open ones change by it at most.
LEMMA OpenCount ==
    ASSUME pc \in [Requests -> Phases], NEW r \in Requests, NEW p \in Phases,
           pc' = [pc EXCEPT ![r] = p]
    PROVE  /\ pc' \in [Requests -> Phases]
           /\ Cardinality(Open) \in Nat
           /\ Cardinality(Open') = Cardinality(Open) + Held(p) - Held(pc[r])
<1>1. Open' = IF p \in InSlot THEN Open \cup {r} ELSE Open \ {r}
  BY DEF Open
<1>2. IsFiniteSet(Open) /\ Cardinality(Open) \in Nat
  BY Finite DEF Open
<1>3. r \in Open <=> pc[r] \in InSlot
  BY DEF Open
<1>4. pc' \in [Requests -> Phases]
  OBVIOUS
<1>5. Cardinality(Open \cup {r}) =
        IF r \in Open THEN Cardinality(Open) ELSE Cardinality(Open) + 1
  BY <1>2, FS_AddElement
<1>6. Cardinality(Open \ {r}) =
        IF r \in Open THEN Cardinality(Open) - 1 ELSE Cardinality(Open)
  BY <1>2, FS_RemoveElement
<1> HIDE DEF Open, InSlot
<1>7. CASE p \in InSlot
  BY <1>1, <1>2, <1>3, <1>4, <1>5, <1>7 DEF Held
<1>8. CASE p \notin InSlot
  BY <1>1, <1>2, <1>3, <1>4, <1>6, <1>8 DEF Held
<1> QED
  BY <1>7, <1>8

\* A request that holds its slot before and after a step changes nothing else.
LEMMA MoveKeeps ==
    ASSUME SlotInv, NEW r \in Requests, NEW p \in InSlot, pc[r] \in InSlot,
           pc' = [pc EXCEPT ![r] = p], UNCHANGED semVars, RestType'
    PROVE  SlotInv'
<1>1. pc' \in [Requests -> Phases] /\ Cardinality(Open') = Cardinality(Open)
  <2>1. p \in Phases /\ pc \in [Requests -> Phases]
    BY DEF SlotInv, TypeOK, Phases
  <2>2. Cardinality(Open) \in Nat /\ Cardinality(Open') = Cardinality(Open) + 1 - 1
    BY <2>1, OpenCount DEF Held
  <2> QED
    BY <2>1, <2>2
<1>2. InLine(waiters', handed') /\ free' \in Nat
  BY DEF SlotInv, semVars, InLine, TypeOK
<1>3. Queued'
  BY LenProperties, ElementOfSeq DEF SlotInv, Queued, semVars, InSlot, Asleep, InLine, TypeOK
<1>4. SlotsConserved'
  BY <1>1 DEF SlotInv, SlotsConserved, semVars
<1> HIDE DEF Open
<1> QED
  BY <1>1, <1>2, <1>3, <1>4, SlotInvParts

\* So do the steps of a request between its entry and its end.
LEMMA MoveSteps ==
    ASSUME SlotInv, NEW r \in Requests,
           \/ Retry(r) \/ WakeUp(r) \/ BackOff(r) \/ RateLimited(r)
           \/ RetryAltered(r) \/ Fail(r) \/ Answer(r)
    PROVE  SlotInv'
<1>0. TypeOK
  BY DEF SlotInv
<1>1. CASE Retry(r)
  BY <1>0, <1>1, WaitType, MoveKeeps DEF Retry, RestType, TypeOK, InSlot, Asleep
<1>2. CASE WakeUp(r)
  BY <1>0, <1>2, AcquireType, MoveKeeps DEF WakeUp, RestType, TypeOK, InSlot, Asleep
<1>3. CASE BackOff(r)
  <2>1. PICK j \in 0..Jitter : /\ SetBlocked(Backoff(attempt[r]) + j)
                               /\ Sleep(r, "backoff", Backoff(attempt[r]) + j)
    BY <1>3 DEF BackOff
  <2>2. Backoff(attempt[r]) + j \in Nat
    BY <1>0, PowersAssumption, RetryAssumption DEF Backoff, TypeOK
  <2>3. attempt' \in [Requests -> 0..MaxRetries]
    BY <1>0, <1>3, RetryAssumption DEF BackOff, TypeOK
  <2>4. RestType' /\ pc' = [pc EXCEPT ![r] = "backoff"]
    BY <1>0, <1>3, <2>1, <2>2, <2>3 DEF BackOff, SetBlocked, Sleep, RestType, TypeOK
  <2> QED
    BY <1>3, <2>4, MoveKeeps DEF BackOff, InSlot, Asleep
<1>4. CASE RateLimited(r)
  BY <1>0, <1>4, MoveKeeps, RetryAssumption DEF RateLimited, SetBlocked, Goto, RestType,
     TypeOK, InSlot, requestVars
<1>5. CASE RetryAltered(r)
  <2>1. RestType'
    BY <1>0, <1>5, WaitType, RetryAssumption DEF RetryAltered, RestType, TypeOK
  <2> QED
    BY <1>0, <1>5, <2>1, WaitType, MoveKeeps DEF RetryAltered, InSlot, Asleep
<1>6. CASE Fail(r) \/ Answer(r)
  BY <1>0, <1>6, MoveKeeps DEF Fail, Answer, Goto, RestType, TypeOK, InSlot, requestVars,
     limiterVars
<1> QED
  BY <1>1, <1>2, <1>3, <1>4, <1>5, <1>6

\* An arrival takes a free slot or joins the line.
LEMMA ArriveStep ==
    ASSUME SlotInv, NEW r \in Requests, Arrive(r)
    PROVE  SlotInv'
<1>0. TypeOK
  BY DEF SlotInv
<1>1. /\ \A i \in 1..Len(waiters) : waiters[i] \in Requests /\ waiters[i] # r
      /\ r \notin handed
      /\ Len(waiters) \in Nat
  BY LenProperties, ElementOfSeq DEF SlotInv, InLine, Arrive
<1>2. CASE free > 0 /\ waiters = <<>> /\ handed = {}
  <2>1. PICK p \in {"blocked", "pacing", "calling"} : pc' = [pc EXCEPT ![r] = p]
    BY <1>0, <1>2, WaitType DEF Arrive
  <2>2. p \in Phases /\ p \in InSlot /\ pc[r] \notin InSlot
    BY DEF Arrive, Phases, InSlot, Asleep
  <2>3. Cardinality(Open') = Cardinality(Open) + 1 /\ pc' \in [Requests -> Phases]
    <3>1. /\ pc' \in [Requests -> Phases]
          /\ Cardinality(Open) \in Nat
          /\ Cardinality(Open') = Cardinality(Open) + 1 - 0
      BY <1>0, <2>1, <2>2, OpenCount DEF TypeOK, Held
    <3> QED BY <3>1
  <2>4. RestType'
    BY <1>0, <1>2, WaitType DEF Arrive, RestType, TypeOK
  <2>5. /\ free' \in Nat /\ free' = free - 1 /\ free \in Nat
        /\ UNCHANGED <<waiters, handed>>
    BY <1>0, <1>2, CapAssumption DEF Arrive, TypeOK
  <2>6. InLine(waiters', handed') /\ Queued'
    <3>1. Len(waiters') = 0 /\ handed' = {}
      BY <1>2, <2>5
    <3> QED BY <2>5, <3>1 DEF SlotInv, InLine, Queued
  <2>7. SlotsConserved'
    <3>1. Cardinality(handed) \in Nat /\ Cardinality(Open) \in Nat
      BY <1>0, Finite DEF TypeOK, Open
    <3> HIDE DEF Open
    <3> QED BY <2>3, <2>5, <3>1 DEF SlotInv, SlotsConserved
  <2> QED
    BY <2>3, <2>4, <2>5, <2>6, <2>7, SlotInvParts
<1>3. CASE ~(free > 0 /\ waiters = <<>> /\ handed = {})
  <2>1. /\ waiters' = Append(waiters, r)
        /\ pc' = [pc EXCEPT ![r] = "queued"]
        /\ UNCHANGED <<free, sleep, times, slipped, handed>>
    BY <1>3 DEF Arrive
  <2>2. "queued" \in Phases /\ "queued" \notin InSlot /\ pc[r] \notin InSlot
    BY DEF Arrive, Phases, InSlot, Asleep
  <2>3. Cardinality(Open') = Cardinality(Open) /\ pc' \in [Requests -> Phases]
    <3>1. /\ pc' \in [Requests -> Phases]
          /\ Cardinality(Open) \in Nat
          /\ Cardinality(Open') = Cardinality(Open) + 0 - 0
      BY <1>0, <2>1, <2>2, OpenCount DEF TypeOK, Held
    <3> QED BY <3>1
  <2>4. /\ waiters' \in Seq(Requests)
        /\ Len(waiters') = Len(waiters) + 1
        /\ \A i \in 1..Len(waiters) : waiters'[i] = waiters[i]
        /\ waiters'[Len(waiters) + 1] = r
    BY <1>0, <2>1, AppendProperties DEF TypeOK
  <2>5. InLine(waiters', handed')
    BY <1>1, <2>1, <2>4 DEF SlotInv, InLine
  <2>6. Queued'
    BY <1>0, <1>1, <2>1, <2>4 DEF SlotInv, Queued, TypeOK
  <2>7. RestType' /\ free' \in Nat
    BY <1>0, <2>1, CapAssumption DEF Arrive, RestType, TypeOK
  <2>8. SlotsConserved'
    BY <2>1, <2>3 DEF SlotInv, SlotsConserved
  <2> QED
    BY <2>3, <2>5, <2>6, <2>7, <2>8, SlotInvParts
<1> QED
  BY <1>2, <1>3

\* A step in which one request leaves the line, or its slot, and slots are handed out.
LEMMA LineStep ==
    ASSUME SlotInv, NEW r \in Requests, NEW p \in Phases, pc' = [pc EXCEPT ![r] = p],
           NEW f \in Nat, NEW ws, NEW hs, NEW k \in 0..Len(ws), k <= f,
           HandOut(f, ws, hs, k), InLine(ws, hs), RestType',
           \A i \in 1..Len(ws) : ws[i] # r /\ pc[ws[i]] = "queued",
           \A q \in hs : q # r /\ pc[q] = "queued",
           f + Cardinality(hs) + Held(p) = free + Cardinality(handed) + Held(pc[r])
    PROVE  SlotInv'
<1>1. /\ free' \in Nat
      /\ InLine(waiters', handed')
      /\ free' + Cardinality(handed') = f + Cardinality(hs)
      /\ \A i \in 1..Len(waiters') : \E j \in 1..Len(ws) : waiters'[i] = ws[j]
      /\ \A q \in handed' : q \in hs \/ \E j \in 1..Len(ws) : q = ws[j]
  BY HandOutKeeps
<1>2. /\ pc \in [Requests -> Phases] /\ pc' \in [Requests -> Phases]
      /\ Cardinality(Open) \in Nat
      /\ Cardinality(Open') = Cardinality(Open) + Held(p) - Held(pc[r])
  BY OpenCount DEF SlotInv, TypeOK
<1>3. Queued'
  <2>1. /\ \A i \in 1..Len(waiters') : waiters'[i] \in Requests
        /\ handed' \subseteq Requests
    BY <1>1, ElementOfSeq DEF InLine
  <2>2. \A q \in Requests : q # r => pc'[q] = pc[q]
    BY <1>2
  <2>3. \A q \in handed' : pc'[q] = "queued"
    BY <1>1, <2>1, <2>2
  <2>4. ASSUME NEW i \in 1..Len(waiters') PROVE pc'[waiters'[i]] = "queued"
    <3>1. PICK j \in 1..Len(ws) : waiters'[i] = ws[j]
      BY <1>1
    <3>2. ws[j] # r /\ pc[ws[j]] = "queued" /\ waiters'[i] \in Requests
      BY <2>1
    <3> QED
      BY <2>2, <3>1, <3>2
  <2> QED
    BY <2>3, <2>4 DEF Queued
<1>4. SlotsConserved'
  <2>1. /\ Cardinality(handed') \in Nat /\ Cardinality(hs) \in Nat
        /\ Cardinality(handed) \in Nat /\ free \in Nat /\ MaxConcurrency \in Nat
    BY <1>1, Finite, CapAssumption DEF InLine, SlotInv, TypeOK
  <2>2. free + Cardinality(handed) + Cardinality(Open) = MaxConcurrency
    BY DEF SlotInv, SlotsConserved
  <2> HIDE DEF Open
  <2>3. Held(p) \in Nat /\ Held(pc[r]) \in Nat
    BY DEF Held
  <2>4. Cardinality(Open') = Cardinality(Open) + Held(p) - Held(pc[r])
    BY <1>2
  <2>5. free' \in Nat /\ free' + Cardinality(handed') = f + Cardinality(hs)
    BY <1>1
  <2>6. Cardinality(Open) \in Nat
    BY <1>2
  <2>7. f + Cardinality(hs) + Held(p) = free + Cardinality(handed) + Held(pc[r])
    OBVIOUS
  <2>8. free' + Cardinality(handed') + Cardinality(Open') = MaxConcurrency
    <3>1. f + Cardinality(hs) + Cardinality(Open') = MaxConcurrency
      BY <2>1, <2>2, <2>4, <2>6, <2>7, <2>3
    <3>2. free' + Cardinality(handed') + Cardinality(Open') = f + Cardinality(hs) + Cardinality(Open')
      BY <2>5
    <3> QED
      BY <3>1, <3>2
  <2> QED
    BY <2>8 DEF SlotsConserved
<1> HIDE DEF Open
<1> QED
  BY <1>1, <1>2, <1>3, <1>4, SlotInvParts

\* Who is in line, and that the counts are numbers.
LEMMA LineFacts ==
    ASSUME SlotInv
    PROVE  /\ TypeOK /\ InLine(waiters, handed)
           /\ free \in Nat /\ Len(waiters) \in Nat /\ Cardinality(handed) \in Nat
           /\ \A i \in 1..Len(waiters) : waiters[i] \in Requests /\ pc[waiters[i]] = "queued"
           /\ \A q \in handed : q \in Requests /\ pc[q] = "queued"
           /\ "queued" \notin InSlot
<1>1. TypeOK /\ InLine(waiters, handed) /\ free \in Nat
  BY CapAssumption DEF SlotInv, TypeOK
<1>2. Len(waiters) \in Nat /\ Cardinality(handed) \in Nat /\ handed \subseteq Requests
  BY <1>1, LenProperties, Finite DEF InLine
<1>3. \A i \in 1..Len(waiters) : waiters[i] \in Requests
  BY <1>1, ElementOfSeq DEF InLine
<1> QED
  BY <1>1, <1>2, <1>3 DEF SlotInv, InSlot, Asleep

\* One that was handed a slot leaves those who were.
LEMMA NotHanded ==
    ASSUME SlotInv, NEW r \in handed
    PROVE  /\ InLine(waiters, handed \ {r})
           /\ Cardinality(handed \ {r}) = Cardinality(handed) - 1
           /\ \A i \in 1..Len(waiters) : waiters[i] # r
<1>1. IsFiniteSet(handed)
  BY LineFacts, Finite DEF InLine
<1>2. Cardinality(handed \ {r}) = Cardinality(handed) - 1
  BY <1>1, FS_RemoveElement
<1> QED
  BY <1>2 DEF SlotInv, InLine

\* One that was handed a slot enters, and wakes those for whom there are slots.
LEMMA EnterStep ==
    ASSUME SlotInv, NEW r \in Requests, Enter(r)
    PROVE  SlotInv'
<1>0. TypeOK /\ r \in handed /\ pc[r] = "queued" /\ pc[r] \notin InSlot
  BY LineFacts DEF Enter
<1>1. PICK p \in {"blocked", "pacing", "calling"} : pc' = [pc EXCEPT ![r] = p]
  BY <1>0, WaitType DEF Enter
<1>2. p \in Phases /\ p \in InSlot
  BY DEF Phases, InSlot, Asleep
<1>3. RestType'
  BY <1>0, WaitType DEF Enter, RestType, TypeOK
<1>4. PICK k \in 0..Len(waiters) : k <= free /\ HandOut(free, waiters, handed \ {r}, k)
  BY LineFacts DEF Enter, WakeAll
<1>5. free + Cardinality(handed \ {r}) + Held(p) = free + Cardinality(handed) + Held(pc[r])
  <2>1. Held(p) = 1 /\ Held(pc[r]) = 0
    BY <1>0, <1>2 DEF Held
  <2>2. Cardinality(handed \ {r}) = Cardinality(handed) - 1
    BY <1>0, NotHanded
  <2> QED
    BY <2>1, <2>2, LineFacts
<1>6. /\ InLine(waiters, handed \ {r}) /\ free \in Nat
      /\ \A i \in 1..Len(waiters) : waiters[i] # r /\ pc[waiters[i]] = "queued"
      /\ \A q \in handed \ {r} : q # r /\ pc[q] = "queued"
  BY <1>0, LineFacts, NotHanded
<1> HIDE DEF InSlot, Phases
<1> QED
  BY <1>1, <1>2, <1>3, <1>4, <1>5, <1>6, LineStep

\* A request that ends, however it does, and wherever it was.
LEMMA EndType ==
    ASSUME SlotInv, NEW r \in Requests, End(r), UNCHANGED <<transport, limiterVars, slipped>>
    PROVE  /\ RestType'
           /\ pc' = [pc EXCEPT ![r] = "done"] /\ "done" \in Phases /\ "done" \notin InSlot
BY RetryAssumption
DEF SlotInv, TypeOK, End, Goto, RestType, limiterVars, Phases, InSlot, Asleep

\* One that holds a slot gives it to the next in line.
LEMMA LeaveStep ==
    ASSUME SlotInv, NEW r \in Requests, pc[r] \in InSlot, End(r), ReleaseSlot,
           UNCHANGED <<transport, limiterVars, slipped>>
    PROVE  SlotInv'
<1>1. PICK k \in 0..Len(waiters) : k <= free + 1 /\ HandOut(free + 1, waiters, handed, k)
  <2>1. waiters # <<>> => Len(waiters) >= 1
    BY LineFacts, EmptySeq, LenProperties DEF InLine
  <2> QED
    BY <2>1, LineFacts DEF ReleaseSlot
<1>2. /\ free + 1 \in Nat
      /\ (free + 1) + Cardinality(handed) + Held("done") =
           free + Cardinality(handed) + Held(pc[r])
  BY LineFacts, EndType DEF Held
<1>3. /\ InLine(waiters, handed)
      /\ \A i \in 1..Len(waiters) : waiters[i] # r /\ pc[waiters[i]] = "queued"
      /\ \A q \in handed : q # r /\ pc[q] = "queued"
  BY LineFacts
<1>4. RestType' /\ pc' = [pc EXCEPT ![r] = "done"] /\ "done" \in Phases
  BY EndType
<1> HIDE DEF InSlot, Phases
<1> QED
  BY <1>1, <1>2, <1>3, <1>4, LineStep

\* The line without its i-th.
LEMMA WithoutOne ==
    ASSUME SlotInv, NEW i \in 1..Len(waiters)
    PROVE  /\ InLine(RemoveAt(waiters, i), handed)
           /\ \A j \in 1..Len(RemoveAt(waiters, i)) :
                /\ RemoveAt(waiters, i)[j] # waiters[i]
                /\ \E l \in 1..Len(waiters) : RemoveAt(waiters, i)[j] = waiters[l]
<1> DEFINE n == Len(waiters)
           s == [j \in 1..(n - 1) |-> IF j < i THEN waiters[j] ELSE waiters[j + 1]]
           at(j) == IF j < i THEN j ELSE j + 1
<1>1. n \in Nat /\ \A j \in 1..n : waiters[j] \in Requests
  BY LineFacts
<1>2. RemoveAt(waiters, i) = s
  <2> DEFINE a == SubSeq(waiters, 1, i - 1)
             b == SubSeq(waiters, i + 1, n)
  <2>1. /\ a \in Seq(Requests) /\ Len(a) = i - 1
        /\ \A j \in 1..(i - 1) : a[j] = waiters[j]
    BY <1>1, LineFacts, SubSeqProperties DEF InLine
  <2>2. /\ b \in Seq(Requests) /\ Len(b) = n - i
        /\ \A j \in 1..(n - i) : b[j] = waiters[i + j]
    BY <1>1, LineFacts, SubSeqProperties DEF InLine
  <2> HIDE DEF a, b
  <2>3. /\ a \o b \in Seq(Requests) /\ Len(a \o b) = n - 1
        /\ \A j \in 1..(n - 1) : (a \o b)[j] = IF j <= i - 1 THEN a[j] ELSE b[j - (i - 1)]
    <3>1. (i - 1) + (n - i) = n - 1
      BY <1>1
    <3>2. /\ a \o b \in Seq(Requests)
          /\ Len(a \o b) = Len(a) + Len(b)
          /\ \A j \in 1..(Len(a) + Len(b)) :
               (a \o b)[j] = IF j <= Len(a) THEN a[j] ELSE b[j - Len(a)]
      BY <2>1, <2>2, ConcatProperties
    <3>3. Len(a) + Len(b) = n - 1
      BY <2>1, <2>2, <3>1
    <3> QED
      BY <2>1, <3>2, <3>3
  <2>4. \A j \in 1..(n - 1) : (a \o b)[j] = s[j]
    <3> TAKE j \in 1..(n - 1)
    <3>1. CASE j < i
      BY <1>1, <2>1, <2>3, <3>1
    <3>2. CASE ~(j < i)
      <4>1. j - (i - 1) \in 1..(n - i) /\ i + (j - (i - 1)) = j + 1 /\ ~(j <= i - 1)
        BY <1>1, <3>2
      <4> QED
        BY <2>2, <2>3, <3>2, <4>1
    <3> QED BY <3>1, <3>2
  <2>5. a \o b = [j \in 1..(n - 1) |-> (a \o b)[j]]
    BY <2>3, LenProperties
  <2> QED
    BY <2>4, <2>5 DEF RemoveAt, a, b
<1>3. /\ \A j \in 1..(n - 1) : at(j) \in 1..n /\ at(j) # i /\ s[j] = waiters[at(j)]
      /\ \A j, l \in 1..(n - 1) : at(j) = at(l) => j = l
  BY <1>1
<1>4. s \in Seq(Requests) /\ Len(s) = n - 1
  <2>1. n - 1 \in Nat /\ s \in [1..(n - 1) -> Requests]
    BY <1>1, <1>3
  <2> HIDE DEF s
  <2> QED BY <2>1, IsASeq, LenProperties
<1> HIDE DEF s, at, n
<1>5. /\ \A j, l \in 1..n : waiters[j] = waiters[l] => j = l
      /\ \A j \in 1..n : waiters[j] \notin handed
      /\ handed \subseteq Requests
  BY LineFacts DEF InLine, n
<1>6. InLine(s, handed)
  BY <1>3, <1>4, <1>5 DEF InLine
<1>7. \A j \in 1..(n - 1) : s[j] # waiters[i]
  BY <1>3, <1>5 DEF n
<1> QED
  BY <1>2, <1>3, <1>4, <1>6, <1>7 DEF n

\* A client that goes away takes its request out of the line or out of its slot.
LEMMA DisconnectStep ==
    ASSUME SlotInv, NEW r \in Requests, Disconnect(r)
    PROVE  SlotInv'
<1>0. End(r) /\ UNCHANGED <<transport, limiterVars, slipped>>
  BY DEF Disconnect
<1>1. CASE pc[r] \in InSlot /\ ReleaseSlot
  BY <1>0, <1>1, LeaveStep
<1>2. CASE r \in handed /\ WakeAll(free + 1, waiters, handed \ {r})
  <2>1. Cardinality(handed \ {r}) = Cardinality(handed) - 1
    BY <1>2, NotHanded
  <2>3. Held("done") = 0 /\ Held(pc[r]) = 0
    BY <1>0, <1>2, LineFacts, EndType DEF Held
  <2>4. /\ free + 1 \in Nat
        /\ (free + 1) + Cardinality(handed \ {r}) + Held("done") =
             free + Cardinality(handed) + Held(pc[r])
    BY <2>1, <2>3, LineFacts
  <2>5. /\ InLine(waiters, handed \ {r})
        /\ \A i \in 1..Len(waiters) : waiters[i] # r /\ pc[waiters[i]] = "queued"
        /\ \A q \in handed \ {r} : q # r /\ pc[q] = "queued"
    BY <1>2, LineFacts, NotHanded
  <2>2. PICK k \in 0..Len(waiters) :
            k <= free + 1 /\ HandOut(free + 1, waiters, handed \ {r}, k)
    BY <1>2, LineFacts DEF WakeAll
  <2> HIDE DEF InSlot, Phases
  <2> QED
    BY <1>0, <2>2, <2>4, <2>5, EndType, LineStep
<1>3. CASE \E i \in 1..Len(waiters) :
             waiters[i] = r /\ WakeAll(free, RemoveAt(waiters, i), handed)
  <2>1. PICK i \in 1..Len(waiters) :
            waiters[i] = r /\ WakeAll(free, RemoveAt(waiters, i), handed)
    BY <1>3
  <2> DEFINE ws == RemoveAt(waiters, i)
  <2>2. /\ InLine(ws, handed)
        /\ \A j \in 1..Len(ws) : ws[j] # r /\ \E l \in 1..Len(waiters) : ws[j] = waiters[l]
    BY <2>1, WithoutOne
  <2> HIDE DEF ws
  <2>3. /\ pc[r] \notin InSlot /\ \A q \in handed : q # r
        /\ \A j \in 1..Len(ws) : pc[ws[j]] = "queued"
    BY <2>1, <2>2, LineFacts DEF InLine
  <2>4. Len(ws) \in Nat
    BY <2>2, LenProperties DEF InLine
  <2>5. PICK k \in 0..Len(ws) : k <= free /\ HandOut(free, ws, handed, k)
    BY <2>1, <2>4, LineFacts DEF WakeAll, ws
  <2>6. free \in Nat /\ \A j \in 1..Len(ws) : ws[j] # r /\ pc[ws[j]] = "queued"
    BY <2>2, <2>3, LineFacts
  <2>7. \A q \in handed : q # r /\ pc[q] = "queued"
    BY <2>3, LineFacts
  <2>8. free + Cardinality(handed) + Held("done") = free + Cardinality(handed) + Held(pc[r])
    BY <1>0, <2>3, EndType DEF Held
  <2> HIDE DEF InSlot, Phases
  <2> QED
    BY <1>0, <2>2, <2>3, <2>5, <2>8, <2>6, <2>7, EndType, LineStep
<1> QED
  BY <1>1, <1>2, <1>3 DEF Disconnect

LEMMA TickStep ==
    ASSUME SlotInv, Tick
    PROVE  SlotInv'
<1>1. RestType'
  <2>1. blocked' \in Nat /\ sleep' \in [Requests -> Nat] /\ slipped' \subseteq Requests
    BY LineFacts DEF TypeOK, Tick, Left
  <2> QED
    BY <2>1, LineFacts, AgedIs DEF TypeOK, Tick, RestType
<1>2. UNCHANGED <<pc, free, waiters, handed>>
  BY DEF Tick, semVars
<1> QED
  BY <1>1, <1>2 DEF SlotInv, TypeOK, RestType, InLine, SlotsConserved, Open

LEMMA SlotInvInductive == Init => SlotInv
<1> SUFFICES ASSUME Init PROVE SlotInv
  OBVIOUS
<1>1. TypeOK
  BY CapAssumption, RetryAssumption, EmptySeq DEF Init, TypeOK, Phases
<1>2. waiters = <<>> /\ Len(waiters) = 0 /\ handed = {} /\ Open = {}
  BY DEF Init, Open, InSlot, Asleep
<1>3. SlotsConserved
  <2>1. free = MaxConcurrency /\ Cardinality(handed) = 0 /\ Cardinality(Open) = 0
    BY <1>2, FS_EmptySet DEF Init
  <2> HIDE DEF Open
  <2> QED
    BY <2>1, CapAssumption DEF SlotsConserved
<1> QED
  BY <1>1, <1>2, <1>3, EmptySeq DEF SlotInv, InLine

LEMMA SlotStep == SlotInv /\ [Next]_vars => SlotInv'
<1> SUFFICES ASSUME SlotInv, [Next]_vars PROVE SlotInv'
  OBVIOUS
<1>1. CASE Tick
  BY <1>1, TickStep
<1>2. ASSUME NEW r \in Requests, Progress(r) PROVE SlotInv'
  <2>1. CASE Arrive(r)
    BY <2>1, ArriveStep
  <2>2. CASE Enter(r)
    BY <2>2, EnterStep
  <2>3. CASE Finish(r)
    BY <2>3, LeaveStep DEF Finish, InSlot
  <2> QED
    BY <1>2, <2>1, <2>2, <2>3, MoveSteps DEF Progress
<1>3. ASSUME NEW r \in Requests, Disconnect(r) PROVE SlotInv'
  BY <1>3, DisconnectStep
<1>4. CASE UNCHANGED vars
  BY <1>4
  DEF vars, limiterVars, semVars, requestVars, SlotInv, TypeOK, InLine, SlotsConserved, Open
<1> QED
  BY <1>1, <1>2, <1>3, <1>4 DEF Next

\* The variables of the limiter and of its requests keep their types.
THEOREM TypeCorrect == Spec => []TypeOK
<1>1. Spec => []SlotInv
  BY SlotInvInductive, SlotStep, PTL DEF Spec
<1>2. SlotInv => TypeOK
  BY DEF SlotInv
<1> QED
  BY <1>1, <1>2, PTL

\* No stream slot is lost or freed twice, whoever fails or goes away, and when.
THEOREM SlotsConservedHolds == Spec => []SlotsConserved
<1>1. Spec => []SlotInv
  BY SlotInvInductive, SlotStep, PTL DEF Spec
<1>2. SlotInv => SlotsConserved
  BY DEF SlotInv
<1> QED
  BY <1>1, <1>2, PTL

-----------------------------------------------------------------------------
(* Few calls slip past a block.                                            *)

\* Those that will call, or have called, in spite of the block in force: they sleep
\* for the window or for an earlier block.
Slippable ==
    {r \in Requests : pc[r] = "pacing" \/ (pc[r] = "blocked" /\ sleep[r] < blocked)}
Slip == slipped \cup Slippable

SlipInv ==
    /\ blocked = 0 => slipped = {}
    /\ blocked > 0 => Cardinality(Slip) < MaxConcurrency

\* While the block stays, nobody new can slip past it.
LEMMA NobodyNew ==
    ASSUME SlotInv, SlotInv', SlipInv, blocked' > 0, blocked > 0, Slip' \subseteq Slip
    PROVE  SlipInv'
<1>1. Slip \in SUBSET Requests
  BY DEF SlotInv, TypeOK, Slip, Slippable
<1>2. IsFiniteSet(Slip) /\ Cardinality(Slip) \in Nat /\ Cardinality(Slip') \in Nat
  BY <1>1, Finite
<1> HIDE DEF Slip
<1>3. Cardinality(Slip') <= Cardinality(Slip)
  BY <1>2, FS_Subset
<1>4. MaxConcurrency \in Nat
  BY CapAssumption
<1>5. Cardinality(Slip') < MaxConcurrency /\ ~(blocked' = 0)
  BY <1>2, <1>3, <1>4 DEF SlipInv
<1> QED
  BY <1>5 DEF SlipInv

\* A step of one request that leaves the block alone.
LEMMA SlipMoves ==
    ASSUME SlotInv, SlotInv', SlipInv, NEW r \in Requests, blocked' = blocked,
           \A q \in Requests : q # r => pc'[q] = pc[q] /\ sleep'[q] = sleep[q],
           blocked > 0 => slipped' \cup (Slippable' \cap {r}) \subseteq Slip,
           blocked = 0 => slipped' = {}
    PROVE  SlipInv'
<1>1. CASE blocked > 0
  BY <1>1, NobodyNew DEF Slip, Slippable
<1>2. CASE ~(blocked > 0)
  BY <1>2 DEF SlipInv, SlotInv, TypeOK
<1> QED
  BY <1>1, <1>2

\* One that looks at the block before it calls does not slip past it.
LEMMA WaitSlips ==
    ASSUME SlotInv, SlotInv', SlipInv, NEW r \in Requests, blocked' = blocked,
           WaitIfBlocked(r)
    PROVE  SlipInv'
<1>1. CASE blocked > 0
  <2>1. slipped' = slipped /\ pc'[r] = "blocked" /\ sleep'[r] = blocked
    BY <1>1 DEF WaitIfBlocked, Sleep, SlotInv, TypeOK
  <2>2. \A q \in Requests : q # r => pc'[q] = pc[q] /\ sleep'[q] = sleep[q]
    BY <1>1 DEF WaitIfBlocked, Sleep, SlotInv, TypeOK
  <2>3. blocked \in Nat /\ r \notin Slippable'
    BY <2>1 DEF Slippable, SlotInv, TypeOK
  <2> HIDE DEF Slippable
  <2> QED
    BY <1>1, <2>1, <2>2, <2>3, SlipMoves DEF Slip
<1>2. CASE ~(blocked > 0)
  <2>1. \/ Call(r)
        \/ \E d : Sleep(r, "pacing", d) /\ UNCHANGED slipped
    BY <1>2 DEF WaitIfBlocked, Acquire
  <2>2. slipped' = slipped
    BY <1>2, <2>1 DEF Call
  <2>3. blocked = 0
    BY <1>2 DEF SlotInv, TypeOK
  <2> QED
    BY <2>2, <2>3 DEF SlipInv
<1> QED
  BY <1>1, <1>2

\* One that has slept for the window or for a block does, and was expected to.
LEMMA WakeUpSlips ==
    ASSUME SlotInv, SlotInv', SlipInv, NEW r \in Requests, WakeUp(r)
    PROVE  SlipInv'
<1>1. \/ Call(r)
      \/ \E d : Sleep(r, "pacing", d) /\ UNCHANGED slipped
  BY DEF WakeUp, Acquire
<1>2. \A q \in Requests : q # r => pc'[q] = pc[q] /\ sleep'[q] = sleep[q]
  BY <1>1 DEF Call, Sleep, SlotInv, TypeOK
<1>3. slipped' \subseteq slipped \cup {r} /\ blocked' = blocked /\ blocked \in Nat
  BY <1>1 DEF Call, WakeUp, SlotInv, TypeOK
<1>4. blocked > 0 => r \in Slippable
  BY DEF WakeUp, Slippable
<1>5. blocked = 0 => slipped' = {}
  BY <1>1 DEF Call, SlipInv
<1>6. blocked > 0 => slipped' \cup (Slippable' \cap {r}) \subseteq Slip
  <2> HIDE DEF Slippable
  <2> QED BY <1>3, <1>4 DEF Slip
<1> QED
  BY <1>2, <1>3, <1>5, <1>6, SlipMoves

\* A new block: the one who hit it is not asleep, so fewer than there are slots are.
LEMMA NewBlock ==
    ASSUME SlotInv, SlotInv', NEW r \in Requests, NEW d, SetBlocked(d),
           pc[r] = "calling", pc'[r] \in {"backoff", "reporting"},
           \A q \in Requests : q # r => pc'[q] = pc[q]
    PROVE  SlipInv'
<1>1. slipped' = {}
  BY DEF SetBlocked
<1>2. Slip' \subseteq Open \ {r} /\ r \in Open
  BY <1>1 DEF Slip, Slippable, Open, InSlot, Asleep
<1>3. IsFiniteSet(Open) /\ Cardinality(Open) \in Nat
  BY Finite DEF Open
<1> HIDE DEF Slip, Open
<1>4. IsFiniteSet(Open \ {r}) /\ Cardinality(Open \ {r}) = Cardinality(Open) - 1
  BY <1>2, <1>3, FS_RemoveElement
<1>5. Cardinality(Slip') <= Cardinality(Open) - 1 /\ Cardinality(Slip') \in Nat
  <2>1. IsFiniteSet(Slip') /\ Cardinality(Slip') <= Cardinality(Open \ {r})
    BY <1>2, <1>4, FS_Subset
  <2>2. Cardinality(Slip') \in Nat
    BY <2>1, FS_CardinalityType
  <2> QED
    BY <1>4, <2>1, <2>2
<1>6. Cardinality(Open) <= MaxConcurrency
  BY <1>3, LineFacts, CapAssumption DEF SlotInv, SlotsConserved
<1>7. Cardinality(Slip') < MaxConcurrency
  BY <1>3, <1>5, <1>6, CapAssumption
<1> QED
  BY <1>1, <1>7 DEF SlipInv

\* One that no longer waits cannot slip.
LEMMA AwakeSlips ==
    ASSUME SlotInv, SlotInv', SlipInv, NEW r \in Requests, NEW p \in Phases,
           pc' = [pc EXCEPT ![r] = p], p \notin {"pacing", "blocked"},
           \A q \in Requests : q # r => sleep'[q] = sleep[q],
           UNCHANGED <<blocked, slipped>>
    PROVE  SlipInv'
<1>1. \A q \in Requests : q # r => pc'[q] = pc[q] /\ sleep'[q] = sleep[q]
  BY DEF SlotInv, TypeOK
<1>2. r \notin Slippable'
  BY DEF SlotInv, TypeOK, Slippable
<1> HIDE DEF Slippable
<1> QED
  BY <1>1, <1>2, SlipMoves DEF Slip, SlipInv

LEMMA SlipProgress ==
    ASSUME SlotInv, SlotInv', SlipInv, NEW r \in Requests, Progress(r) \/ Disconnect(r)
    PROVE  SlipInv'
<1>1. CASE Arrive(r)
  <2>1. CASE free > 0 /\ waiters = <<>> /\ handed = {}
    BY <1>1, <2>1, WaitSlips DEF Arrive
  <2>2. CASE ~(free > 0 /\ waiters = <<>> /\ handed = {})
    <3>1. "queued" \in Phases
      BY DEF Phases
    <3> QED
      BY <1>1, <2>2, <3>1, AwakeSlips DEF Arrive
  <2> QED
    BY <2>1, <2>2
<1>2. CASE Enter(r) \/ Retry(r) \/ RetryAltered(r)
  BY <1>2, WaitSlips DEF Enter, Retry, RetryAltered
<1>3. CASE WakeUp(r)
  BY <1>3, WakeUpSlips
<1>4. CASE BackOff(r)
  <2>1. PICK d : SetBlocked(d) /\ pc' = [pc EXCEPT ![r] = "backoff"] /\ pc[r] = "calling"
    BY <1>4 DEF BackOff, Sleep
  <2> QED
    BY <2>1, NewBlock DEF SlotInv, TypeOK
<1>5. CASE RateLimited(r)
  <2>1. /\ SetBlocked(Penalty)
        /\ pc' = [pc EXCEPT ![r] = "reporting"] /\ pc[r] = "calling"
    BY <1>5 DEF RateLimited, Goto
  <2> QED
    BY <2>1, NewBlock DEF SlotInv, TypeOK
<1>6. CASE Fail(r) \/ Answer(r)
  <2>1. "reporting" \in Phases /\ "streaming" \in Phases
    BY DEF Phases, InSlot
  <2> QED
    BY <1>6, <2>1, AwakeSlips DEF Fail, Answer, Goto, limiterVars, requestVars
<1>7. CASE Finish(r) \/ Disconnect(r)
  <2>1. /\ pc' = [pc EXCEPT ![r] = "done"] /\ sleep' = [sleep EXCEPT ![r] = 0]
        /\ UNCHANGED <<blocked, slipped>> /\ "done" \in Phases
    BY <1>7 DEF Finish, Disconnect, End, Goto, limiterVars, Phases
  <2>2. \A q \in Requests : q # r => sleep'[q] = sleep[q]
    BY <2>1 DEF SlotInv, TypeOK
  <2> QED
    BY <2>1, <2>2, AwakeSlips
<1> QED
  BY <1>1, <1>2, <1>3, <1>4, <1>5, <1>6, <1>7 DEF Progress

\* Time takes as much from a sleep as from the block.
LEMMA SlipTick ==
    ASSUME SlotInv, SlotInv', SlipInv, Tick
    PROVE  SlipInv'
<1>0. blocked \in Nat /\ \A q \in Requests : sleep[q] \in Nat
  BY DEF SlotInv, TypeOK
<1>1. CASE blocked' > 0
  <2>1. blocked > 0 /\ blocked' = blocked - 1 /\ slipped' = slipped
    BY <1>0, <1>1 DEF Tick, Left
  <2>2. ASSUME NEW q \in Requests, q \in Slippable' PROVE q \in Slippable
    BY <1>0, <2>1, <2>2 DEF Slippable, Tick, Left
  <2>3. Slip' \subseteq Slip
    BY <2>1, <2>2 DEF Slip, Slippable
  <2> QED
    BY <1>1, <2>1, <2>3, NobodyNew
<1>2. CASE ~(blocked' > 0)
  BY <1>2 DEF SlipInv, Tick
<1> QED
  BY <1>1, <1>2

\* However many requests wait, and whenever a 429 arrives, fewer calls than there are
\* stream slots are made while it blocks the provider.
THEOREM FewSlipThroughHolds == Spec => []FewSlipThrough
<1> DEFINE Inv == SlotInv /\ SlipInv
<1>1. Init => Inv
  BY SlotInvInductive DEF Init, SlipInv
<1>2. Inv /\ [Next]_vars => Inv'
  <2> SUFFICES ASSUME SlotInv, SlipInv, [Next]_vars PROVE SlotInv' /\ SlipInv'
    OBVIOUS
  <2>1. SlotInv'
    BY SlotStep
  <2>2. CASE UNCHANGED vars
    <3>1. Slip' = Slip /\ blocked' = blocked /\ slipped' = slipped
      BY <2>2 DEF vars, limiterVars, requestVars, Slip, Slippable
    <3> QED
      BY <2>1, <3>1 DEF SlipInv
  <2> QED
    BY <2>1, <2>2, SlipProgress, SlipTick DEF Next
<1>3. Inv => FewSlipThrough
  <2> SUFFICES ASSUME SlotInv, SlipInv PROVE FewSlipThrough
    OBVIOUS
  <2>1. /\ Slip \in SUBSET Requests /\ slipped \subseteq Slip /\ blocked \in Nat
        /\ MaxConcurrency \in Nat /\ MaxConcurrency > 0
    BY CapAssumption DEF SlotInv, TypeOK, Slip, Slippable
  <2>2. IsFiniteSet(Slip) /\ Cardinality(Slip) \in Nat
    BY <2>1, Finite
  <2>3. CASE blocked = 0
    <3>1. Cardinality(slipped) = 0
      BY <2>3, FS_EmptySet DEF SlipInv
    <3> QED
      BY <2>1, <3>1 DEF FewSlipThrough
  <2>4. CASE blocked > 0
    <3> HIDE DEF Slip
    <3>1. /\ Cardinality(slipped) <= Cardinality(Slip)
          /\ Cardinality(slipped) \in Nat
      BY <2>1, <2>2, FS_Subset, FS_CardinalityType
    <3> QED
      BY <2>1, <2>2, <2>4, <3>1 DEF SlipInv, FewSlipThrough
  <2> QED
    BY <2>1, <2>3, <2>4
<1> QED
  BY <1>1, <1>2, <1>3, PTL DEF Spec

-----------------------------------------------------------------------------
(* The deque implements the rolling window.                                *)

\* Somebody who looks at the deque grants or stutters.
LEMMA AcquireGrants ==
    ASSUME Layered(times), NEW r, Acquire(r)
    PROVE  Layered(times') /\ (Rolling!Grant \/ UNCHANGED Fresh(times))
<1> PICK k \in 0..Len(times) :
        /\ PopsOff(times, k)
        /\ IF Len(Kept(times, k)) < Limit
             THEN times' = Append(Kept(times, k), 0) /\ Call(r)
             ELSE /\ times' = Kept(times, k)
                  /\ Sleep(r, "pacing", TimeToRoom(times'))
                  /\ UNCHANGED slipped
  BY DEF Acquire
<1>1. /\ Kept(times, k) = Fresh(times)
      /\ Fresh(Kept(times, k)) = Fresh(times)
      /\ Fresh(Append(Kept(times, k), 0)) = Append(Fresh(times), 0)
  BY PopsToFresh, FreshGrant
<1>2. Layered(Kept(times, k)) /\ Layered(Append(Kept(times, k), 0))
  BY LayeredSuffix, LayeredGrant
<1>3. CASE Len(Kept(times, k)) < Limit
  <2>1. times' = Append(Kept(times, k), 0)
    BY <1>3
  <2>2. Fresh(times') = Append(Fresh(times), 0) /\ Len(Fresh(times)) < Limit
    BY <1>1, <1>3, <2>1
  <2> QED
    BY <1>2, <2>1, <2>2 DEF Rolling!Grant
<1>4. CASE ~(Len(Kept(times, k)) < Limit)
  <2>1. times' = Kept(times, k)
    BY <1>4
  <2>2. Fresh(times') = Fresh(times)
    BY <1>1, <2>1
  <2> QED
    BY <1>2, <2>1, <2>2
<1> QED
  BY <1>3, <1>4

\* So does every step but that of the clock.
LEMMA WindowMoves ==
    ASSUME Layered(times), NEW r, Progress(r) \/ Disconnect(r)
    PROVE  Layered(times') /\ (Rolling!Grant \/ UNCHANGED Fresh(times))
<1>1. CASE UNCHANGED times
  BY <1>1
<1>2. CASE WaitIfBlocked(r)
  BY <1>1, <1>2, AcquireGrants DEF WaitIfBlocked
<1>3. CASE Acquire(r)
  BY <1>3, AcquireGrants
<1> QED
  BY <1>1, <1>2, <1>3
  DEF Progress, Arrive, Enter, Retry, WakeUp, BackOff, RateLimited, RetryAltered, Fail,
      Answer, Finish, Disconnect, limiterVars

\* The calls upstream are those that a strict rolling window grants, however late
\* stale entries are dropped, and whoever fails, backs off or goes away.
THEOREM ImplementsRollingWindowHolds == Spec => ImplementsRollingWindow
<1>1. Init => Layered(times) /\ Rolling!Init
  <2> SUFFICES ASSUME times = <<>> PROVE Layered(times) /\ Fresh(times) = <<>>
    BY DEF Init, Rolling!Init
  <2> QED
    BY LayeredEmpty
<1>2. Layered(times) /\ [Next]_vars => Layered(times)' /\ [Rolling!Next]_(Fresh(times))
  <2> SUFFICES ASSUME Layered(times), [Next]_vars
               PROVE  Layered(times)' /\ [Rolling!Next]_(Fresh(times))
    OBVIOUS
  <2>1. CASE Tick
    <3>1. times' = Aged(times)
      BY <2>1 DEF Tick
    <3>2. Rolling!Tick
      BY <3>1, FreshAged DEF Rolling!Tick
    <3> QED
      BY <3>1, <3>2, LayeredAged DEF Rolling!Next
  <2>2. CASE UNCHANGED vars
    BY <2>2 DEF vars, limiterVars
  <2> QED
    BY <2>1, <2>2, WindowMoves DEF Next, Rolling!Next
<1> QED
  BY <1>1, <1>2, PTL DEF Spec, ImplementsRollingWindow, Rolling!Spec
=============================================================================
