-------------------------- MODULE CliSessionsProofs --------------------------
(***************************************************************************)
(* Proofs about the pool of CLI sessions, for any number of runs and any   *)
(* kind of interruption.  The inductive invariant says where a task and    *)
(* its session are with respect to the lock, the maps and the process.     *)
(***************************************************************************)
EXTENDS CliSessions, TLAPS

\* Of two that hold or wait for the lock, exactly one came before the other.
LockOrder ==
    /\ \A w \in Actors : ahead[w] \subseteq lockQ \ {w}
    /\ \A w \in Actors : w \notin lockQ => ahead[w] = {}
    /\ \A w \in lockQ, v \in lockQ : w # v => (w \in ahead[v] <=> v \notin ahead[w])

\* Who is at the lock, and who has it.
AtLock ==
    /\ \A t \in Tasks : t \in lockQ <=> pc[t] \in {"getting", "registering", "leaving", "stopping"}
    /\ \A t \in Tasks : pc[t] = "stopping" => ahead[t] = {}
    /\ Sweeper \in lockQ <=> sweep # "idle"
    /\ sweep = "stopping" => ahead[Sweeper] = {}

\* What a task's position says of its process and generator.
ProcFollows ==
    \A t \in Tasks :
        /\ pc[t] \in {"idle", "getting", "spawning"} => proc[t] = "none"
        /\ pc[t] \in {"halting", "stopping"} => proc[t] \in {"term", "killed", "dead"}
        /\ pc[t] \in {"reading", "registering", "draining"} => proc[t] # "none"
        /\ pc[t] \in {"reading", "registering", "draining"} => generator[t] = "open"
        /\ pc[t] \in {"reading", "registering", "draining"} /\ proc[t] = "running" => registered[t]
        /\ known[t] = "real" => proc[t] # "none"
        /\ shielded[t] \/ target = t => proc[t] \in {"term", "killed", "dead"}

\* Where the sessions of the maps are, and that a removal is interrupted by a global
\* stop that is still to empty the maps, or is known as interrupted.
MapsFollow ==
    \A t \in Tasks :
        /\ t \in pending => known[t] = "temp"
        /\ t \in sessions \cup tempToReal \cup realToTemp => known[t] = "real"
        /\ pc[t] \in {"idle", "getting"} => known[t] = "none"
        /\ t \in Managed => pc[t] # "stopping"
        /\ t \in Managed /\ pc[t] = "done" => Sweeper \in lockQ \/ t \in interrupted
        /\ t \in tempToReal \cup realToTemp /\ t \notin sessions =>
            pc[t] = "stopping" \/ (pc[t] = "done" /\ (Sweeper \in lockQ \/ t \in interrupted))
        /\ cancelReq[t] /\ pc[t] \in {"leaving", "stopping"} =>
            t \in ahead[Sweeper] \/ t \in interrupted
        /\ cancelReq[t] => pc[t] # "done" /\ pc[t] # "idle"

\* The sessions with a real id whose process lives are still on stop_all's list.
SweepFollows ==
    sweep = "stopping" => \A t \in sessions : Alive(t) => t \in toStop \cup {target}

\* A removal that /stop can interrupt is that of a run without a session id, whose
\* process is dead; any other interrupted removal is the work of /clear.
NodeFollows ==
    \A t \in Tasks :
        /\ t \in inProgress => ~cancelReq[t] /\ pc[t] \in Interruptible \cup {"leaving", "done"}
        /\ t \in inProgress /\ pc[t] = "leaving" => known[t] = "temp" /\ proc[t] = "dead"
        /\ t \in interrupted => pc[t] \in {"leaving", "stopping", "done"}
        /\ t \in interrupted \ dropped =>
            pc[t] # "stopping" /\ known[t] = "temp" /\ proc[t] = "dead"

PoolInv ==
    /\ TypeOK /\ LockOrder /\ AtLock /\ ProcFollows /\ MapsFollow /\ SweepFollows
    /\ NodeFollows

-----------------------------------------------------------------------------
(* The lock.                                                               *)

\* Taking a place, taking the lock, and giving either up keep the order of arrival.
LEMMA LockStep ==
    ASSUME TypeOK, LockOrder, NEW w \in Actors,
           \/ Hold(w) /\ (w \in lockQ \/ lockQ = {})
           \/ Wait(w)
           \/ Release(w)
    PROVE  /\ LockOrder'
           /\ lockQ' \subseteq Actors
           /\ ahead' \in [Actors -> SUBSET Actors]
<1>1. CASE Hold(w) /\ (w \in lockQ \/ lockQ = {})
  BY <1>1 DEF Hold, LockOrder, TypeOK
<1>2. CASE Wait(w)
  BY <1>2 DEF Wait, LockOrder, TypeOK
<1>3. CASE Release(w)
  BY <1>3 DEF Release, LockOrder, TypeOK
<1> QED
  BY <1>1, <1>2, <1>3

\* Only one can be first in line.
LEMMA OneHolder ==
    ASSUME LockOrder, NEW w \in Actors, NEW v \in Actors, HasLock(w), HasLock(v)
    PROVE  w = v
BY DEF LockOrder, HasLock

\* A task that gives up its place changes nobody else's position at the lock.
LEMMA OthersWait ==
    ASSUME TypeOK, NEW w \in Actors, Hold(w) \/ Wait(w) \/ Release(w)
    PROVE  \A v \in Actors \ {w} :
              /\ v \in lockQ' <=> v \in lockQ
              /\ ahead[v] = {} => ahead'[v] = {}
              /\ \A u \in Actors \ {w} : u \in ahead[v] => u \in ahead'[v]
BY DEF TypeOK, Hold, Wait, Release

-----------------------------------------------------------------------------
(* The removal of a session.                                               *)

\* What the actions that end in a removal do besides.
Unwinds(t) ==
    /\ cancelReq' \in [Tasks -> BOOLEAN] /\ ~cancelReq'[t]
    /\ generator' \in [Tasks -> {"none", "open", "abandoned", "closed"}]
    /\ registered' \in [Tasks -> BOOLEAN]
    /\ shielded' \in [Tasks -> BOOLEAN] /\ (shielded'[t] => shielded[t])
    /\ \A u \in Tasks \ {t} :
        /\ cancelReq'[u] = cancelReq[u] /\ generator'[u] = generator[u]
        /\ registered'[u] = registered[u] /\ shielded'[u] = shielded[u]
    /\ inProgress' \subseteq inProgress
    /\ t \in inProgress' => known[t] = "temp" /\ proc[t] = "dead"
    /\ UNCHANGED <<known, sweep, toStop, target, dropped, interrupted>>

\* A removal that gets the lock at once keeps the invariant.
LEMMA RemoveStep ==
    ASSUME PoolInv, NEW t \in Tasks, RemoveNow(t), Unwinds(t),
           \/ /\ pc[t] \in {"spawning", "reading", "registering", "draining", "halting"}
              /\ lockQ \ {t} = {}
           \/ pc[t] = "leaving" /\ HasLock(t)
    PROVE  PoolInv'
<1> USE NamesAssumption DEF Actors
<1>1. /\ t \in Actors /\ Sweeper \in Actors /\ t # Sweeper
      /\ Hold(t) \/ Release(t)
      /\ t \in lockQ \/ lockQ = {}
      /\ ahead[t] = {}
  BY DEF RemoveNow, HasLock, PoolInv, LockOrder
<1>2. LockOrder' /\ lockQ' \subseteq Actors /\ ahead' \in [Actors -> SUBSET Actors]
  BY <1>1, LockStep DEF PoolInv
<1>3. \A v \in Actors \ {t} :
          /\ v \in lockQ' <=> v \in lockQ
          /\ ahead[v] = {} => ahead'[v] = {}
          /\ \A u \in Actors \ {t} : u \in ahead[v] => u \in ahead'[v]
  BY <1>1, OthersWait DEF PoolInv
<1>4. TypeOK'
  BY <1>2 DEF PoolInv, TypeOK, RemoveNow, Unwinds, Phases, ProcStates
<1>5. AtLock'
  <2>1. t \in lockQ' <=> pc'[t] = "stopping"
    BY <1>1, <1>2 DEF RemoveNow, Hold, Release, PoolInv, TypeOK
  <2>2. pc'[t] = "stopping" => ahead'[t] = {}
    BY <1>1 DEF RemoveNow, Hold, PoolInv, TypeOK
  <2>3. pc'[t] \in {"stopping", "done"} /\ \A u \in Tasks \ {t} : pc'[u] = pc[u]
    BY DEF RemoveNow, PoolInv, TypeOK
  <2> QED
    BY <1>1, <1>3, <2>1, <2>2, <2>3 DEF AtLock, PoolInv, Unwinds
<1>6. ProcFollows'
  BY DEF ProcFollows, PoolInv, TypeOK, RemoveNow, Unwinds, Alive, ProcStates
<1>7. MapsFollow'
  <2>1. \A u \in Tasks \ {t} : pc'[u] = pc[u] /\ (u \in lockQ' <=> u \in lockQ)
    BY <1>3 DEF RemoveNow, PoolInv, TypeOK
  <2>2. Sweeper \in lockQ' <=> Sweeper \in lockQ
    BY <1>1, <1>3
  <2>3. pc'[t] \in {"stopping", "done"}
    BY DEF RemoveNow, PoolInv, TypeOK
  <2>4. t \notin pending' \cup sessions'
    BY DEF RemoveNow, PoolInv, MapsFollow
  <2>5. pc'[t] = "done" => t \notin tempToReal' \cup realToTemp'
    BY DEF RemoveNow, PoolInv, MapsFollow, TypeOK
  <2>6. /\ pending' \subseteq pending /\ sessions' \subseteq sessions
        /\ tempToReal' \subseteq tempToReal /\ realToTemp' \subseteq realToTemp
        /\ \A u \in Tasks \ {t} : u \in sessions' <=> u \in sessions
    BY DEF RemoveNow
  <2> QED
    BY <1>1, <1>3, <2>1, <2>2, <2>3, <2>4, <2>5, <2>6
    DEF MapsFollow, PoolInv, Unwinds, Managed
<1>8. SweepFollows'
  BY DEF SweepFollows, PoolInv, TypeOK, RemoveNow, Unwinds, Alive
<1>9. NodeFollows'
  <2>1. pc'[t] \in {"stopping", "done"} /\ \A u \in Tasks \ {t} : pc'[u] = pc[u]
    BY DEF RemoveNow, PoolInv, TypeOK
  <2>2. proc[t] = "dead" => pc'[t] = "done" /\ proc'[t] = "dead"
    BY DEF RemoveNow, PoolInv, TypeOK, Alive
  <2>3. \A u \in Tasks \ {t} : proc'[u] = proc[u]
    BY DEF RemoveNow, PoolInv, TypeOK
  <2> QED
    BY <2>1, <2>2, <2>3 DEF NodeFollows, PoolInv, TypeOK, Unwinds, Interruptible
<1> QED
  BY <1>2, <1>4, <1>5, <1>6, <1>7, <1>8, <1>9 DEF PoolInv

\* A handler's finally clause keeps the invariant, whether or not it has to wait.
LEMMA LeaveStep ==
    ASSUME PoolInv, NEW t \in Tasks, Leave(t), Unwinds(t),
           pc[t] \in {"spawning", "reading", "registering", "draining", "halting"}
    PROVE  PoolInv'
<1> USE NamesAssumption DEF Actors
<1>1. CASE lockQ \ {t} = {}
  BY <1>1, RemoveStep DEF Leave
<1>2. CASE lockQ \ {t} # {}
  <2>1. /\ pc' = [pc EXCEPT ![t] = "leaving"] /\ Wait(t)
        /\ UNCHANGED <<proc, pending, sessions, tempToReal, realToTemp>>
    BY <1>2 DEF Leave, mapVars
  <2>2. t \in Actors /\ Sweeper \in Actors /\ t # Sweeper
    OBVIOUS
  <2>3. LockOrder' /\ lockQ' \subseteq Actors /\ ahead' \in [Actors -> SUBSET Actors]
    BY <2>1, <2>2, LockStep DEF PoolInv
  <2>4. \A v \in Actors \ {t} :
            /\ v \in lockQ' <=> v \in lockQ
            /\ ahead[v] = {} => ahead'[v] = {}
            /\ \A u \in Actors \ {t} : u \in ahead[v] => u \in ahead'[v]
    BY <2>1, <2>2, OthersWait DEF PoolInv
  <2>5. TypeOK'
    BY <2>1, <2>3 DEF PoolInv, TypeOK, Unwinds, Phases
  <2>6. AtLock'
    BY <2>1, <2>2, <2>4 DEF AtLock, PoolInv, TypeOK, Unwinds, Wait
  <2>7. ProcFollows'
    BY <2>1 DEF ProcFollows, PoolInv, TypeOK, Unwinds
  <2>8. MapsFollow'
    BY <2>1, <2>2, <2>4 DEF MapsFollow, PoolInv, TypeOK, Unwinds, Managed
  <2>9. SweepFollows'
    BY <2>1 DEF SweepFollows, PoolInv, Unwinds, Alive
  <2>10. NodeFollows'
    BY <2>1 DEF NodeFollows, PoolInv, TypeOK, Unwinds, Interruptible
  <2> QED
    BY <2>3, <2>5, <2>6, <2>7, <2>8, <2>9, <2>10 DEF PoolInv
<1> QED
  BY <1>1, <1>2

-----------------------------------------------------------------------------
(* The other steps of a task.                                              *)

\* A session is made by a task that has the lock or finds it free.
LEMMA CreateStep ==
    ASSUME PoolInv, NEW t \in Tasks, Create(t),
           inProgress' \in {inProgress, inProgress \cup {t}}, UNCHANGED <<dropped, interrupted>>,
           \/ pc[t] = "idle" /\ lockQ = {}
           \/ pc[t] = "getting" /\ HasLock(t) /\ ~cancelReq[t]
    PROVE  PoolInv'
<1> USE NamesAssumption DEF Actors
<1>1. t \in Actors /\ Sweeper \in Actors /\ t # Sweeper /\ Release(t)
  BY DEF Create
<1>2. LockOrder' /\ lockQ' \subseteq Actors /\ ahead' \in [Actors -> SUBSET Actors]
  BY <1>1, LockStep DEF PoolInv
<1>3. \A v \in Actors \ {t} :
          /\ v \in lockQ' <=> v \in lockQ
          /\ ahead[v] = {} => ahead'[v] = {}
          /\ \A u \in Actors \ {t} : u \in ahead[v] => u \in ahead'[v]
  BY <1>1, OthersWait DEF PoolInv
<1>4. TypeOK'
  BY <1>2 DEF PoolInv, TypeOK, Create, Phases, procVars, sweepVars
<1>5. AtLock'
  BY <1>1, <1>3 DEF AtLock, PoolInv, TypeOK, Create, Release, sweepVars
<1>6. ProcFollows'
  BY DEF ProcFollows, PoolInv, TypeOK, Create, procVars, sweepVars
<1>7. MapsFollow'
  BY <1>1, <1>3 DEF MapsFollow, PoolInv, TypeOK, Create, Managed
<1>8. SweepFollows'
  BY DEF SweepFollows, PoolInv, Create, Alive, procVars, sweepVars
<1>9. NodeFollows'
  BY DEF NodeFollows, MapsFollow, PoolInv, TypeOK, Create, Interruptible, procVars
<1> QED
  BY <1>2, <1>4, <1>5, <1>6, <1>7, <1>8, <1>9 DEF PoolInv

\* A session is registered by a task that has the lock or finds it free; so stop_all
\* is not in the middle of its loop.
LEMMA RegisterStep ==
    ASSUME PoolInv, NEW t \in Tasks, RegisterNow(t), ~cancelReq[t],
           UNCHANGED <<cancelReq, generator, shielded, procVars, sweepVars, dropped, interrupted>>,
           \/ pc[t] = "reading" /\ lockQ = {}
           \/ pc[t] = "registering" /\ HasLock(t)
    PROVE  PoolInv'
<1> USE NamesAssumption DEF Actors
<1>1. t \in Actors /\ Sweeper \in Actors /\ t # Sweeper /\ Release(t)
  BY DEF RegisterNow
<1>2. LockOrder' /\ lockQ' \subseteq Actors /\ ahead' \in [Actors -> SUBSET Actors]
  BY <1>1, LockStep DEF PoolInv
<1>3. \A v \in Actors \ {t} :
          /\ v \in lockQ' <=> v \in lockQ
          /\ ahead[v] = {} => ahead'[v] = {}
          /\ \A u \in Actors \ {t} : u \in ahead[v] => u \in ahead'[v]
  BY <1>1, OthersWait DEF PoolInv
<1>4. TypeOK'
  BY <1>2 DEF PoolInv, TypeOK, RegisterNow, TakeRealId, Phases, procVars, sweepVars, mapVars
<1>5. AtLock'
  BY <1>1, <1>3 DEF AtLock, PoolInv, TypeOK, RegisterNow, Release, sweepVars
<1>6. ProcFollows'
  BY DEF ProcFollows, PoolInv, TypeOK, RegisterNow, TakeRealId, procVars, sweepVars
<1>7. MapsFollow'
  BY <1>1, <1>3 DEF MapsFollow, PoolInv, TypeOK, RegisterNow, TakeRealId, Managed, mapVars
<1>8. sweep # "stopping"
  BY <1>1, OneHolder DEF PoolInv, AtLock, HasLock
<1>9. SweepFollows'
  BY <1>8 DEF SweepFollows, sweepVars
<1>10. NodeFollows'
  BY DEF NodeFollows, PoolInv, TypeOK, RegisterNow, TakeRealId, Interruptible, procVars
<1> QED
  BY <1>2, <1>4, <1>5, <1>6, <1>7, <1>9, <1>10 DEF PoolInv

\* A task that joins the line for the lock in get_or_create_session or in
\* register_real_session_id.
LEMMA JoinStep ==
    ASSUME PoolInv, NEW t \in Tasks, Wait(t), NEW p \in {"getting", "registering"},
           pc' = [pc EXCEPT ![t] = p], t \notin lockQ,
           IF p = "getting" THEN pc[t] = "idle" ELSE pc[t] = "reading" /\ ~cancelReq[t],
           inProgress' \in {inProgress, inProgress \cup {t}}, UNCHANGED <<dropped, interrupted>>,
           UNCHANGED <<cancelReq, known, generator, shielded, procVars, mapVars, sweepVars>>
    PROVE  PoolInv'
<1> USE NamesAssumption DEF Actors, procVars, mapVars, sweepVars
<1>1. t \in Actors /\ Sweeper \in Actors /\ t # Sweeper
  OBVIOUS
<1>2. LockOrder' /\ lockQ' \subseteq Actors /\ ahead' \in [Actors -> SUBSET Actors]
  BY <1>1, LockStep DEF PoolInv
<1>3. \A v \in Actors \ {t} :
          /\ v \in lockQ' <=> v \in lockQ
          /\ ahead[v] = {} => ahead'[v] = {}
          /\ \A u \in Actors \ {t} : u \in ahead[v] => u \in ahead'[v]
  BY <1>1, OthersWait DEF PoolInv
<1>4. TypeOK'
  BY <1>2 DEF PoolInv, TypeOK, Phases
<1>5. AtLock'
  BY <1>1, <1>3 DEF AtLock, PoolInv, TypeOK, Wait
<1>6. ProcFollows'
  BY DEF ProcFollows, PoolInv, TypeOK
<1>7. MapsFollow'
  BY <1>1, <1>3 DEF MapsFollow, PoolInv, TypeOK, Managed
<1>8. SweepFollows'
  BY DEF SweepFollows, PoolInv, Alive
<1>9. NodeFollows'
  BY DEF NodeFollows, MapsFollow, PoolInv, TypeOK, Interruptible
<1> QED
  BY <1>2, <1>4, <1>5, <1>6, <1>7, <1>8, <1>9 DEF PoolInv

\* A task that gives up its place at the lock and ends: a cancelled one, or one whose
\* removal is over.
LEMMA EndStep ==
    ASSUME PoolInv, NEW t \in Tasks, Release(t),
           pc[t] \in {"getting", "leaving", "stopping"}, pc' = [pc EXCEPT ![t] = "done"],
           cancelReq' \in [Tasks -> BOOLEAN], ~cancelReq'[t],
           registered' \in [Tasks -> BOOLEAN],
           \A u \in Tasks \ {t} : cancelReq'[u] = cancelReq[u] /\ registered'[u] = registered[u],
           tempToReal' \subseteq tempToReal, realToTemp' \subseteq realToTemp,
           \/ cancelReq[t]
           \/ pc[t] = "stopping" /\ t \notin tempToReal' \cup realToTemp',
           UNCHANGED <<known, generator, shielded, proc, pending, sessions, sweepVars, nodeVars>>
    PROVE  PoolInv'
<1> USE NamesAssumption DEF Actors, sweepVars, nodeVars
<1>1. t \in Actors /\ Sweeper \in Actors /\ t # Sweeper
  OBVIOUS
<1>2. LockOrder' /\ lockQ' \subseteq Actors /\ ahead' \in [Actors -> SUBSET Actors]
  BY <1>1, LockStep DEF PoolInv
<1>3. \A v \in Actors \ {t} :
          /\ v \in lockQ' <=> v \in lockQ
          /\ ahead[v] = {} => ahead'[v] = {}
          /\ \A u \in Actors \ {t} : u \in ahead[v] => u \in ahead'[v]
  BY <1>1, OthersWait DEF PoolInv
<1>4. TypeOK'
  BY <1>2 DEF PoolInv, TypeOK, Phases
<1>5. AtLock'
  BY <1>1, <1>3 DEF AtLock, PoolInv, TypeOK, Release
<1>6. ProcFollows'
  BY DEF ProcFollows, PoolInv, TypeOK
<1>7. cancelReq[t] /\ pc[t] # "getting" => Sweeper \in lockQ \/ t \in interrupted
  BY <1>1 DEF PoolInv, MapsFollow, LockOrder
<1>8. MapsFollow'
  BY <1>1, <1>3, <1>7 DEF MapsFollow, PoolInv, TypeOK, Managed
<1>9. SweepFollows'
  BY DEF SweepFollows, PoolInv, Alive
<1>10. NodeFollows'
  BY DEF NodeFollows, PoolInv, TypeOK, Interruptible
<1> QED
  BY <1>2, <1>4, <1>5, <1>6, <1>8, <1>9, <1>10 DEF PoolInv

-----------------------------------------------------------------------------
(* stop_all.                                                               *)

\* stop_all takes its turn, or goes on to the next session, or ends.
LEMMA SweepStep ==
    ASSUME PoolInv, NEW left \in SUBSET Tasks, SweepOn(left),
           \/ sweep = "idle" /\ lockQ = {}
           \/ sweep \in {"waiting", "stopping"} /\ HasLock(Sweeper),
           \A t \in sessions : Alive(t) => t \in left,
           registered' \in [Tasks -> BOOLEAN],
           \A t \in Tasks : registered'[t] # registered[t] => proc[t] # "running",
           cancelReq' \in [Tasks -> BOOLEAN],
           \A t \in Tasks : cancelReq'[t] # cancelReq[t] =>
              pc[t] \in {"getting", "spawning", "reading", "registering", "draining", "halting"},
           inProgress' \subseteq inProgress, \A t \in inProgress' : ~cancelReq'[t],
           UNCHANGED <<pc, known, generator, shielded, dropped, interrupted>>
    PROVE  PoolInv'
<1> USE NamesAssumption DEF Actors
<1>1. /\ Sweeper \in Actors
      /\ Hold(Sweeper) \/ Release(Sweeper)
      /\ Sweeper \in lockQ \/ lockQ = {}
      /\ ahead[Sweeper] = {}
  BY DEF SweepOn, StopOne, EmptyPool, HasLock, PoolInv, LockOrder
<1>2. LockOrder' /\ lockQ' \subseteq Actors /\ ahead' \in [Actors -> SUBSET Actors]
  BY <1>1, LockStep DEF PoolInv
<1>3. \A v \in Tasks :
          /\ v \in lockQ' <=> v \in lockQ
          /\ ahead[v] = {} => ahead'[v] = {}
  BY <1>1, OthersWait DEF PoolInv
<1>4. CASE StopOne(left)
  <2>1. PICK t \in left : /\ Alive(t)
                          /\ proc' = [proc EXCEPT ![t] = IF @ = "running" THEN "term" ELSE @]
                          /\ sweep' = "stopping" /\ target' = t
                          /\ \E passed \in SUBSET {u \in left : ~Alive(u)} :
                                toStop' = left \ ({t} \cup passed)
                          /\ Hold(Sweeper)
                          /\ UNCHANGED mapVars
    BY <1>4 DEF StopOne
  <2>2. TypeOK'
    BY <1>2, <2>1 DEF PoolInv, TypeOK, ProcStates, mapVars
  <2>3. AtLock'
    BY <1>1, <1>3, <2>1 DEF AtLock, PoolInv, TypeOK, Hold
  <2>4. ProcFollows'
    BY <2>1 DEF ProcFollows, PoolInv, TypeOK, Alive
  <2>5. \A u \in Tasks : cancelReq[u] /\ pc[u] \in {"leaving", "stopping"} => u \in interrupted
    BY <1>1 DEF PoolInv, MapsFollow
  <2>6. MapsFollow'
    BY <1>1, <1>3, <2>1, <2>5 DEF MapsFollow, PoolInv, TypeOK, Managed, mapVars, Hold
  <2>7. SweepFollows'
    BY <2>1 DEF SweepFollows, PoolInv, TypeOK, Alive, mapVars
  <2>8. NodeFollows'
    BY <2>1 DEF NodeFollows, PoolInv, TypeOK, Alive
  <2> QED
    BY <1>2, <2>2, <2>3, <2>4, <2>6, <2>7, <2>8 DEF PoolInv
<1>5. CASE EmptyPool
  <2>1. TypeOK'
    BY <1>2, <1>5 DEF PoolInv, TypeOK, EmptyPool
  <2>2. AtLock'
    BY <1>1, <1>3, <1>5 DEF AtLock, PoolInv, TypeOK, EmptyPool, Release
  <2>3. ProcFollows'
    BY <1>5 DEF ProcFollows, PoolInv, TypeOK, EmptyPool
  <2>4. \A u \in Tasks : cancelReq[u] /\ pc[u] \in {"leaving", "stopping"} => u \in interrupted
    BY <1>1 DEF PoolInv, MapsFollow
  <2>5. MapsFollow'
    BY <1>5, <2>4 DEF MapsFollow, PoolInv, TypeOK, Managed, EmptyPool
  <2>6. SweepFollows'
    BY <1>5 DEF SweepFollows, EmptyPool
  <2>7. NodeFollows'
    BY <1>5 DEF NodeFollows, PoolInv, TypeOK, EmptyPool
  <2> QED
    BY <1>2, <2>1, <2>2, <2>3, <2>5, <2>6, <2>7 DEF PoolInv
<1> QED
  BY <1>4, <1>5 DEF SweepOn

\* stop_all is called: it goes through the pool at once or joins the line.
LEMMA BeginStep ==
    ASSUME PoolInv, BeginStopAll,
           cancelReq' \in [Tasks -> BOOLEAN],
           \A t \in Tasks : cancelReq[t] => cancelReq'[t],
           \A t \in Tasks : cancelReq'[t] # cancelReq[t] => pc[t] \in Phases \ {"idle", "done"},
           inProgress' \subseteq inProgress, \A t \in inProgress' : ~cancelReq'[t],
           UNCHANGED <<pc, known, generator, shielded, registered, dropped, interrupted>>
    PROVE  PoolInv'
<1> USE NamesAssumption DEF Actors
<1>1. sweep = "idle" /\ Sweeper \notin lockQ /\ Sweeper \in Actors
  BY DEF BeginStopAll, PoolInv, AtLock
<1>2. CASE lockQ = {}
  <2>1. SweepOn(Managed) /\ Managed \subseteq Tasks
    BY <1>2 DEF BeginStopAll, PoolInv, TypeOK, Managed
  <2>2. \A t \in Tasks : pc[t] \notin {"leaving", "stopping"}
    BY <1>2 DEF PoolInv, AtLock
  <2>3. \A t \in Tasks : cancelReq'[t] # cancelReq[t] =>
          pc[t] \in {"getting", "spawning", "reading", "registering", "draining", "halting"}
    BY <2>2 DEF Phases
  <2>4. \A t \in sessions : Alive(t) => t \in Managed
    BY DEF Managed
  <2> QED
    BY <1>1, <1>2, <2>1, <2>3, <2>4, SweepStep DEF PoolInv, TypeOK
<1>3. CASE lockQ # {}
  <2>1. /\ sweep' = "waiting" /\ Wait(Sweeper)
        /\ UNCHANGED <<proc, pending, sessions, tempToReal, realToTemp, toStop, target>>
    BY <1>3 DEF BeginStopAll, mapVars
  <2>2. LockOrder' /\ lockQ' \subseteq Actors /\ ahead' \in [Actors -> SUBSET Actors]
    BY <1>1, <2>1, LockStep DEF PoolInv
  <2>3. \A v \in Tasks :
            /\ v \in lockQ' <=> v \in lockQ
            /\ ahead[v] = {} => ahead'[v] = {}
    BY <1>1, <2>1, OthersWait DEF PoolInv
  <2>4. TypeOK'
    BY <1>1, <2>1, <2>2 DEF PoolInv, TypeOK
  <2>5. AtLock'
    BY <1>1, <2>1, <2>3 DEF AtLock, PoolInv, TypeOK, Wait
  <2>6. ProcFollows'
    BY <2>1 DEF ProcFollows, PoolInv
  <2>7. ahead'[Sweeper] = lockQ /\ Sweeper \in lockQ'
    BY <1>1, <2>1 DEF Wait
  <2>8. MapsFollow'
    BY <2>1, <2>7 DEF MapsFollow, PoolInv, AtLock, TypeOK, Managed
  <2>9. SweepFollows'
    BY <2>1 DEF SweepFollows
  <2>10. NodeFollows'
    BY <2>1 DEF NodeFollows, PoolInv, TypeOK
  <2> QED
    BY <2>2, <2>4, <2>5, <2>6, <2>8, <2>9, <2>10 DEF PoolInv
<1> QED
  BY <1>2, <1>3

-----------------------------------------------------------------------------
(* The invariant.                                                          *)

LEMMA PoolInit == Init => PoolInv
<1> SUFFICES ASSUME Init PROVE PoolInv
  OBVIOUS
<1> USE DEF Init, Actors
<1>1. /\ cancelReq \in [Tasks -> BOOLEAN] /\ shielded \in [Tasks -> BOOLEAN]
      /\ registered \in [Tasks -> BOOLEAN]
  OBVIOUS
<1>2. TypeOK
  BY <1>1, NamesAssumption DEF TypeOK, Phases, ProcStates
<1>3. LockOrder /\ AtLock /\ SweepFollows
  BY NamesAssumption DEF LockOrder, AtLock, SweepFollows
<1>4. ProcFollows
  BY NamesAssumption DEF ProcFollows
<1>5. MapsFollow /\ NodeFollows
  BY DEF MapsFollow, Managed, NodeFollows
<1> QED
  BY <1>2, <1>3, <1>4, <1>5 DEF PoolInv

\* A step of a task.
LEMMA RunStep ==
    ASSUME PoolInv, NEW t \in Tasks, Start(t) \/ Run(t) \/ Output(t) \/ Interrupt(t)
    PROVE  PoolInv'
<1> USE NamesAssumption DEF Actors
<1>0. /\ pc[t] \in Phases /\ TypeOK
      /\ t \in lockQ <=> pc[t] \in {"getting", "registering", "leaving", "stopping"}
  BY DEF PoolInv, TypeOK, AtLock
<1>1. CASE Start(t)
  <2>1. CASE lockQ = {}
    BY <1>1, <2>1, CreateStep DEF Start
  <2>2. CASE lockQ # {}
    BY <1>0, <1>1, <2>2, JoinStep DEF Start, procVars, mapVars, sweepVars
  <2> QED
    BY <2>1, <2>2
<1>2. CASE Get(t)
  BY <1>2, CreateStep DEF Get, nodeVars
<1>3. CASE Spawn(t)
  <2> USE <1>3 DEF Spawn, mapVars, lockVars, sweepVars, nodeVars
  <2>1. TypeOK'
    BY DEF PoolInv, TypeOK, Phases, ProcStates
  <2>2. LockOrder' /\ AtLock'
    BY DEF PoolInv, TypeOK, LockOrder, AtLock
  <2>3. ProcFollows'
    BY DEF PoolInv, TypeOK, ProcFollows
  <2>4. MapsFollow' /\ SweepFollows'
    BY DEF PoolInv, TypeOK, MapsFollow, SweepFollows, ProcFollows, Managed, Alive
  <2>5. NodeFollows'
    BY DEF PoolInv, TypeOK, NodeFollows, Interruptible
  <2> QED
    BY <2>1, <2>2, <2>3, <2>4, <2>5 DEF PoolInv
<1>4. ASSUME Leave(t), EndGenerator(t) \/ AbandonGenerator(t),
             pc[t] \in {"spawning", "reading", "registering", "draining", "halting"},
             \/ UNCHANGED cancelReq /\ ~cancelReq[t]
             \/ cancelReq' = [cancelReq EXCEPT ![t] = FALSE],
             UNCHANGED shielded \/ shielded' = [shielded EXCEPT ![t] = FALSE],
             inProgress' \subseteq inProgress,
             t \in inProgress' => known[t] = "temp" /\ proc[t] = "dead",
             UNCHANGED <<known, sweepVars, dropped, interrupted>>
      PROVE  PoolInv'
  <2>1. Unwinds(t)
    BY <1>0, <1>4 DEF Unwinds, TypeOK, EndGenerator, AbandonGenerator, sweepVars
  <2> QED
    BY <1>4, <2>1, LeaveStep
<1>5. CASE SpawnFails(t)
  BY <1>4, <1>5 DEF SpawnFails, MarkError
<1>6. CASE Register(t)
  BY <1>6, RegisterStep DEF Register
<1>7. CASE Exit(t)
  <2>1. inProgress' \subseteq inProgress /\ (t \in inProgress' => known[t] = "temp" /\ proc[t] = "dead")
    BY <1>7 DEF Exit
  <2> QED
    BY <1>4, <1>7, <2>1 DEF Exit
<1>8. CASE EnterRemove(t)
  <2>1. Unwinds(t)
    BY <1>0, <1>8 DEF EnterRemove, Unwinds, TypeOK, PoolInv, NodeFollows, sweepVars, nodeVars
  <2> QED
    BY <1>8, <2>1, RemoveStep DEF EnterRemove
<1>9. CASE FinishRemove(t)
  <2>1. t \notin tempToReal' \cup realToTemp'
    BY <1>9 DEF FinishRemove, PoolInv, MapsFollow
  <2>2. registered' \in [Tasks -> BOOLEAN]
        /\ \A u \in Tasks \ {t} : registered'[u] = registered[u]
    BY <1>0, <1>9 DEF FinishRemove, TypeOK
  <2>3. tempToReal' \subseteq tempToReal /\ realToTemp' \subseteq realToTemp
    BY <1>9 DEF FinishRemove
  <2> QED
    BY <1>0, <1>9, <2>1, <2>2, <2>3, EndStep DEF FinishRemove, TypeOK
\* A task that is being halted, or has a cancellation on its way, is not in progress.
<1>18. pc[t] = "halting" \/ cancelReq[t] => t \notin inProgress
  BY DEF PoolInv, NodeFollows, Interruptible
<1>10. CASE Halted(t)
  BY <1>4, <1>10, <1>18 DEF Halted, nodeVars
<1>11. CASE SessionInfo(t)
  <2>1. CASE lockQ = {}
    BY <1>11, <2>1, RegisterStep DEF SessionInfo
  <2>2. CASE lockQ # {}
    BY <1>0, <1>11, <2>2, JoinStep DEF SessionInfo
  <2> QED
    BY <2>1, <2>2
<1>12. CASE EndOfOutput(t)
  <2> USE <1>12 DEF EndOfOutput, mapVars, lockVars, sweepVars, procVars, nodeVars
  <2>1. TypeOK'
    BY DEF PoolInv, TypeOK, Phases
  <2>2. LockOrder' /\ AtLock'
    BY DEF PoolInv, TypeOK, LockOrder, AtLock
  <2>3. ProcFollows'
    BY DEF PoolInv, TypeOK, ProcFollows
  <2>4. MapsFollow' /\ SweepFollows'
    BY DEF PoolInv, TypeOK, MapsFollow, SweepFollows, Managed, Alive
  <2>5. NodeFollows'
    BY DEF PoolInv, TypeOK, NodeFollows, Interruptible
  <2> QED
    BY <2>1, <2>2, <2>3, <2>4, <2>5 DEF PoolInv
<1>13. CASE HandlerFails(t)
  BY <1>4, <1>13 DEF HandlerFails, MarkError
<1>14. CASE CancelAtLock(t)
  <2>1. /\ cancelReq' \in [Tasks -> BOOLEAN] /\ registered' \in [Tasks -> BOOLEAN]
        /\ ~cancelReq'[t]
        /\ \A u \in Tasks \ {t} : cancelReq'[u] = cancelReq[u] /\ registered'[u] = registered[u]
    BY <1>0, <1>14 DEF CancelAtLock, Cancelled, TypeOK, procVars
  <2>2. /\ cancelReq[t] /\ Release(t)
        /\ tempToReal' \subseteq tempToReal /\ realToTemp' \subseteq realToTemp
        /\ pc[t] \in {"getting", "leaving", "stopping"} /\ pc' = [pc EXCEPT ![t] = "done"]
        /\ UNCHANGED <<known, generator, shielded, proc, pending, sessions, sweepVars, nodeVars>>
    BY <1>14 DEF CancelAtLock, Cancelled, procVars, mapVars
  <2> QED
    BY <2>1, <2>2, EndStep
<1>15. CASE CancelOutsideLoop(t)
  BY <1>4, <1>15, <1>18 DEF CancelOutsideLoop, Cancelled, nodeVars
<1>16. CASE CancelReading(t)
  <2>1. CASE ~Alive(t)
    BY <1>4, <1>16, <1>18, <2>1 DEF CancelReading, Cancelled, nodeVars
  <2>2. CASE Alive(t)
    <3> USE <1>16, <2>2 DEF CancelReading, Cancelled, mapVars, lockVars, sweepVars, nodeVars
    <3>1. TypeOK'
      BY DEF PoolInv, TypeOK, Phases, ProcStates
    <3>2. LockOrder' /\ AtLock'
      BY DEF PoolInv, TypeOK, LockOrder, AtLock
    <3>3. ProcFollows'
      BY DEF PoolInv, TypeOK, ProcFollows, Alive
    <3>4. MapsFollow' /\ SweepFollows'
      BY DEF PoolInv, TypeOK, MapsFollow, SweepFollows, Managed, Alive
    <3>5. NodeFollows'
      BY <1>18 DEF PoolInv, TypeOK, NodeFollows
    <3> QED
      BY <3>1, <3>2, <3>3, <3>4, <3>5 DEF PoolInv
  <2> QED
    BY <2>1, <2>2
<1>17. CASE CancelRegistering(t)
  BY <1>4, <1>17, <1>18 DEF CancelRegistering, Cancelled, nodeVars
<1>19. CASE ErrorEvent(t)
  <2> USE <1>19 DEF ErrorEvent, MarkError, taskVars, procVars, mapVars, lockVars, sweepVars
  <2>1. TypeOK' /\ LockOrder' /\ AtLock' /\ ProcFollows'
    BY DEF PoolInv, TypeOK, LockOrder, AtLock, ProcFollows
  <2>2. MapsFollow' /\ SweepFollows' /\ NodeFollows'
    BY DEF PoolInv, MapsFollow, SweepFollows, NodeFollows, Managed, Alive
  <2> QED
    BY <2>1, <2>2 DEF PoolInv
<1> QED
  BY <1>1, <1>2, <1>3, <1>5, <1>6, <1>7, <1>8, <1>9, <1>10, <1>11, <1>12, <1>13, <1>14,
     <1>15, <1>16, <1>17, <1>19
  DEF Run, Output, Interrupt

\* Every step keeps the invariant.
LEMMA PoolStep == PoolInv /\ [Next]_vars => PoolInv'
<1> SUFFICES ASSUME PoolInv, [Next]_vars PROVE PoolInv'
  OBVIOUS
<1> USE NamesAssumption DEF Actors
<1>0. TypeOK
  BY DEF PoolInv
\* Steps that leave positions, maps and lock alone.
<1>1. ASSUME UNCHANGED <<pc, known, mapVars, lockVars, sweepVars, nodeVars>>,
             TypeOK', ProcFollows', cancelReq' = cancelReq,
             \A t \in Tasks : (Alive(t)' => Alive(t)) /\ (proc[t] = "dead" => proc'[t] = "dead")
      PROVE  PoolInv'
  <2> USE <1>1 DEF mapVars, lockVars, sweepVars, nodeVars
  <2>1. LockOrder' /\ AtLock'
    BY DEF PoolInv, LockOrder, AtLock
  <2>2. MapsFollow'
    BY DEF PoolInv, MapsFollow, Managed
  <2>3. SweepFollows'
    BY DEF PoolInv, TypeOK, SweepFollows
  <2>4. NodeFollows'
    BY DEF PoolInv, NodeFollows
  <2> QED
    BY <2>1, <2>2, <2>3, <2>4 DEF PoolInv
<1>2. ASSUME NEW t \in Tasks, Start(t) \/ Run(t) \/ Output(t) \/ Interrupt(t)
      PROVE  PoolInv'
  BY <1>2, RunStep
<1>3. ASSUME NEW t \in Tasks, StopTask(t) \/ ClearTree(t) PROVE PoolInv'
  <2>1. /\ CancelTask(t) /\ pc[t] \notin {"idle", "done"}
        /\ dropped' \in SUBSET Tasks /\ dropped \subseteq dropped'
        /\ dropped' \subseteq dropped \cup {t}
        /\ t \in dropped' \/ t \in inProgress
    BY <1>0, <1>3 DEF StopTask, ClearTree, Started, TypeOK
  <2> USE <2>1 DEF CancelTask, procVars, mapVars, lockVars, sweepVars
  <2>2. TypeOK' /\ LockOrder' /\ AtLock' /\ SweepFollows'
    BY DEF PoolInv, TypeOK, LockOrder, AtLock, SweepFollows, Alive
  <2>3. ProcFollows' /\ MapsFollow'
    BY DEF PoolInv, TypeOK, ProcFollows, MapsFollow, Managed
  <2>4. NodeFollows'
    BY DEF PoolInv, TypeOK, NodeFollows, Interruptible
  <2> QED
    BY <2>2, <2>3, <2>4 DEF PoolInv
<1>4. ASSUME NEW t \in Tasks, CloseGenerator(t) PROVE PoolInv'
  <2> USE <1>4 DEF CloseGenerator, EndGenerator, mapVars, lockVars, sweepVars, nodeVars
  <2>1. TypeOK' /\ ProcFollows'
    BY DEF PoolInv, TypeOK, ProcFollows
  <2> QED
    BY <1>1, <2>1 DEF Alive
<1>5. ASSUME NEW t \in Tasks, BackgroundStopped(t) PROVE PoolInv'
  <2> USE <1>5 DEF BackgroundStopped, mapVars, lockVars, sweepVars, nodeVars
  <2>1. TypeOK' /\ ProcFollows'
    BY DEF PoolInv, TypeOK, ProcFollows
  <2> QED
    BY <1>1, <2>1 DEF Alive
<1>6. ASSUME NEW t \in Tasks, KillTimeout(t) PROVE PoolInv'
  <2> USE <1>6 DEF KillTimeout, taskVars, mapVars, lockVars, sweepVars, nodeVars
  <2>1. TypeOK' /\ ProcFollows'
    BY DEF PoolInv, TypeOK, ProcFollows, ProcStates
  <2>2. \A u \in Tasks : (Alive(u)' => Alive(u)) /\ (proc[u] = "dead" => proc'[u] = "dead")
    BY <1>0 DEF Alive, TypeOK
  <2> QED
    BY <1>1, <2>1, <2>2
<1>7. ASSUME NEW t \in Tasks, ProcessExits(t) PROVE PoolInv'
  <2> USE <1>7 DEF ProcessExits, taskVars, mapVars, lockVars, sweepVars, nodeVars
  <2>1. TypeOK' /\ ProcFollows'
    BY DEF PoolInv, TypeOK, ProcFollows, ProcStates, Alive
  <2>2. \A u \in Tasks : (Alive(u)' => Alive(u)) /\ (proc[u] = "dead" => proc'[u] = "dead")
    BY <1>0 DEF Alive, TypeOK
  <2> QED
    BY <1>1, <2>1, <2>2
<1>8. CASE StopAllTasks
  <2>1. PICK unwinding \in SUBSET {t \in Tasks \ dropped : pc[t] \in {"halting", "leaving", "stopping"}} :
          cancelReq' = [t \in Tasks |-> cancelReq[t] \/ pc[t] \in Interruptible \/ t \in unwinding]
    BY <1>8 DEF StopAllTasks
  <2>2. /\ cancelReq' \in [Tasks -> BOOLEAN]
        /\ \A t \in Tasks : cancelReq[t] => cancelReq'[t]
    BY <2>1 DEF Interruptible
  <2>3. /\ \A t \in Tasks : cancelReq'[t] # cancelReq[t] => pc[t] \in Phases \ {"idle", "done"}
        /\ inProgress' = {} /\ UNCHANGED <<dropped, interrupted>>
    BY <1>0, <1>8, <2>1 DEF StopAllTasks, Interruptible, Phases, TypeOK
  <2> QED
    BY <1>8, <2>2, <2>3, BeginStep DEF StopAllTasks
<1>13. \A t \in inProgress : t \in Tasks /\ ~cancelReq[t]
  BY DEF PoolInv, TypeOK, NodeFollows
<1>9. CASE Shutdown
  <2>1. inProgress' = inProgress /\ cancelReq' = cancelReq /\ UNCHANGED <<dropped, interrupted>>
    BY <1>9 DEF Shutdown, taskVars, nodeVars
  <2> QED
    BY <1>0, <1>9, <1>13, <2>1, BeginStep DEF Shutdown, TypeOK, taskVars
<1>10. CASE EnterStopAll
  <2>1. Managed \subseteq Tasks /\ \A t \in sessions : Alive(t) => t \in Managed
    BY <1>0 DEF TypeOK, Managed
  <2> QED
    BY <1>0, <1>10, <1>13, <2>1, SweepStep DEF EnterStopAll, TypeOK, taskVars, nodeVars
<1>11. CASE StopNext
  <2>1. /\ HasLock(Sweeper)
        /\ \A t \in sessions : Alive(t) => t \in toStop
        /\ registered' \in [Tasks -> BOOLEAN]
        /\ \A t \in Tasks : registered'[t] # registered[t] => proc[t] # "running"
        /\ SweepOn(toStop) /\ toStop \in SUBSET Tasks /\ sweep = "stopping"
    BY <1>0, <1>11 DEF StopNext, PoolInv, SweepFollows, AtLock, HasLock, Alive, TypeOK
  <2> QED
    BY <1>0, <1>11, <1>13, <2>1, SweepStep DEF StopNext, TypeOK, taskVars, nodeVars
<1>12. CASE UNCHANGED vars
  <2> USE <1>12 DEF vars, taskVars, procVars, mapVars, lockVars, sweepVars, nodeVars
  <2>1. TypeOK' /\ ProcFollows'
    BY DEF PoolInv, TypeOK, ProcFollows
  <2> QED
    BY <1>1, <2>1 DEF Alive
<1> QED
  BY <1>2, <1>3, <1>4, <1>5, <1>6, <1>7, <1>8, <1>9, <1>10, <1>11, <1>12 DEF Next

-----------------------------------------------------------------------------
(* What follows for every run of the program.                              *)

\* The invariant holds whatever the runs, interruptions and stops.
THEOREM PoolInvariant == Spec => []PoolInv
BY PoolInit, PoolStep, PTL DEF Spec

\* The variables of the pool always have their types.
THEOREM TypeCorrect == Spec => []TypeOK
<1>1. PoolInv => TypeOK
  BY DEF PoolInv
<1> QED
  BY <1>1, PoolInvariant, PTL

\* A finished run leaves nothing in the pool (messaging/handler.py's finally clause),
\* unless a global stop that interrupted it has not ended, or /stop or /clear cancelled
\* it in that clause; /stop then leaves a pending session of a run without session id.
THEOREM SlotFreedHolds == Spec => []SlotFreed
<1>1. PoolInv => SlotFreed
  BY DEF PoolInv, MapsFollow, NodeFollows, SlotFreed, Managed
<1> QED
  BY <1>1, PoolInvariant, PTL

\* No process that the pool holds runs on without anyone to stop it, unless /clear of
\* its tree cancelled its removal.
THEOREM NoRunawayHolds == Spec => []NoRunaway
<1>1. PoolInv => NoRunaway
  <2> SUFFICES ASSUME PoolInv, NEW t \in Tasks, proc[t] = "running", t \in Managed,
                      pc[t] # "leaving", Sweeper \notin lockQ,
                      t \notin interrupted \cap dropped
               PROVE  pc[t] \in {"reading", "registering", "draining"} /\ registered[t]
    BY DEF NoRunaway
  <2>1. pc[t] \in {"reading", "registering", "draining"}
    BY DEF PoolInv, TypeOK, Phases, ProcFollows, MapsFollow, NodeFollows
  <2> QED
    BY <2>1 DEF PoolInv, ProcFollows
<1> QED
  BY <1>1, PoolInvariant, PTL

\* When stop_all empties the maps, no session with a real id has a live process.
THEOREM SweepIsThoroughHolds == Spec => SweepIsThorough
<1>1. PoolInv /\ [Next]_vars =>
        [sweep # "idle" /\ sweep' = "idle" => \A t \in sessions : ~Alive(t)]_vars
  <2> SUFFICES ASSUME PoolInv, Next, sweep # "idle", sweep' = "idle"
               PROVE  \A t \in sessions : ~Alive(t)
    BY DEF vars, sweepVars
  <2>1. EnterStopAll \/ StopNext
    BY DEF Next, Run, Output, Interrupt, Start, Create, Get, Spawn, SpawnFails, Register,
           RegisterNow, Exit, EnterRemove, FinishRemove, Halted, SessionInfo, EndOfOutput,
           HandlerFails, CancelAtLock, CancelOutsideLoop, CancelReading, CancelRegistering,
           Cancelled, StopTask, ClearTree, CancelTask, ErrorEvent, CloseGenerator, BackgroundStopped, KillTimeout, ProcessExits,
           StopAllTasks, Shutdown, BeginStopAll, sweepVars
  <2>2. CASE EnterStopAll
    BY <2>2 DEF EnterStopAll, SweepOn, StopOne, Managed
  <2>3. CASE StopNext
    BY <2>3 DEF StopNext, SweepOn, StopOne, PoolInv, SweepFollows, Alive
  <2> QED
    BY <2>1, <2>2, <2>3
<1> QED
  BY <1>1, PoolInvariant, PTL DEF Spec, SweepIsThorough
===============================================================================
