----------------------------- MODULE SerialQueue -----------------------------
(***************************************************************************)
(* What a conversation tree promises about the order of its work: a server *)
(* that runs one job at a time and takes the waiting jobs in the order in  *)
(* which they were submitted.  A waiting job may be withdrawn, and the     *)
(* server closed.                                                          *)
(***************************************************************************)
EXTENDS Naturals, Sequences, FiniteSets

CONSTANTS
    Jobs,
    NoJob       \* not a job

VARIABLES
    submitted,  \* jobs handed in so far
    waiting,    \* those that wait, in order
    active,     \* the job that holds the server
    running,    \* the jobs that are being executed
    open        \* the server was not closed

jobVars == <<submitted, waiting, active, running, open>>

QueueInit ==
    submitted = {} /\ waiting = <<>> /\ active = NoJob /\ running = {} /\ open = TRUE

Submit(j) ==
    /\ open /\ j \notin submitted
    /\ submitted' = submitted \cup {j}
    /\ IF active = NoJob
         THEN active' = j /\ UNCHANGED waiting
         ELSE waiting' = Append(waiting, j) /\ UNCHANGED active
    /\ UNCHANGED <<running, open>>

\* The job that holds the server starts to execute.
Execute ==
    /\ open /\ active # NoJob /\ running = {}
    /\ running' = {active}
    /\ UNCHANGED <<submitted, waiting, active, open>>

\* The server passes from the active job, executed or not, to the next one.
Release ==
    /\ open /\ active # NoJob
    /\ running' = {}
    /\ IF waiting = <<>>
         THEN active' = NoJob /\ UNCHANGED waiting
         ELSE active' = Head(waiting) /\ waiting' = Tail(waiting)
    /\ UNCHANGED <<submitted, open>>

\* The jobs in a sequence, and which of them come before which.
JobsIn(q) == {q[i] : i \in DOMAIN q}
Before(q, j, k) == \E i, l \in DOMAIN q : i < l /\ q[i] = j /\ q[l] = k

\* Those of S that wait leave, and the others keep their order.
Withdraw(S) ==
    /\ waiting' \in Seq(Jobs) /\ JobsIn(waiting') = JobsIn(waiting) \ S
    /\ \A j, k \in JobsIn(waiting') : Before(waiting', j, k) => Before(waiting, j, k)
    /\ UNCHANGED <<submitted, active, running, open>>

\* The server is closed for good, and what it was doing is abandoned.
Close ==
    /\ open' = FALSE
    /\ waiting' = <<>> /\ active' = NoJob /\ running' = {}
    /\ UNCHANGED submitted

QueueNext ==
    \/ Execute \/ Release \/ Close
    \/ \E j \in Jobs : Submit(j)
    \/ \E S \in SUBSET Jobs : Withdraw(S)

QueueSpec == QueueInit /\ [][QueueNext]_jobVars

=============================================================================
