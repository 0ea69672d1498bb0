\* One tree of two nodes, two recorded ids and room for one, two timer threads, any
\* crash and any failing write; liveness, so no symmetry.
CONSTANTS
    r1 = r1
    n1 = n1
    m1 = m1
    m2 = m2
    m3 = m3
    t1 = t1
    t2 = t2
    NodeIds = {r1, n1}
    StatusIds = {}
    Roots = {r1}
    NoRoot = NoRoot
    Messages = {m1, m2}
    Cap = 1
    Timers = {t1, t2}
    Main = Main
    NoTimer = NoTimer
    Faults = {"crash", "failure"}
SPECIFICATION FairSpec
CHECK_DEADLOCK FALSE
INVARIANTS
    SavedIsCurrent
    LogIndexed
PROPERTIES
    QuietIsSaved
