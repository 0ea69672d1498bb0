CONSTANTS
    n1 = n1
    n2 = n2
    n3 = n3
    n4 = n4
    Nodes = {n1, n2, n3}
    Root = n1
    NoNode = NoNode
    Commands = {"stopall", "clearall"}
SPECIFICATION FairSpec
CHECK_DEADLOCK FALSE
INVARIANTS
    NothingInLimbo
PROPERTIES
    QueuedIsServed
