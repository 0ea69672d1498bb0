CONSTANTS
    n1 = n1
    n2 = n2
    n3 = n3
    n4 = n4
    Nodes = {n1, n2, n3}
    Root = n1
    NoNode = NoNode
    Commands = {"stop", "clear"}
SPECIFICATION Spec
CHECK_DEADLOCK FALSE
SYMMETRY MCSymmetry
INVARIANTS
    OneAtATime
    ReplyAfterParent
    StoppedNeverCompletes
    DroppedTreeIsQuiet
    BusyIsWorkedOn
PROPERTIES
    ImplementsSerialQueue
