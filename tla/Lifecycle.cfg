\* Three messages, in any tree, and the process is started up to three times.
SPECIFICATION LifeSpec
CONSTANTS
    n1 = n1
    n2 = n2
    n3 = n3
    Nodes = {n1, n2, n3}
    NoNode = NoNode
    Platforms = {"telegram", "discord"}
    Attempts = 3
    MaxStarts = 3
SYMMETRY MCSymmetry
CHECK_DEADLOCK FALSE
INVARIANTS
    WrittenIsRestored
    OpenNodesAreOurs
