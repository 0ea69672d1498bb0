\* Two tool calls and three parts in any order, with an error anywhere.
SPECIFICATION Spec
CONSTANTS
    Tools = {t1, t2}
    NoName = NoName
    MaxChunks = 3
INVARIANTS
    TaskInOnePiece
    NeverEmpty
PROPERTIES
    ImplementsClientStream
CHECK_DEADLOCK FALSE
