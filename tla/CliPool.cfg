\* Two runs of the CLI and every way to interrupt them; liveness, so no symmetry.
SPECIFICATION FairSpec
CONSTANTS
    Tasks = {t1, t2}
    Sweeper = sweeper
    NoTask = none
    Commands = {"stop", "stopall", "clear", "shutdown"}
INVARIANTS
    SlotFreed
    NoRunaway
PROPERTIES
    SweepIsThorough
    NothingHangs
CHECK_DEADLOCK FALSE
