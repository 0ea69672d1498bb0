\* Two notes on either platform; every message may be replied to by any number of
\* commands.
SPECIFICATION FairSpec
CONSTANTS
    n1 = n1
    n2 = n2
    Notes = {n1, n2}
    Platforms = {"telegram", "discord"}
CHECK_DEADLOCK FALSE
INVARIANTS
    ClearKeepsItsWord
    OnlyFailedStayPending
PROPERTIES
    EveryNoteSettles
