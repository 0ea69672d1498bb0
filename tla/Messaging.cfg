\* Three updates of two keys, one call in a window of two ticks, one retry;
\* liveness, so no symmetry.
SPECIFICATION FairSpec
CONSTANTS
    Keys = {k1, k2}
    MaxCalls = 3
    MaxRetries = 1
    Limit = 1
    Window = 2
    Pause = 2
INVARIANTS
    FuturesHeld
    DoneIsShown
PROPERTIES
    PauseRespected
    ImplementsRollingWindow
    EveryCallAnswered
