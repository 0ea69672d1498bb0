\* Three requests, two stream slots, two calls in a window of two ticks, one retry;
\* liveness, so no symmetry.
SPECIFICATION FairSpec
CONSTANTS
    Requests = {r1, r2, r3}
    Transports = {"openai", "native"}
    Limit = 2
    Window = 2
    MaxConcurrency = 2
    MaxRetries = 1
    BaseDelay = 1
    MaxDelay = 2
    Jitter = 1
    Penalty = 3
INVARIANTS
    SlotsConserved
    FewSlipThrough
PROPERTIES
    ImplementsRollingWindow
    EveryRequestEnds
