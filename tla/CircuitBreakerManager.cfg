SPECIFICATION FairSpec
CONSTANTS
    FailureThreshold = 2
    RecoveryTimeout = 0
    HalfOpenMaxCalls = 1
    SuccessThreshold = 1
    AgeCap = 1
    StaleMultiplier = 1
    Observers = {o1}
    Callers = {c1, c2}
    Ids = {1, 2, 3}
    None = None
INVARIANTS TypeOK OneBreakerPerObserver FailuresAreCounted
PROPERTIES CleanupForgetsOnlyLate RequestsReturn
