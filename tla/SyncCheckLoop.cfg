SPECIFICATION LoopSpec
CONSTANTS
    Observers = {o1, o2}
    FullHistory = {f1}
    Delay = 2
    CleanupPeriod = 3
    MaxCleanup = 1
INVARIANTS RoundsKeepComing StopsSoon
PROPERTIES OfflineIsFollowedUp CleanupRuns CloseEnds
