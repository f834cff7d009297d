SPECIFICATION Spec
CONSTANTS
    FailureThreshold = 1
    RecoveryTimeout = 1
    HalfOpenMaxCalls = 1
    SuccessThreshold = 1
    AgeCap = 2
    o1 = o1
    o2 = o2
    Lists <- Rotations
    Worlds <- BothWorlds
    Callers = {c1, c2}
SYMMETRY Symmetry
INVARIANTS NoSecondSend SuccessIsAnswered DeadObserverIsSkipped GoodRequestsServed
