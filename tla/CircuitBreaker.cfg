SPECIFICATION BreakerFairSpec
CONSTANTS
    FailureThreshold = 3
    RecoveryTimeout = 2
    HalfOpenMaxCalls = 2
    SuccessThreshold = 2
    AgeCap = 3
    Requesters = {c1, c2, c3}
    Free = Free
    Answers = {"ok", "error"}
INVARIANTS HalfOpenAccounting NeverWedged ClosedOnShortStreak
PROPERTIES OpensOnlyOnStreak StaleAdmissionRefused Recovery
