SPECIFICATION Spec
CONSTANTS
    Configs <- AllConfigs
    NumShards = 1
    Meta = 1
    Gens = {0, 1, 2, 3, 4}
    Nil = Nil
    NotCached = NotCached
    Statuses <- TwoStatuses
    NonceMod = 8
    SyncThreshold = 2
    ReloadDuringRound = TRUE
INVARIANTS HeldOnce ListedOnce ReloadedIsSafe
CHECK_DEADLOCK FALSE
