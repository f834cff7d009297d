SPECIFICATION Spec
CONSTANTS
    Configs <- GoodConfigs
    NumShards = 1
    Meta = 1
    Gens = {0, 1, 2, 3, 4}
    Nil = Nil
    NotCached = NotCached
    Statuses <- SomeStatuses
    NonceMod = 8
    SyncThreshold = 2
    ReloadDuringRound = FALSE
INVARIANTS TypeOK
PROPERTIES SyncRule ImplementsRegistry
