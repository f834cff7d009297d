SPECIFICATION Spec
CONSTANTS
    Shards = {"s0", "s1"}
    MaxBatch = 3
    MaxObservers = 2
INVARIANTS ReplyFitsTogether MissingIsExplained
PROPERTIES AnsweredOnce
