SPECIFICATION Spec
CONSTANTS
    Shards = {"s0", "s1", "meta"}
    Meta = "meta"
    MaxObservers = 2
    FailsThreshold = 2
    FailsCap = 3
INVARIANTS SuccessCoversShards ActiveWins CacheFollowsRefreshes
