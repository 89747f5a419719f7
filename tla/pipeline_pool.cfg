\* Two workers, odd pipeline size; attempts fail and are repeated.
CONSTANTS
    Workers = {w1, w2}
    Keys = {k1, k2}
    CanonOf <- MCCanonOf
    ChanCap = 2
    PipelineSize = 3
    GraceTicks = 1
    MaxRetries = 1
    CommandsPerTick = 0
    RedisMayFail = TRUE
    MaxQuotes = 3
    MaxFaults = 2
SPECIFICATION Spec
SYMMETRY PoolSymmetry
INVARIANT TypeOK
INVARIANT WholeQuotes
INVARIANT QuotesAccounted
INVARIANT SettledStore
PROPERTY SameWorkerOrder
