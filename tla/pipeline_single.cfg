\* One worker, no failures: the store converges and implements QuoteStore,
\* and the backlog of several intervals is written before the exit.
CONSTANTS
    Workers = {w1}
    Keys = {k1, k2}
    CanonOf <- MCCanonOf
    ChanCap = 2
    PipelineSize = 3
    GraceTicks = 4
    MaxRetries = 0
    CommandsPerTick = 5
    RedisMayFail = FALSE
    MaxQuotes = 5
    MaxFaults = 0
SPECIFICATION FairSpec
INVARIANT DrainedAtExit
PROPERTY StoreSpec
PROPERTY Converges
