\* Redis may stall: the shutdown sleep does not wait for the batches.
CONSTANTS
    Workers = {w1}
    Keys = {k1, k2}
    CanonOf <- MCCanonOf
    ChanCap = 2
    PipelineSize = 3
    GraceTicks = 2
    MaxRetries = 0
    CommandsPerTick = 0
    RedisMayFail = FALSE
    MaxQuotes = 2
    MaxFaults = 0
SPECIFICATION Spec
INVARIANT DrainedAtExit
