\* The V4 connector: once mode, two runs, two connections, buffers of one frame.
SPECIFICATION Spec
CONSTANTS
    p1 = p1
    p2 = p2
    Pools <- MCPools
    Inline <- MCInline
    Files <- MCFiles
    WantedOnly = TRUE
    Once = TRUE
    StopOnAckError = FALSE
    AckRetryMax = 2
    BufCap = 1
    MaxDelay = 4
    MaxRuns = 2
    MaxSessions = 2
    MaxAnswers = 2
    MaxSwaps = 1
INVARIANT TypeOK
INVARIANT NotDeaf
INVARIANT OnceComplete
PROPERTY DelayHeld
PROPERTY WaitEnds
PROPERTY BreakNoticed
PROPERTY ReadersEnd
PROPERTY ShutsDown
CHECK_DEADLOCK FALSE
