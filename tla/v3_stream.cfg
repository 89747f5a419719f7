\* The V3 connector: two pools, two connections, a buffer of one frame.
SPECIFICATION Spec
CONSTANTS
    Pools <- MCPools
    Tokens <- MCTokens
    Chain <- MCChain
    WETH = "weth"
    Stables <- MCStables
    Rank <- MCRank
    Files <- MCFiles
    StopOnAckError = TRUE
    MaxBackoff = 4
    BufCap = 1
    MaxSessions = 2
    MaxEvents = 2
INVARIANT TypeOK
INVARIANT VerifiedRight
INVARIANT StablesAnchored
INVARIANT WethBest
PROPERTY SessionEnds
CHECK_DEADLOCK FALSE
