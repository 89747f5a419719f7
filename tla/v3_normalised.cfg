\* The claim of the documentation that every quote of the V3 connector is normalised.
SPECIFICATION Spec
CONSTANTS
    Pools <- MCPools
    Tokens <- MCTokens
    Chain <- MCChain
    WETH = "weth"
    Stables <- MCStables
    Rank <- MCRank
    Files <- MCFiles
    StopOnAckError = TRUE
    MaxBackoff = 4
    BufCap = 1
    MaxSessions = 2
    MaxEvents = 2
INVARIANT Normalised
CHECK_DEADLOCK FALSE
