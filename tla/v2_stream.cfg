\* The V2 connector: one pool, two connections, a buffer of one event.
SPECIFICATION Spec
CONSTANTS
    Pools <- MCPools
    Chain <- MCChain
    Assets <- MCAssets
    FallbackStables <- MCFallbackStables
    FallbackWETH <- MCFallbackWETH
    Files <- MCFiles
    Hard <- MCHard
    Reserves <- MCReserves
    Tick = 4
    MaxBackoff = 2
    BufCap = 1
    MaxSessions = 2
    MaxEvents = 2
INVARIANT TypeOK
INVARIANT Oriented
INVARIANT PricedInMoney
INVARIANT NoDrift
INVARIANT OneReader
INVARIANT UsdHasEvent
PROPERTY BreakNoticed
PROPERTY RunReturns
CHECK_DEADLOCK FALSE
