\* One venue through all delays of the supervisor.
CONSTANTS
    Venues = {bybit}
    ChanCap = 1
    MaxFrames = 2
    MaxSessions = 3
SPECIFICATION FairSpec
CHECK_DEADLOCK FALSE
PROPERTY Restarts
PROPERTY ShutsDown
