\* Two venues share a channel with room for one quote.
CONSTANTS
    Venues = {bybit, okx}
    ChanCap = 1
    MaxFrames = 2
    MaxSessions = 2
SPECIFICATION Spec
SYMMETRY VenueSymmetry
CHECK_DEADLOCK FALSE
INVARIANT TypeOK
INVARIANT OneLiveSession
INVARIANT VenueOrder
