SPECIFICATION FairSpec
CONSTANTS
    Users = {u1, u2}
    Routes <- MCRoutes
    Ids = {i1}
    MaxSent = 2
    MaxLive = 1
    MaxEdits = 1
    MaxStops = 1
    None = None
INVARIANT SoundDispatch
PROPERTIES CancelledStaysGone EveryTurnComes
CHECK_DEADLOCK FALSE
