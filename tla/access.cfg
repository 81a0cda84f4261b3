SPECIFICATION FairSpec
CONSTANTS
    Users = {u1, u2}
    Requests = {r1, r2}
    Pins = {p1}
    Admins = {u1}
    MaxRequests = 2
    MaxRefreshes = 1
    MaxTroubles = 1
    NoUser = NoUser
INVARIANTS SoundSessions BlankOnlyInTransit
PROPERTIES UsedUpStays EveryResetIsMailed
CHECK_DEADLOCK FALSE
