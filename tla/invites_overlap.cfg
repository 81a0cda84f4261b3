SPECIFICATION FairSpec
CONSTANTS
    Codes = {c1}
    Requests = {r1, r2}
    Editors = {e1}
    NoInvite = NoInvite
    MaxUses = 2
    MaxActive = 3
    MaxCrashes = 1
INVARIANT SoundRecords
PROPERTY ExpiredSwept
CHECK_DEADLOCK FALSE
