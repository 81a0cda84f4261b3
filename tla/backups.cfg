SPECIFICATION FairSpec
CONSTANTS
    Makers = {daemon, admin}
    Versions = {v1, v2}
    Keep = 1
    MaxTime = 3
    MaxEdits = 1
    MaxRestores = 1
    MaxTroubles = 1
    None = None
 
PROPERTIES NewestOfVersionStays StartsServe
CHECK_DEADLOCK FALSE
