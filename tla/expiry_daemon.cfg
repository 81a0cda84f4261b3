SPECIFICATION FairSpec
CONSTANTS
    Users = {u1}
    Behaviours <- DisableOrDelete
    RemindBefore = {1}
    ExtendBy = 1
    Window = 2
    Spans = {1}
    Overlap = FALSE
    MaxTime = 2
    MaxFailures = 1
    MaxCrashes = 1
    None = None
INVARIANT NoRepeats
PROPERTIES ActsOnWhatIsStored  ExpiriesAreServed
CHECK_DEADLOCK FALSE
