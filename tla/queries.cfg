SPECIFICATION QueriesSpec
CONSTANTS
    AllAccounts <- Accounts3
    UserRequests <- SomeUserRequests
    LogRequests <- SomeLogRequests
    Limits = {1}
    Kinds <- TwoKinds
    Zone = 1
    DayLength = 2
    KeepCount = 1
    MaxAge = 1
    MaxActivities = 3
    MaxHour = 3
    MaxChanges = 1
    NotGiven = NotGiven
    u = u
    r = r
INVARIANT SoundWalks
PROPERTIES NewestAreKept LogIsTrimmed
CHECK_DEADLOCK FALSE
