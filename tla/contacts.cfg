SPECIFICATION MCSpec
CONSTANTS
    Accounts = {a1, a2}
    Existing = {a1}
    Chats = {c1, c2}
    Pins = {p1, p2}
    Bots = {"telegram", "discord", "matrix"}
    Required = {"discord"}
    Unique = {"telegram", "discord", "matrix"}
    MaxEdits = 1
    MaxRequests = 2
    MaxRestarts = 1
    None = None
INVARIANTS SoundLinks 
PROPERTIES LinksHaveCause DeletedAreCleared
CHECK_DEADLOCK FALSE
