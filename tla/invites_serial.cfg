SPECIFICATION Spec
CONSTANTS
    Codes = {c1}
    Requests = {r1, r2, r3}
    Editors = {e1}
    NoInvite = NoInvite
    MaxUses = 2
    MaxActive = 1
    MaxCrashes = 0
SYMMETRY Visitors
INVARIANT SoundBooks
PROPERTY ImplementsLedger
CHECK_DEADLOCK FALSE
