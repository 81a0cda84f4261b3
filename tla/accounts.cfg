SPECIFICATION MCSpec
CONSTANTS
    Users = {u1, u2}
    Names <- TwoNames
    Addresses = {a1}
    Callers = {h1, h2}
    Importer = importer
    Daemon = housekeeping
    MaxCalls = 3
    Mixes <- EachTable
    MaxEvents = 2
    Nobody = Nobody
    NoAddr = NoAddr
SYMMETRY Alike
INVARIANTS SoundRows  SoundProfiles 
CHECK_DEADLOCK FALSE
