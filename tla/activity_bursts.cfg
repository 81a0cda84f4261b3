SPECIFICATION ActivitySpec
CONSTANTS
    Limit = 3
    Users = {u1}
    Callers = {c1, c2}
    MaxEvents = 5
    Burst = 3
    MaxFailures = 1
    Nil = Nil
SYMMETRY Alike
INVARIANT SoundCache
PROPERTIES SlicesFollowEnd ImplementsRecentEvents
CHECK_DEADLOCK FALSE
