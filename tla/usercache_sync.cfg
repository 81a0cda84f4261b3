SPECIFICATION MCSpec
CONSTANTS
    Readers = {r1, r2}
    Goroutines = {g1, g2}
    MaxVersion = 2
    MaxFailures = 1
    MaxTroubles = 1
    None = None
INVARIANTS OneAtATime 
PROPERTIES ListMovesForward EveryCallReturns
CHECK_DEADLOCK FALSE
