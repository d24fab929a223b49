\* The bounds end every behaviour, so a state without a successor is no deadlock.
CONSTANTS
    w1 = w1
    w2 = w2
    Workers <- TwoWorkers
    Windows <- TwoWindows
    MaxAttempts = 2
    Horizon = 4
    Overlaps = FALSE
    MaxMoves = 1
    MaxPresses = 1
    MaxTroubles = 2
SPECIFICATION Spec
INVARIANTS DatesStand
PROPERTIES StartedOnce RunsByItself
CHECK_DEADLOCK FALSE
