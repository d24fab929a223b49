\* Two runs beside two changes by others, two seconds of two ticks.
\* The bounds end every behaviour, so a state without a successor is no deadlock.
CONSTANTS
    Prices <- AllPrices
    PerSecond = 2
    Weak = {}
    MaxTime = 3
    MaxRuns = 2
    MaxEdits = 2
SPECIFICATION Spec
VIEW View
INVARIANTS MirrorFollows
PROPERTIES NothingIsUndone
CHECK_DEADLOCK FALSE
