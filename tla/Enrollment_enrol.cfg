SPECIFICATION Spec
CONSTANTS
    v1 = v1
    v2 = v2
    w1 = w1
    w2 = w2
    Variants <- MCVariants
    Workers <- MCWorkers
    Overtaken = FALSE
    MaxEdits = 2
    MaxPresses = 3
    MaxTroubles = 1
INVARIANTS NothingForgotten
PROPERTIES NoSaleAfterRevert EventuallyPriced
CHECK_DEADLOCK FALSE
