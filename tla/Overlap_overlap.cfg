\* The bounds end every behaviour, so a state without a successor is no deadlock.
CONSTANTS
    c1 = c1
    c2 = c2
    c3 = c3
    h1 = h1
    h2 = h2
    Campaigns <- Two
    Rank <- RankOfTwo
    Hands <- TwoHands
    Weak = {}
    MaxRuns = 5
    MaxEdits = 2
    MaxMoves = 1
    MaxTroubles = 1
SPECIFICATION Spec
VIEW View
SYMMETRY Symmetry
INVARIANTS NothingOutranked SaleIsOn HoldHasItsQuestion
PROPERTIES EditsAttributed
CHECK_DEADLOCK FALSE
