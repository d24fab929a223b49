\* The bounds end every behaviour, so a state without a successor is no deadlock.
CONSTANTS
    r1 = r1
    r2 = r2
    Prices <- MCPrices
    SaleOf <- MCSaleOf
    Recaptures <- TwoRecaptures
    Weak = {}
    MaxEdits = 1
    MaxRuns = 2
    MaxTroubles = 1
SPECIFICATION Spec
SYMMETRY Symmetry
VIEW View
INVARIANTS BaselineIsTheMerchants NoSaleLeftUp SaidTruly
PROPERTIES AsksBeforeCompounding
CHECK_DEADLOCK FALSE
