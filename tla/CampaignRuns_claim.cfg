SPECIFICATION FairSpec
CONSTANTS
    f1 = f1
    f2 = f2
    f3 = f3
    s1 = s1
    s2 = s2
    Full <- OneFull
    Scoped <- OneScoped
    FalseReclaim = FALSE
    Faults = FALSE
    Movers = TRUE
    MaxCrashes = 1
VIEW Distinct
CHECK_DEADLOCK FALSE
INVARIANTS ClaimExcludesScoped ReturnedRunsAreOver NoClaimLeftBehind
PROPERTIES StatusMoves RowsSpec
