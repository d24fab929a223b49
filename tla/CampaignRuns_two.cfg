SPECIFICATION Spec
CONSTANTS
    f1 = f1
    f2 = f2
    f3 = f3
    s1 = s1
    s2 = s2
    Full <- TwoFull
    Scoped <- NoScoped
    FalseReclaim = FALSE
    Faults = TRUE
    Movers = TRUE
    MaxCrashes = 1
VIEW Distinct
CHECK_DEADLOCK FALSE
SYMMETRY Symmetry
INVARIANT OneFullWriter
