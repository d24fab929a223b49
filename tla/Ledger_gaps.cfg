\* All five gaps at once: what holds of the ledger all the same.
\* The bounds end every behaviour, so a state without a successor is no deadlock.
CONSTANTS
    Variants = {v1}
    Weak = {"answer", "look", "mirror", "reaper", "status"}
    MaxRuns = 2
    MaxEdits = 0
    MaxCrashes = 2
SPECIFICATION Spec
VIEW View
PROPERTIES LedgerMoves
CHECK_DEADLOCK FALSE
