\* One price edited twice, two decisions, a run, a worker's death.
\* The bounds end every behaviour, so a state without a successor is no deadlock.
CONSTANTS
    v1 = v1
    v2 = v2
    a1 = a1
    a2 = a2
    e1 = e1
    e2 = e2
    Variants <- OneVariant
    Edits <- TwoEdits
    Answerers <- TwoAnswerers
    Weak = {}
    MaxEvents = 2
    MaxEdits = 2
    MaxRuns = 1
    MaxCrashes = 1
SPECIFICATION Spec
SYMMETRY Symmetric
VIEW View
INVARIANTS EveryEditIsAsked NoFalseAlarm HoldIsAQuestion
PROPERTIES AnswersStand KeptWasShown
CHECK_DEADLOCK FALSE
