\* Three runs after one another, applies, reverts and resumes, beside somebody's edit
\* and a death.  The bounds end every behaviour, so a stopped state is no deadlock.
CONSTANTS
    Variants = {v1}
    Weak = {}
    MaxRuns = 3
    MaxEdits = 1
    MaxCrashes = 1
SPECIFICATION Spec
VIEW View
INVARIANTS MirrorHonest NothingWritesMeanwhile PendingIsUnsent
PROPERTIES ReportSpec
CHECK_DEADLOCK FALSE
