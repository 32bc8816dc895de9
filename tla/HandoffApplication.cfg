SPECIFICATION Spec
CONSTANTS
    Paths = {1, 2}
    Gone = {2}
    Selections <- MCSelections
    MaxApplies = 2
    MaxRestores = 2
    MaxEdits = 1
    MaxFaults = 2
INVARIANTS
    ContentKept
    RolledBackMeansRestored
    CrashWindowsReconcile
    RestoreCompletes
\* Once the bounds are used up the machine rests.
CHECK_DEADLOCK FALSE
