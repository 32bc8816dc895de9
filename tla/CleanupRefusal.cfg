SPECIFICATION Spec
CONSTANTS
    Rules <- MCRules
    Symlinks <- MCSymlinks
    MaxTransactions = 2
    MaxRestores = 2
    MaxFaults = 2
    MaxEdits = 0
INVARIANTS
    RefusesOnlyChanged
CHECK_DEADLOCK FALSE
