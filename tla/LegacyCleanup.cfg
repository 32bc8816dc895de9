SPECIFICATION Spec
CONSTANTS
    Rules <- MCRules
    Symlinks <- MCSymlinks
    MaxTransactions = 2
    MaxRestores = 2
    MaxFaults = 2
    MaxEdits = 1
INVARIANTS
    NothingLost
    RestoredMeansInPlace
PROPERTIES
    
    RunsEnd
CHECK_DEADLOCK FALSE
