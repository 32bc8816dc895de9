SPECIFICATION Spec
CONSTANTS
    Paths = {1, 2}
    Gone = {2}
    Selections <- MCSelections
    MaxApplies = 2
    MaxRestores = 2
    MaxEdits = 0
    MaxFaults = 1
INVARIANT
    NoAmbiguousChain
\* Once the bounds are used up the machine rests.
CHECK_DEADLOCK FALSE
