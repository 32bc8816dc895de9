SPECIFICATION Spec
CONSTANTS
    Paths = {1, 2}
    Gone = {2}
    Selections <- MCSelections
    MaxApplies = 1
    MaxRestores = 0
    MaxEdits = 0
    MaxFaults = 1
INVARIANT
    RolledBackIsComplete
\* Once the bounds are used up the machine rests.
CHECK_DEADLOCK FALSE
