SPECIFICATION Spec
CONSTANTS
    i1 = i1
    i2 = i2
    p1 = p1
    p2 = p2
    Seed = Seed
    Importers <- MCImporters
    Purgers <- MCPurgers
    Size = 2
    MaxCommands = 3
    MaxEdits = 1
    MaxLosses = 1
SYMMETRY Symmetry
INVARIANTS WholeOrAbsent Converges
PROPERTY UncheckedKept
CHECK_DEADLOCK FALSE
