SPECIFICATION Spec
CONSTANTS
    p1 = p1
    p2 = p2
    Publishers <- MCPublishers
    Nothing = Nothing
    Foreign = Foreign
    MaxMeddles = 2
    MaxLosses = 1
CHECK_DEADLOCK FALSE
SYMMETRY Symmetry
INVARIANTS EvidenceWithISO
PROPERTY AtomicImage
