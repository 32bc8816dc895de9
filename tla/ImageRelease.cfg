SPECIFICATION ImgSpec
CONSTANTS
    ImgAdapters = {"ubuntu", "fedora", "debian", "elementary", "arch"}
    MaxSilent = 0
    MaxErrors = 0
CHECK_DEADLOCK FALSE
INVARIANT CreatedJournalIsAccepted
