SPECIFICATION LocalSpec
CONSTANTS
    a = a
    b = b
    Devices = {a, b}
    NoDevice = NoDevice
    Fingerprint <- MCFingerprint
    Chunks = 2
    MaxRuns = 2
    MaxPlugs = 3
    MaxEdits = 1
    b1 = b1
    d1 = d1
    Radios <- MCRadios
    BuiltIn <- MCBuiltIn
    BtIndexes = {0, 1}
    Unlisted = Unlisted
    BtAttempts = 2
    MaxBtMoves = 2
    MaxBtFaults = 1
    r1 = r1
    r2 = r2
    Capturers <- MCUsers
    Nil = Nil
    Client = Client
    Routes = {1, 2}
    Settings = 2
    MaxCapEdits = 1
    MaxCapFaults = 1
    Updaters <- MCUsers
    NoUpdater = NoUpdater
    InstalledTags = {0, 1}
    LastTag = 2
    MaxUpdChanges = 1
    MaxUpdFaults = 1
CHECK_DEADLOCK FALSE
SYMMETRY Symmetry
INVARIANTS
    OnlyPlannedWritten NothingUntold VerifiedIsDurable
    AddressStaysPrivate
    OthersFilesKept 
    ExecutableRemains UpdateIsVerified
