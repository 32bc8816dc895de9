SPECIFICATION DeliverySpec
CONSTANTS
    Builds <- MCPreparers
    BldRequests <- MCBldRequests
    LastCommit = 2
    MaxBldFaults = 1
    MaxSenFaults = 2
    MaxSenEdits = 1
    c1 = c1
    r1 = r1
    r2 = r2
    Procs <- MCProcs
    Nobody = Nobody
    LastRelease = 2
    Pinned = 1
    MaxConcurrent = 1
    MaxCommands = 3
    MaxCacheFaults = 2
    ImgAdapters = {"ubuntu", "fedora", "debian", "elementary", "arch"}
    MaxSilent = 1
    MaxErrors = 2
    Preparers <- MCPreparers
    Vacant = Vacant
    Outsider = Outsider
    LastImage = 2
    ImageBlocks = {2, 3}
    PartLimit = 2
    MaxRelEdits = 1
    MaxRelFaults = 1
    UsrTargets = 2
    MaxUsrFaults = 2
    MaxUsrEdits = 1
    Roles <- MCRoles
    BootSupport = "bootsupport"
    Requests <- RetryRequests
    ScriptEffects <- RetryEffects
    Machines <- RetryMachines
    MaxAttempts = 2
    MaxFaults = 2
    Packagers <- MCPreparers
    NoRelease = NoRelease
    Stranger = Stranger
    LastBuild = 2
    MaxPkgEdits = 1
    MaxPkgFaults = 1
CHECK_DEADLOCK FALSE
SYMMETRY Symmetry
INVARIANTS
    BundleOfOneRelease EntriesAreWhole
    PromisesKept NothingOfItsOwnRefused
    ReleaseIsOfOneImage AnswerIsTrue
    OriginalsSaved FailureRestores ReceiptTells
    BuiltIsAsked ResultTells
    CrashLeftoverNeedsOverwrite
     
