SPECIFICATION Spec
CONSTANTS
    Roles <- MCRoles
    BootSupport = "bootsupport"
    Requests <- MCRequests
    ScriptEffects <- MCScriptEffects
    Machines <- MCMachines
    MaxAttempts = 1
    MaxFaults = 2
INVARIANTS
    SuccessIsBootable
    CleanRollbackRestores
    FailedInstallReturnsHooks
    FallbackTreeIsBound
PROPERTIES
    TransactionEnds
CHECK_DEADLOCK FALSE
