SPECIFICATION Spec
CONSTANTS
    Roles <- MCRoles
    BootSupport = "bootsupport"
    Requests <- RetryRequests
    ScriptEffects <- RetryEffects
    Machines <- RetryMachines
    MaxAttempts = 1
    MaxFaults = 2
INVARIANTS
    PurgeOnlyAfterMutation
CHECK_DEADLOCK FALSE
