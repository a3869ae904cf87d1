SPECIFICATION ISSpec
CONSTANTS
    MaxPosted = 2
    MaxAttempts = 1
    MaxArmed = 1
    HasIdleMotions = TRUE
INVARIANT ISInv
PROPERTIES
    StopContractHolds
    DrivesProcessManager
    IsManagedSession
    RestartIsExecuted
