SPECIFICATION IMSpec
CONSTANTS
    Uuids = {u1, u2}
    MaxSettled = 2
    KillReaps = FALSE
CHECK_DEADLOCK FALSE
INVARIANT IMInv
PROPERTIES
    PendingStaysDown
    DeleteCompletes
    ExitIsOrderly
