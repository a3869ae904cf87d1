SPECIFICATION BehaviourSpec
CONSTANTS
    ModelMotions = {"rest", "tap"}
    FileMotions = {"yawn", "nod", "broken"}
    Unreadable = {"broken"}
    Models = {"a", "b"}
    IdleOf <- MCIdleOf
    PackIdle = {"yawn"}
    PackMotions <- MCPackMotions
    PackPriority = 4
    TapOf <- MCTapOf
    UserMotions = {"tap"}
    MaxInFlight = 1
    MaxQueued = 3
INVARIANT BehaviourInv
PROPERTIES
    IdleNeverInterrupts
    PausedIsResumed
CHECK_DEADLOCK FALSE
