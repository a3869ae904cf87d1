SPECIFICATION ServerSideSpec
CONSTANTS
    Instances = {1, 2}
    Tokens = {"t"}
    MaxSockets = 2
    Origins = {"", "https://"}
    Frames <- MCFrames
    MaxOutgoing = 1
    NoToken = NoToken
    NoInstance = NoInstance
    Ids = {"c1"}
    MaxExpectations = 3
    MaxSlots = 2
    SessionHandlers = {"ready"}
INVARIANT LayerInv
PROPERTIES
    OnlyTheLatestCounts
    EveryExpectationEnds
\* The server may have been closed.
CHECK_DEADLOCK FALSE
