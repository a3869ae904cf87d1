SPECIFICATION RendererSpec
CONSTANTS
    kFramesInFlight = 2
    kReadbackRingSize = 3
    AcquireResults <- MCAcquire
    PresentResults <- MCPresent
    SubmitMayFail = TRUE
    MayLackTail = {1}
    kMaxQueueSize = 2
    MaxDrained = 1
    MaxReceived = 3
    ValidationLayers = TRUE
    Files = {"shared", "own", "broken"}
    Broken = {"broken"}
    Models = {"a", "b", "c"}
    Startup = "a"
    HasMoc <- MCHasMoc
    TexturesOf <- MCTexturesOf
    MaxFailures = 2
    MaxSpare = 4
PROPERTY DrawingGapEnds
CHECK_DEADLOCK FALSE
