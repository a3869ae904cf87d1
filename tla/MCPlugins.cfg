SPECIFICATION BorderSpec
CONSTANTS
    Ids <- MCIds
    NoOne = 0
    Boots <- MCBoots
    Observers = {"a", "c"}
    OwnerOf <- MCOwnerOf
    Uuids = {"u1", "u2"}
    Pairs <- MCPairs
    Books <- MCBooks
    Paged = {1}
    Switched = {2}
    Watchers = {"a", "c"}
    Floored <- MCFloored
    Plugins = {"p", "q"}
    Host = "host"
    Instances = {"u"}
    Names = {"n"}
    HostHas <- MCHostHas
    Families = {"control", "tuning"}
    Granted <- MCGranted
    Modern = {"p"}
    Observing = {"q"}
    MaxDepth = 2
    MaxCalls = 2
INVARIANTS
    PluginInv
    RemovedIsForgotten
    MountIsRecorded
PROPERTY EveryRemainingIsTold
CHECK_DEADLOCK FALSE
