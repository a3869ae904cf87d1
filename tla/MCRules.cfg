SPECIFICATION RuleSpec
CONSTANTS
    EventIds <- MCEventIds
    Segments <- MCSegments
    EventSegments <- MCSegments
    IdSegments <- MCIdSegments
    Uuids <- MCUuids
    Plugins <- MCPlugins
    Docs <- MCDocs
    Wanted <- MCWanted
    PanelDocs <- MCPanelDocs
    InstanceDocs <- MCInstanceDocs
    HostEvents <- MCHostEvents
    Packs <- MCPacks
    Rows <- MCRows
    Tuning <- MCTuning
    Hour = 12
    MaxPublishDepth = 3
    MaxRules = 4
    MaxClock = 2
    MaxCalls = 3
CHECK_DEADLOCK FALSE
INVARIANTS
    DispatchInv
    RulesAreServed
PROPERTIES
    FiresAreSpaced
    EveryPublishReturns
