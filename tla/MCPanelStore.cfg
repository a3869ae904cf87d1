SPECIFICATION StoreSpec
CONSTANTS
    Uuids = {u1, u2}
    Fields = {closeAction, geometry}
    PanelFields = {closeAction}
    Values = {v1, v2}
    Default = v1
    Images = {cat, dog}
    IconOwners = {owner}
    MaxAssetId = 3
    Places <- MCPlaces
    Widths <- MCWidths
    Layouts <- MCLayouts
    Configs <- MCConfigs
    Fresh = "fresh"
    Dials <- MCDials
    FreshDial = "full"
    MaxEdits = 2
    MaxAsked = 1
    MaxLosses = 1
    MaxMoves = 3
    Panels = {p1, p2}
    Files = {db, row}
    Db = db
    NoPanel = NoPanel
PROPERTY ConfigurationIsKept
INVARIANTS
    RosterIsKept
    AssetUsesAreSound
    PetIsRestored
\* Every bound of the pet may be used up with the renderer gone.
CHECK_DEADLOCK FALSE
