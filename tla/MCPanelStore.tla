---------------------------- MODULE MCPanelStore ----------------------------
(* What is kept across a restart: the roster and the settings, the images,  *)
(* the place and the layout of a pet, the directory of all that. A behaviour *)
(* is about one of the four and the others stay as they start: the first    *)
(* three share no row of app.db, and it is opened once it has its place.    *)
(*                                                                          *)
(* Of the pet: two widths whose halves differ, two places (a resize at the  *)
(* left one leads off the screen), a layout besides the fresh one.          *)
EXTENDS PanelStore, AssetStore, PetLayout, ConfigMigration

VARIABLE part

MCPlaces == {0, 3}
MCWidths == {2, 4}
MCLayouts == {"fresh", "edited"}
MCDials == {"full", "faint"}
MCConfigs == [x : {3}, w : {2}, layout : {"edited"}, dial : {"faint"}]

StoreInit ==
    /\ part \in {"roster", "images", "pet", "directory"}
    /\ PSInit /\ ASInit /\ LayoutInit /\ ConfigInit
    /\ part # "roster" => faults = {}
    /\ part # "images" => assetFaults = {}
    /\ part # "directory" => legacy = "none" /\ configFaults = {}

StoreNext ==
    \/ part = "roster" /\ PSNext /\ UNCHANGED <<asVars, layoutVars, configVars, part>>
    \/ part = "images" /\ ASNext /\ UNCHANGED <<vars, layoutVars, configVars, part>>
    \/ part = "pet" /\ LayoutNext /\ UNCHANGED <<vars, asVars, configVars, part>>
    \/ part = "directory" /\ ConfigNext /\ UNCHANGED <<vars, asVars, layoutVars, part>>

StoreSpec == StoreInit /\ [][StoreNext]_<<vars, asVars, layoutVars, configVars, part>>

(* Settings survive: in their row, and with it the move of the directory.   *)
ConfigurationIsKept == SettingsAreKept /\ MigrationIsSafe
=============================================================================
