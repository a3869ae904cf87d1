--------------------------- MODULE ConfigMigration ---------------------------
(* The one-time move of the configuration on Windows (ConfigDir, main.cpp,  *)
(* PanelApplication): a panel that boots copies the legacy directory into    *)
(* an empty new one and renames the legacy directory away, before it takes   *)
(* the lock of the single panel. So two launches can be in it at once, any   *)
(* copy or the rename can fail, and a panel can crash between two of them.   *)
(*                                                                           *)
(* A crash falls between two files: what a copy cut short leaves behind is   *)
(* the file system's. ensureDirectories() and the open of app.db succeed.    *)
EXTENDS Naturals, FiniteSets

CONSTANTS Panels,    \* processes
          Files,     \* files of the legacy directory
          Db,        \* app.db
          NoPanel

\* The panel opens app.db, whatever else the legacy directory holds.
ASSUME ConfigAssumption == Db \in Files /\ NoPanel \notin Panels

VARIABLES
    legacy,       \* the legacy directory: "here", "renamed" or "none"
    populated,    \* the new directory has an entry
    target,       \* its files: "absent", "copied", "updated" or "fresh"
    stage,        \* where each panel is in its boot
    left,         \* what its QDirIterator has not reached
    panelLock,    \* the holder of panel.lock
    configFaults, \* chosen once: which of ConfigFaults happen
    disturbed     \* history: one of them did

configVars == <<legacy, populated, target, stage, left, panelLock, configFaults, disturbed>>

Stages == {"off", "boot", "copying", "scaffold", "lock", "again", "recopying", "open",
           "running"}

\* A copy or rename fails, a panel crashes, panels boot at the same time, the
\* lock file cannot be made.
ConfigFaults == {"copy", "crash", "twice", "lock"}

ConfigTypeOK ==
    /\ legacy \in {"here", "renamed", "none"}
    /\ populated \in BOOLEAN
    /\ target \in [Files -> {"absent", "copied", "updated", "fresh"}]
    /\ stage \in [Panels -> Stages]
    /\ left \in [Panels -> SUBSET Files]
    /\ panelLock \in Panels \cup {NoPanel}
    /\ configFaults \subseteq ConfigFaults
    /\ disturbed \in BOOLEAN

\* The first boot of a panel that has the new layout.
ConfigInit ==
    /\ legacy \in {"here", "none"}
    /\ populated = FALSE
    /\ target = [f \in Files |-> "absent"]
    /\ stage = [p \in Panels |-> "off"]
    /\ left = [p \in Panels |-> {}]
    /\ panelLock = NoPanel
    /\ configFaults \in SUBSET ConfigFaults
    /\ disturbed = FALSE

Goes(p, from, to) == stage[p] = from /\ stage' = [stage EXCEPT ![p] = to]

Launch(p) ==
    /\ (\A q \in Panels : stage[q] = "off") \/ "twice" \in configFaults
    /\ Goes(p, "off", "boot")
    /\ disturbed' = (disturbed \/ \E q \in Panels : stage[q] \notin {"off", "running"})
    /\ UNCHANGED <<legacy, populated, target, left, panelLock, configFaults>>

-----------------------------------------------------------------------------
(* migrateLegacyIfNeeded(), of main() and, past the lock, of                 *)
(* PanelApplication once more.                                               *)

AfterMigration(s) == IF s \in {"boot", "copying"} THEN "scaffold" ELSE "open"
CopyStage(s) == IF s = "boot" THEN "copying" ELSE "recopying"
AtMigration(p) == stage[p] \in {"boot", "again"}
Walking(p) == stage[p] \in {"copying", "recopying"}

\* There is nothing to move, or the panel has run in the new directory before,
\* or the new directory cannot be made.
MigrationSkipped(p) ==
    /\ AtMigration(p) /\ Goes(p, stage[p], AfterMigration(stage[p]))
    /\ \/ legacy # "here" /\ UNCHANGED disturbed
       \/ populated /\ UNCHANGED disturbed
       \/ "copy" \in configFaults /\ disturbed' = TRUE
    /\ UNCHANGED <<legacy, populated, target, left, panelLock, configFaults>>

MigrationBegins(p) ==
    /\ legacy = "here" /\ ~populated
    /\ AtMigration(p) /\ Goes(p, stage[p], CopyStage(stage[p]))
    /\ left' = [left EXCEPT ![p] = Files]
    /\ UNCHANGED <<legacy, populated, target, panelLock, configFaults, disturbed>>

\* Mutant of FileCopied: an existing destination is replaced.
FileCopiedOver(f) ==
    /\ legacy = "here"
    /\ target' = [target EXCEPT ![f] = "copied"]
    /\ populated' = TRUE
    /\ UNCHANGED disturbed

\* QFile::copy(): refused if the destination exists or the source is gone.
FileCopied(f) ==
    /\ legacy = "here" /\ target[f] = "absent"
    /\ target' = [target EXCEPT ![f] = "copied"]
    /\ populated' = TRUE
    /\ UNCHANGED disturbed

\* The walk goes on after a failed copy; its directory may have been made.
FileSkipped(f) ==
    \/ /\ legacy # "here" \/ target[f] # "absent"
       /\ UNCHANGED <<populated, target, disturbed>>
    \/ /\ "copy" \in configFaults
       /\ populated' \in {populated, TRUE}
       /\ disturbed' = TRUE
       /\ UNCHANGED target

CopyFile(p, f) ==
    /\ Walking(p) /\ f \in left[p]
    /\ left' = [left EXCEPT ![p] = @ \ {f}]
    /\ FileCopied(f) \/ FileSkipped(f)
    /\ UNCHANGED <<legacy, stage, panelLock, configFaults>>

\* The rename that makes it one-time; one that fails only leaves a warning.
RenameLegacy(p) ==
    /\ Walking(p) /\ left[p] = {}
    /\ Goes(p, stage[p], AfterMigration(stage[p]))
    /\ legacy' \in (IF legacy = "here" THEN {"renamed"} ELSE {legacy})
                   \cup (IF "copy" \in configFaults THEN {legacy} ELSE {})
    /\ UNCHANGED <<populated, target, left, panelLock, configFaults, disturbed>>

-----------------------------------------------------------------------------
(* The rest of the boot, the run and its end *)

Scaffold(p) ==
    /\ Goes(p, "scaffold", "lock")
    /\ populated' = TRUE
    /\ UNCHANGED <<legacy, target, left, panelLock, configFaults, disturbed>>

\* A lock that cannot be made is done without.
TryLock(p) ==
    /\ \/ panelLock = NoPanel /\ Goes(p, "lock", "again") /\ panelLock' = p /\ UNCHANGED disturbed
       \/ panelLock # NoPanel /\ Goes(p, "lock", "off") /\ UNCHANGED <<panelLock, disturbed>>
       \/ "lock" \in configFaults /\ Goes(p, "lock", "again") /\ UNCHANGED panelLock
          /\ disturbed' = TRUE
    /\ UNCHANGED <<legacy, populated, target, left, configFaults>>

OpenDatabase(p) ==
    /\ Goes(p, "open", "running")
    /\ target' = [target EXCEPT ![Db] = IF @ = "absent" THEN "fresh" ELSE @]
    /\ UNCHANGED <<legacy, populated, left, panelLock, configFaults, disturbed>>

SavesSettings(p) ==
    /\ stage[p] = "running"
    /\ target[Db] = "copied"
    /\ target' = [target EXCEPT ![Db] = "updated"]
    /\ UNCHANGED <<legacy, populated, stage, left, panelLock, configFaults, disturbed>>

\* The end of a panel; the lock of a dead owner is stale and is removed.
PanelEnds(p) ==
    /\ stage[p] = "running" \/ (stage[p] # "off" /\ "crash" \in configFaults)
    /\ stage' = [stage EXCEPT ![p] = "off"]
    /\ left' = [left EXCEPT ![p] = {}]
    /\ panelLock' = IF panelLock = p THEN NoPanel ELSE panelLock
    /\ disturbed' = (disturbed \/ stage[p] # "running")
    /\ UNCHANGED <<legacy, populated, target, configFaults>>

ConfigNext ==
    \E p \in Panels :
        \/ Launch(p) \/ MigrationSkipped(p) \/ MigrationBegins(p)
        \/ \E f \in Files : CopyFile(p, f)
        \/ RenameLegacy(p) \/ Scaffold(p) \/ TryLock(p)
        \/ OpenDatabase(p) \/ SavesSettings(p) \/ PanelEnds(p)

ConfigSpec == ConfigInit /\ [][ConfigNext]_configVars

-----------------------------------------------------------------------------
(* Properties *)

\* No file that a panel has created or changed in the new directory is
\* replaced by a legacy one, however a second launch and a crash interleave
\* with the copy: "copying legacy state over newer files could clobber them".
NewerIsNotClobbered ==
    [][\A f \in Files : target[f] \in {"fresh", "updated"} => target'[f] # "copied"]_configVars

\* Undisturbed, a panel never starts from defaults beside a legacy
\* configuration: every file is there before app.db is opened.
NobodyStartsAfresh ==
    ~disturbed /\ legacy # "none" =>
        \A p \in Panels : stage[p] = "running" => \A f \in Files : target[f] \in {"copied", "updated"}

\* The legacy directory is renamed away only by a panel that has walked it,
\* and never while the new one lacks a file no fault kept back.
RenamedIsComplete ==
    ~disturbed /\ legacy = "renamed" => \A f \in Files : target[f] # "absent"

Booting(p) == stage[p] \notin {"off", "running"}
Complete == \A f \in Files : target[f] # "absent"

\* Undisturbed, one panel at a time is in its boot; what its walk has left
\* behind is there; and only a walk that is not over explains that a directory
\* which has an entry, or a panel past the migration, lacks a file.
BootIsOrderly ==
    ~disturbed /\ legacy # "none" =>
        /\ \A p, q \in Panels : Booting(p) /\ Booting(q) => p = q
        /\ \A f \in Files : target[f] # "fresh"
        /\ \A p \in Panels : Walking(p) =>
               legacy = "here" /\ \A f \in Files \ left[p] : target[f] # "absent"
        /\ populated => Complete \/ \E p \in Panels : Walking(p)
        /\ \A p \in Panels : stage[p] \in Stages \ {"off", "boot", "copying", "recopying"} => Complete

ConfigInv == ConfigTypeOK /\ BootIsOrderly /\ NobodyStartsAfresh /\ RenamedIsComplete

MigrationIsSafe == NewerIsNotClobbered /\ []ConfigInv

-----------------------------------------------------------------------------
(* What the sources say and the code does not do: TLC refutes it when it is  *)
(* added to the component's configuration (README, "Findings").              *)

\* ConfigDir.hpp: the tree is copied "into the new config dir once". Without a
\* failing copy it reaches the new directory, whatever crashes and launches.
LegacyArrives ==
    "copy" \notin configFaults /\ legacy # "none" =>
        \A p \in Panels : stage[p] = "running" => target[Db] # "fresh"
=============================================================================
