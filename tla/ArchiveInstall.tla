--------------------------- MODULE ArchiveInstall ---------------------------
(***************************************************************************)
(* What DownloadServiceInstall.cpp decides about an archive before and     *)
(* after it writes a byte: the gate on entry paths, the layout a target    *)
(* asks for, and the root an install lands in.                             *)
(*                                                                         *)
(* An archive is a sequence of entries [root, path, dir, intact]: `root`   *)
(* says how the stored path begins ("rel", "abs" or "drive"), `path` is    *)
(* the sequence of its components as stored, `dir` marks a directory, and  *)
(* `intact` is FALSE where miniz cannot decompress the entry.              *)
(***************************************************************************)
EXTENDS Sequences, Naturals, SequencesExt

CONSTANTS
    ValidOwners,     \* plugin ids within the charset [A-Za-z0-9.-]
    NoOwner          \* the empty ownerPluginId: the host domain

Models == "models"
VoicePacks == "voicePacks"

IsAllowedTarget(target) == target \in {VoicePacks, Models}

IsValidOwner(owner) == owner \in ValidOwners \cup {NoOwner}

(* QDir::cleanPath of a relative path: "." disappears, ".." takes its      *)
(* predecessor with it unless there is none to take.                       *)
CleanPath(path) ==
    FoldLeft(LAMBDA clean, part :
                 CASE part \in {".", ""} -> clean
                   [] part = ".." /\ clean # <<>> /\ Last(clean) # ".." ->
                          Front(clean)
                   [] OTHER -> Append(clean, part),
             <<>>, path)

SafeAsStored(e) ==      \* a gate that skips the normalisation
    /\ e.root = "rel"
    /\ e.path # <<>>
    /\ Head(e.path) # ".."

(* safeRelativePath: empty, absolute and drive-letter paths and paths that *)
(* still climb after normalisation are refused.                            *)
SafeRelativePath(e) ==
    /\ e.root = "rel"
    /\ CleanPath(e.path) # <<>>
    /\ ".." \notin ToSet(CleanPath(e.path))

EntriesSafe(archive) == \A i \in DOMAIN archive : SafeRelativePath(archive[i])

TopLevelDirs(archive) ==
    {Head(CleanPath(archive[i].path)) :
        i \in {n \in DOMAIN archive : CleanPath(archive[n].path) # <<>>}}

ItemName(archive) == CHOOSE d \in TopLevelDirs(archive) : TRUE

(* The file by which the scanner of the target recognises an item.         *)
Sentinel(target, item) ==
    IF target = Models THEN <<item, item \o ".model3.json">>
                       ELSE <<item, "meta.mko">>

HasLayout(archive, target) ==
    /\ archive # <<>>
    /\ EntriesSafe(archive)
    /\ Cardinality(TopLevelDirs(archive)) = 1
    /\ \E i \in DOMAIN archive :
          CleanPath(archive[i].path) = Sentinel(target, ItemName(archive))

DecompressesOrIsSkipped(archive) == TRUE

Decompresses(archive) ==
    \A i \in DOMAIN archive : archive[i].dir \/ archive[i].intact

(* What the extraction writes: directories appear only around a file, and  *)
(* an entry that does not decompress has no bytes.                         *)
RegularFiles(archive) == {e \in ToSet(archive) : ~e.dir}
Extracted(archive) == {e \in RegularFiles(archive) : e.intact}

(* The root the item is moved into: the plugin's own data domain for an    *)
(* owner-scoped install, one of the two host roots otherwise.              *)
TargetRoot(target, owner) == <<owner, target>>
Slot(archive, target, owner) == <<TargetRoot(target, owner), ItemName(archive)>>
=============================================================================
