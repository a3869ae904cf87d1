----------------------------- MODULE AssetStore -----------------------------
(***************************************************************************)
(* The image library: a file <sha256>.png per image, a row of `assets` per *)
(* file and a row of `asset_refs` per use of it, as the logo or as the     *)
(* icon of an instance. No operation holds a transaction: each is a few    *)
(* steps on the disk and in app.db, every one of which can fail or be the  *)
(* last before the panel dies. A death leaves what a failure of all the    *)
(* later steps leaves, so it is not a fault of its own.                    *)
(***************************************************************************)
EXTENDS Naturals, FiniteSets, Functions

CONSTANTS
    Images,    \* distinct contents, i.e. SHA-256 sums of the PNG bytes
    IconOwners, \* instances that may get an icon
    MaxAssetId \* rows ever inserted (bound)

\* The icons of instances and the logo are uses of different types.
ASSUME AssetAssumption == MaxAssetId \in Nat /\ "logo" \notin IconOwners

VARIABLES
    uploads,     \* images whose file is in assets/uploads
    assets,      \* the table assets: id |-> image; ids are never reused
    lastAssetId, \* AUTOINCREMENT's counter
    refs,        \* the table asset_refs: [asset, use]
    logoAssetId, \* panel_config "logo_asset_id"; NoAsset is "-1"
    offered,     \* ids in the list of a page, as assets() returned it
    assetFaults  \* what may fail in this behaviour, chosen at its start

assetTables == <<uploads, assets, lastAssetId, refs, logoAssetId>>
asVars == <<assetTables, offered, assetFaults>>

NoAsset == 0
Logo == "logo"
AssetIds == 1..MaxAssetId
Uses == {Logo} \cup IconOwners
Refs == [asset : AssetIds, use : Uses]
AssetFaults == {"query", "statement", "disk"}

ASTypeOK ==
    /\ uploads \subseteq Images
    /\ \E ids \in SUBSET AssetIds : assets \in [ids -> Images]
    /\ IsInjective(assets)
    /\ lastAssetId \in 0..MaxAssetId
    /\ refs \subseteq Refs
    /\ logoAssetId \in AssetIds \cup {NoAsset}
    /\ offered \subseteq AssetIds
    /\ assetFaults \subseteq AssetFaults

ASInit ==
    /\ uploads = {} /\ assets = [id \in {} |-> NoAsset] /\ lastAssetId = 0
    /\ refs = {} /\ logoAssetId = NoAsset /\ offered = {}
    /\ assetFaults \in SUBSET AssetFaults

-----------------------------------------------------------------------------
(* DatabaseManager: what a query answers and what a statement leaves. *)

May(fault) == IF fault \in assetFaults THEN BOOLEAN ELSE {TRUE}

\* assetById(), assetBySha256(): a failed query answers as an absent row.
AssetById(id, ok) == ok /\ id \in DOMAIN assets
AssetBySha256(image, ok) == ok /\ image \in Range(assets)

\* inUse(): a failed count answers "not in use".
InUse(id, ok) == ok /\ \E r \in refs : r.asset = id

\* INSERT OR IGNORE: a clash of the UNIQUE sum inserts nothing.
InsertAsset(image, ok) ==
    IF ok /\ image \notin Range(assets)
    THEN /\ lastAssetId < MaxAssetId
         /\ lastAssetId' = lastAssetId + 1
         /\ assets' = [id \in DOMAIN assets \cup {lastAssetId'} |->
                         IF id = lastAssetId' THEN image ELSE assets[id]]
    ELSE UNCHANGED <<assets, lastAssetId>>

DeleteAssetRow(id, ok) ==
    assets' = IF ok THEN Restrict(assets, DOMAIN assets \ {id}) ELSE assets

WithoutUse(use, ok) == IF ok THEN {r \in refs : r.use # use} ELSE refs

\* attachRef() after detachRefsOf(): two statements, either of which can fail.
Reattach(id, use, detached, attached) ==
    refs' = WithoutUse(use, detached)
              \cup IF attached THEN {[asset |-> id, use |-> use]} ELSE {}

\* allAssets(): a failed query answers the empty list.
AllAssets(ok) == IF ok THEN DOMAIN assets ELSE {}

-----------------------------------------------------------------------------
(* AssetManager *)

\* What is shown of an asset: its file, when row and file are both there.
AssetFileUrl(id) == id \in DOMAIN assets /\ assets[id] \in uploads

\* A file already there is not written again; QSaveFile leaves all or nothing.
StoreFile(image, written) ==
    uploads' = IF written THEN uploads \cup {image} ELSE uploads

ImportImage(image) ==
    \E found \in May("query"), written \in May("disk"), inserted \in May("statement") :
        /\ ~AssetBySha256(image, found)
        /\ StoreFile(image, written)
        /\ IF image \in uploads'
           THEN InsertAsset(image, inserted)
           ELSE UNCHANGED <<assets, lastAssetId>>
        /\ UNCHANGED <<refs, logoAssetId, offered, assetFaults>>

\* Mutant of DeleteAsset: the uses are not asked for.
DeleteUsedAsset(id) ==
    /\ id \in offered \cap DOMAIN assets
    /\ uploads' = uploads \ {assets[id]}
    /\ DeleteAssetRow(id, TRUE)
    /\ UNCHANGED <<lastAssetId, refs, logoAssetId, offered, assetFaults>>

\* The file goes first, then the row.
DeleteAsset(id) ==
    \E counted \in May("query"), found \in May("query"),
       removed \in May("disk"), deleted \in May("statement") :
        /\ id \in offered
        /\ ~InUse(id, counted)
        /\ AssetById(id, found)
        /\ assets[id] \in uploads => removed
        /\ uploads' = uploads \ {assets[id]}
        /\ DeleteAssetRow(id, deleted)
        /\ UNCHANGED <<lastAssetId, refs, logoAssetId, offered, assetFaults>>

\* The detach and the key-value write are not looked at.
SetLogo(id) ==
    \E found \in May("query"), detached \in May("statement"),
       attached \in May("statement"), saved \in May("statement") :
        /\ id \in offered
        /\ AssetById(id, found)
        /\ Reattach(id, Logo, detached, attached)
        /\ logoAssetId' = IF attached /\ saved THEN id ELSE logoAssetId
        /\ UNCHANGED <<uploads, assets, lastAssetId, offered, assetFaults>>

ResetLogo ==
    \E detached \in May("statement"), saved \in May("statement") :
        /\ refs' = WithoutUse(Logo, detached)
        /\ logoAssetId' = IF saved THEN NoAsset ELSE logoAssetId
        /\ UNCHANGED <<uploads, assets, lastAssetId, offered, assetFaults>>

\* The old icon goes before the new one is looked up: a stale id takes it off.
SetInstanceIcon(uuid, id) ==
    \E found \in May("query"), detached \in May("statement"), attached \in May("statement") :
        /\ id \in offered
        /\ Reattach(id, uuid, detached, AssetById(id, found) /\ attached)
        /\ UNCHANGED <<uploads, assets, lastAssetId, logoAssetId, offered, assetFaults>>

\* setInstanceIcon(uuid, -1), and the hook of an instance's removal.
DetachInstanceIconRefs(uuid) ==
    \E detached \in May("statement") :
        /\ refs' = WithoutUse(uuid, detached)
        /\ UNCHANGED <<uploads, assets, lastAssetId, logoAssetId, offered, assetFaults>>

\* A page takes its list once; the pickers keep it while assets come and go.
ListAssets ==
    \E ok \in May("query") :
        /\ offered' = AllAssets(ok)
        /\ UNCHANGED <<assetTables, assetFaults>>

\* The program may stop anywhere: the tables are its only state.
ASNext ==
    \/ \E image \in Images : ImportImage(image)
    \/ \E id \in AssetIds : DeleteAsset(id)
    \/ \E id \in AssetIds : SetLogo(id)
    \/ ResetLogo
    \/ \E uuid \in IconOwners, id \in AssetIds : SetInstanceIcon(uuid, id)
    \/ \E uuid \in IconOwners : DetachInstanceIconRefs(uuid)
    \/ ListAssets

ASSpec == ASInit /\ [][ASNext]_asVars

-----------------------------------------------------------------------------

\* An image in use is there: whatever statement or file operation fails, and
\* whichever list a page still shows, a reference names a row (only a count
\* that fails lets a used asset go), and its file is on disk too unless a
\* delete stopped between the file and the row (AssetManager.cpp:131-154).
UsedIsThere ==
    \A r \in refs :
        /\ "query" \notin assetFaults => r.asset \in DOMAIN assets
        /\ assetFaults \subseteq {"disk"} => AssetFileUrl(r.asset)

\* A use has one image: the logo the panel shows is the one the references
\* protect, and no instance has two icons, unless a statement failed between
\* the steps of a change (AssetManager.cpp:236-293).
OneImagePerUse ==
    "statement" \notin assetFaults =>
        /\ \A r, s \in refs : r.use = s.use => r = s
        /\ \A id \in AssetIds :
               id = logoAssetId <=> [asset |-> id, use |-> Logo] \in refs

\* What a page may still pick has its file: the file comes before the row.
RowsAreBacked == assetFaults \subseteq {"disk"} => \A id \in DOMAIN assets : AssetFileUrl(id)

\* Uses, rows and files agree as far as the faults leave them.
AssetUsesAreSound == ASTypeOK /\ RowsAreBacked /\ UsedIsThere /\ OneImagePerUse

-----------------------------------------------------------------------------
(* Statements the code does not satisfy. *)

\* AssetManager.hpp:15: "deleteAsset refuses while refs exist".
RefusesWhileUsed == \A r \in refs : r.asset \in DOMAIN assets

\* AssetManager.hpp:50: "On success removes file + db row"; a refused or failed
\* delete leaves an asset that can be shown.
RowsHaveFiles == \A id \in DOMAIN assets : AssetFileUrl(id)

\* AssetManager.hpp:70: "Attach ref_type=logo to the asset ... and persist
\* logo_asset_id": what the panel shows as its logo is in use.
ShownLogoIsUsed ==
    AssetFileUrl(logoAssetId) => [asset |-> logoAssetId, use |-> Logo] \in refs
=============================================================================
