----------------------------- MODULE PanelStore -----------------------------
(***************************************************************************)
(* What survives the panel: the two tables of app.db that hold the roster. *)
(* instance_configs has a row per instance; the "panel" row of             *)
(* panel_config is ONE blob with the ordered instanceIds and every panel   *)
(* preference. InstanceManager, the settings API, the settings page and    *)
(* the window-state saver all rewrite that blob by load-modify-save.       *)
(***************************************************************************)
EXTENDS Naturals, FiniteSets, SequencesExt

CONSTANTS
    Uuids,       \* instances that can ever be created (bound)
    Fields,      \* preferences of the panel blob
    PanelFields, \* those PanelConfigController mirrors for the settings page
    Values,      \* values of a preference
    Default      \* the value defaultPanelConfig() gives each of them

ASSUME PanelFieldsAssumption == PanelFields \subseteq Fields
ASSUME DefaultAssumption == Default \in Values

VARIABLES
    rows,           \* uuids with a readable instance_configs row
    ids,            \* instanceIds of the stored blob
    prefs,          \* preferences of the stored blob
    up,             \* the panel runs
    roster,         \* m_sessions, in order
    snapshot,       \* preferences in InstanceManager's m_panelConfig
    hostLoadFailed, \* m_lastLoadFailed of PanelApplication's PanelStateManager
    cache,          \* PanelConfigController's copy of its fields
    faults,         \* what may go wrong in this behaviour, chosen at its start
    pending,        \* the operation that has still to call persistRoster
    minted,         \* history: uuids given out so far
    owned,          \* history: created for the user, not deleted by the user
    accepted        \* history: the preferences the writers were told are saved

store == <<rows, ids, prefs>>
process == <<up, roster, snapshot, hostLoadFailed, cache, pending>>
vars == <<store, process, faults, minted, owned, accepted>>

Faults == {"read", "write", "crash"}

Prefs == [Fields -> Values]
Defaults == [f \in Fields |-> Default]

PSTypeOK ==
    /\ rows \subseteq minted
    /\ ids \in Seq(minted) /\ IsInjective(ids)
    /\ prefs \in Prefs
    /\ up \in BOOLEAN
    /\ roster \in Seq(minted) /\ IsInjective(roster)
    /\ snapshot \in Prefs
    /\ hostLoadFailed \in BOOLEAN
    /\ cache \in [PanelFields -> Values]
    /\ faults \subseteq Faults
    /\ pending \in {"none", "create", "delete"}
    /\ minted \subseteq Uuids
    /\ owned \subseteq minted
    /\ accepted \in Prefs

PSInit ==
    /\ rows = {} /\ ids = <<>> /\ prefs = Defaults
    /\ up = FALSE /\ roster = <<>> /\ snapshot = Defaults
    /\ hostLoadFailed = FALSE
    /\ cache = [f \in PanelFields |-> Default]
    /\ faults \in SUBSET Faults
    /\ pending = "none"
    /\ minted = {} /\ owned = {} /\ accepted = Defaults

-----------------------------------------------------------------------------
(* The database: a query or a statement succeeds or, with the fault, fails. *)

ReadOk == IF "read" \in faults THEN BOOLEAN ELSE {TRUE}
WriteOk == IF "write" \in faults THEN BOOLEAN ELSE {TRUE}

\* load(): the blob, or the defaults when the query failed.
LoadedPrefs(ok) == IF ok THEN prefs ELSE Defaults
LoadedIds(ok) == IF ok THEN ids ELSE <<>>

\* SelectSeq by membership in a set, in a form that can be reasoned about.
Subsequence(seq, kept) ==
    LET upTo[n \in 0 .. Len(seq)] ==
            IF n = 0 THEN <<>>
            ELSE IF seq[n] \in kept THEN Append(upTo[n - 1], seq[n]) ELSE upTo[n - 1]
    IN  upTo[Len(seq)]

\* Mutant of Loadable: every stored row, in the order of the table.
LoadableAll(seq, readable) == SetToSeq(readable)

\* loadFromDisk(): instanceIds in order, without the rows that do not load.
Loadable(seq, readable) == Subsequence(seq, readable)

-----------------------------------------------------------------------------
(* Actions *)

Running == up /\ pending = "none"

\* Start of the panel: its own manager's load, the roster's load, row by row,
\* and the settings page's load are separate queries.
Boot ==
    /\ ~up
    /\ up' = TRUE
    /\ \E hostOk, rosterOk, pageOk \in ReadOk, unread \in SUBSET rows :
        /\ "read" \notin faults => unread = {}
        /\ hostLoadFailed' = ~hostOk
        /\ snapshot' = LoadedPrefs(rosterOk)
        /\ roster' = Loadable(LoadedIds(rosterOk), rows \ unread)
        /\ cache' = [f \in PanelFields |-> LoadedPrefs(pageOk)[f]]
    /\ UNCHANGED <<store, pending, minted, owned, accepted, faults>>

\* createInstanceScoped() up to persistRoster(): a failed row save aborts it.
CreateInstance(u) ==
    /\ Running /\ u \notin minted
    /\ minted' = minted \cup {u}
    /\ \/ /\ rows' = rows \cup {u}
          /\ roster' = Append(roster, u)
          /\ pending' = "create"
       \/ /\ FALSE \in WriteOk
          /\ UNCHANGED <<rows, roster, pending>>
    /\ UNCHANGED <<ids, prefs, up, snapshot, hostLoadFailed, cache, owned,
                   accepted, faults>>

\* finishInstanceDeletion() up to persistRoster(): the result of the row's
\* deletion is not looked at.
DeleteInstance(u) ==
    /\ Running /\ u \in ToSet(roster)
    /\ roster' = Subsequence(roster, minted \ {u})
    /\ \E gone \in WriteOk : rows' = IF gone THEN rows \ {u} ELSE rows
    /\ pending' = "delete"
    /\ owned' = owned \ {u}
    /\ UNCHANGED <<ids, prefs, up, snapshot, hostLoadFailed, cache, minted,
                   accepted, faults>>

\* m_savePanel(): PanelApplication's manager, which refuses to save for as
\* long as ITS last load failed, that is, for the whole run of the panel.
SavePanel(newPrefs) ==
    \/ /\ ~hostLoadFailed
       /\ ids' = roster
       /\ prefs' = newPrefs
    \/ /\ hostLoadFailed \/ FALSE \in WriteOk
       /\ UNCHANGED <<ids, prefs>>

\* The caller learns of a created instance when the call returns.
OwnedOnReturn == IF pending = "create" THEN owned \cup {Last(roster)} ELSE owned

\* Mutant of PersistRoster: saves the construction-time snapshot.
PersistRosterFromSnapshot ==
    /\ pending # "none"
    /\ pending' = "none"
    /\ SavePanel(snapshot)
    /\ owned' = OwnedOnReturn
    /\ UNCHANGED <<rows, up, roster, snapshot, hostLoadFailed, cache, minted,
                   accepted, faults>>

\* persistRoster(): a fresh load with a manager of its own, whose failure
\* nobody looks at, instanceIds rebuilt from the roster, saved by the host.
PersistRoster ==
    /\ pending # "none"
    /\ pending' = "none"
    /\ \E ok \in ReadOk :
        /\ snapshot' = LoadedPrefs(ok)
        /\ SavePanel(LoadedPrefs(ok))
    /\ owned' = OwnedOnReturn
    /\ UNCHANGED <<rows, up, roster, hostLoadFailed, cache, minted, accepted,
                   faults>>

\* updateField() of the settings API, saveWindowState(): a manager of their own
\* loads the blob, one field changes, and the blob is saved; or the load or the
\* write fails, and the writer is told.
SettingSaved(f, v) ==
    /\ prefs' = [prefs EXCEPT ![f] = v]
    /\ accepted' = [accepted EXCEPT ![f] = v]
    /\ UNCHANGED ids

SettingRefused ==
    /\ FALSE \in ReadOk \cup WriteOk
    /\ UNCHANGED <<prefs, accepted, ids>>

\* A plugin's settings write, or the window-state saver: past the page's cache.
WriteSetting(f, v) ==
    /\ Running
    /\ SettingSaved(f, v) \/ SettingRefused
    /\ UNCHANGED <<rows, process, minted, owned, faults>>

\* A setter of PanelConfigController: nothing for the value it has cached;
\* otherwise saved as a plugin's write is, and cached only if that succeeded.
PickSetting(f, v) ==
    /\ Running /\ cache[f] # v
    /\ \/ SettingSaved(f, v) /\ cache' = [cache EXCEPT ![f] = v]
       \/ SettingRefused /\ UNCHANGED cache
    /\ UNCHANGED <<rows, up, roster, snapshot, hostLoadFailed, pending,
                   minted, owned, faults>>

\* What the process knew is gone; the values the next Boot gives it are kept.
Down ==
    /\ up' = FALSE
    /\ roster' = <<>>
    /\ pending' = "none"
    /\ UNCHANGED <<store, snapshot, hostLoadFailed, cache, minted, owned,
                   accepted, faults>>

Quit == Running /\ Down

\* Between two statements too: each one is a transaction of its own.
Crash == up /\ "crash" \in faults /\ Down

PSNext ==
    \/ Boot
    \/ \E u \in Uuids : CreateInstance(u) \/ DeleteInstance(u)
    \/ PersistRoster
    \/ \E f \in Fields, v \in Values : WriteSetting(f, v)
    \/ \E f \in PanelFields, v \in Values : PickSetting(f, v)
    \/ Quit
    \/ Crash

PSSpec == PSInit /\ [][PSNext]_vars

-----------------------------------------------------------------------------
(* Properties *)

\* Every session of the roster has its configuration row: creating one stops
\* at a failed row save, and a deleted one leaves the roster first.
RosterHasRows == ToSet(roster) \subseteq rows

\* A preference whose writer was told it is saved is still in the store, with
\* that value, whatever roster writes, crashes and failed writes came after.
AcceptedWritesStick == "read" \notin faults => prefs = accepted

\* If only crashes happen, then between operations the store would restore
\* exactly this roster, in this order, from any prefix of its statements.
StoreMirrorsRoster ==
    faults \subseteq {"crash"} /\ Running => Loadable(ids, rows) = roster

\* The instance a creation is about to hand out.
Unreturned == IF pending = "create" THEN {Last(roster)} ELSE {}

\* If only crashes happen, no instance the user created and did not delete is
\* missing from the panel, nor from what the next start of it would load.
NobodyIsForgotten ==
    faults \subseteq {"crash"} =>
        /\ owned \subseteq ToSet(ids) \cap rows
        /\ up => owned \subseteq ToSet(roster)

\* No instance the user deleted, or whose creation a crash cut short, is ever
\* back in the panel, even if reads fail and saves are refused for it.
NobodyReturns ==
    "write" \notin faults =>
        /\ ToSet(ids) \cap rows \subseteq owned
        /\ ToSet(roster) \subseteq owned \cup Unreturned

\* A panel that is down holds nothing; one whose reads cannot fail may save.
ProcessIsSound ==
    /\ ~up => roster = <<>> /\ pending = "none"
    /\ pending = "create" => roster # <<>>
    /\ "read" \notin faults => ~hostLoadFailed

\* What the table of instances and the blob say of the roster, together and
\* across any number of restarts: whichever of reads, writes and the process
\* fail, each of the statements above holds under the faults it names.
RosterIsKept ==
    /\ PSTypeOK /\ ProcessIsSound /\ RosterHasRows
    /\ StoreMirrorsRoster /\ NobodyIsForgotten /\ NobodyReturns

\* A settings write disturbs neither the roster nor another preference, even
\* if the load it starts from failed.
SettingsWritesAreLocal ==
    [][(Running /\ up') =>
        /\ ids' = ids
        /\ \A f, g \in Fields :
              (prefs'[f] # prefs[f] /\ prefs'[g] # prefs[g]) => f = g]_vars

\* The settings, against every other writer of their row, each part under its faults.
SettingsAreKept == []AcceptedWritesStick /\ SettingsWritesAreLocal

-----------------------------------------------------------------------------
(* What the sources say and the code does not do: TLC refutes each when it  *)
(* is added to the component's configuration (README, "Findings").          *)

\* PanelStateManager::load(): after a failed load "a subsequent save() must
\* NOT persist [the defaults] over state we could not read".
DefaultsAreNotPersisted == faults \subseteq {"read"} => prefs = accepted

\* PanelApplication.cpp: the save callback is wired "so create/delete reach
\* panel.json immediately"; a failed load "blocks exactly that write".
CreateReachesStore ==
    faults \subseteq {"read"} /\ Running => ToSet(ids) \cap rows = owned

\* PanelConfigController.cpp: after a refused pick "the display reverts to
\* the persisted value", that is, what the page shows is what is stored.
ShownIsPersisted ==
    faults = {} /\ Running => \A f \in PanelFields : cache[f] = prefs[f]
=============================================================================
