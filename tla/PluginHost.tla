------------------------------ MODULE PluginHost ------------------------------
(* The life of the plugins: what the static table and the drop-in scan put in *)
(* the registry, the boot loop of PluginHost::initializeAll(), the reverse    *)
(* loop of shutdownAll() with its budget and its sweeps, and what a plugin    *)
(* books with the host while its code runs.  The bus itself is EventBus; here *)
(* a publish is the set of plugins it calls.                                  *)
EXTENDS SequencesExt

CONSTANTS Ids,    \* the plugin ids, numbered in their alphabetical order
          NoOne,
          Boots,  \* the scan orders: sequences of candidates
          Books,  \* what plugins book: <<id, "event" or "rule">>
          Paged,  \* the plugins that have a page
          Switched \* the plugins the user switches off and on

Faults == {"none",  \* comes up
           "gate",  \* refused for its manifest, its api_version or its abi
           "iid",   \* a library of another interface, its id made from its name
           "root",  \* instance() throws, or returns null or something else
           "null"}  \* no factory, or create() throws or returns null

Candidates == [id : Ids, order : Nat, source : {"static", "dynamic"}, fault : Faults]

ASSUME IdsAssumption == Ids \subseteq Nat /\ NoOne \notin Ids
ASSUME BooksAssumption == /\ Books \subseteq Ids \X {"event", "rule"}
                         /\ Paged \subseteq Ids /\ Switched \subseteq Ids
ASSUME BootsAssumption == \A b \in Boots :
    /\ b \in Seq(Candidates)
    /\ \A i, j \in DOMAIN b : i < j /\ b[j].source = "static" =>
            b[i].source = "static" /\ b[i].id # b[j].id

VARIABLES boot,       \* the candidates of this installation
          scan,       \* candidates the scan has not reached
          entries,    \* m_entries of the registry
          phase,      \* where main() is
          agenda,     \* what the loop of the phase has left
          active,     \* the plugin whose code the host is calling
          live,       \* the ids whose entry has an instance
          startedIds, \* m_startedIds
          booked,     \* event subscriptions and rules, booked under an id
          pages,      \* ids with a row in the page model
          window,     \* m_acceptingRegistrations
          disabled,   \* the persisted enabled bits that are 0
          called      \* history: the plugins the last step's publish called

hostVars == <<boot, scan, entries, phase, agenda, active, live, startedIds,
              booked, pages, window, disabled, called>>

Statuses == {"Registered", "Started", "Stopped", "Failed"}
Entries == [id : Ids, order : Nat, fault : Faults, status : Statuses]

HostTypeOK ==
    /\ boot \in Boots /\ scan \in Seq(Candidates)
    /\ entries \in Seq(Entries)
    /\ phase \in {"scan", "boot", "up", "down", "off"}
    /\ phase = "boot" => agenda \in Seq(Entries)
    /\ phase = "down" => agenda \in Seq(Ids)
    /\ active \in Ids \cup {NoOne}
    /\ active # NoOne => phase = "up" \/ (phase \in {"boot", "down"} /\ agenda # <<>>)
    /\ live \subseteq Ids /\ called \subseteq Ids /\ disabled \subseteq Ids
    /\ startedIds \in Seq(Ids) /\ pages \subseteq Ids
    /\ booked \subseteq Books
    /\ window \in BOOLEAN

HostInit ==
    /\ boot \in Boots /\ scan = boot /\ disabled \in SUBSET Switched
    /\ entries = <<>> /\ phase = "scan" /\ agenda = <<>> /\ active = NoOne
    /\ live = {} /\ startedIds = <<>> /\ booked = {} /\ pages = {}
    /\ window = TRUE /\ called = {}

-----------------------------------------------------------------------------
(* The registry.                                                             *)

(* entry(id): the first of that id, 0 for none.                              *)
Entry(id) == SelectInSeq(entries, LAMBDA e : e.id = id)
Status(id) == IF Entry(id) = 0 THEN "none" ELSE entries[Entry(id)].status

LegalTransition(from, to) ==
    \/ to = "Failed"
    \/ from = "Registered" /\ to = "Started"
    \/ from = "Started" /\ to = "Stopped"

Transition(id, to) ==
    entries' = IF Entry(id) # 0 /\ LegalTransition(Status(id), to)
               THEN [entries EXCEPT ![Entry(id)].status = to] ELSE entries

(* Static ids cannot be shadowed: they come first, and of two entries of an  *)
(* id the later one is Failed, whatever the first one is.                    *)
AddStaticPlugin(c) == c.fault # "gate"
AddDynamicPlugin(c) == c.fault # "gate" /\ Entry(c.id) = 0
LoadCandidate(c) == AddDynamicPlugin(c) /\ c.fault \notin {"iid", "root"}

ScanNext ==
    /\ phase = "scan" /\ scan # <<>>
    /\ LET c == Head(scan)
           ok == IF c.source = "static" THEN AddStaticPlugin(c) ELSE LoadCandidate(c)
       IN  entries' = Append(entries,
               [id |-> c.id, order |-> c.order, fault |-> c.fault,
                status |-> IF ok THEN "Registered" ELSE "Failed"])
    /\ scan' = Tail(scan) /\ called' = {}
    /\ UNCHANGED <<boot, phase, agenda, active, live, startedIds, booked,
                   pages, window, disabled>>

(* orderedEntries(): by order, then by id; two entries of one id and order   *)
(* come as std::sort leaves them.                                            *)
Ordered(list) ==
    \A i, j \in DOMAIN list : i < j =>
        \/ list[i].order < list[j].order
        \/ list[i].order = list[j].order /\ list[i].id <= list[j].id

OrderedEntries ==
    LET places == DOMAIN entries IN
    {list \in {[i \in places |-> entries[p[i]]] : p \in Bijection(places, places)} : Ordered(list)}

-----------------------------------------------------------------------------
(* initializeAll(), called once the pages' model is mounted.                 *)

InitializeAll ==
    /\ phase = "scan" /\ scan = <<>>
    /\ phase' = "boot" /\ agenda' \in OrderedEntries /\ called' = {}
    /\ UNCHANGED <<boot, scan, entries, active, live, startedIds, booked,
                   pages, window, disabled>>

AtEntry == phase = "boot" /\ active = NoOne /\ agenda # <<>>
NextEntry == agenda' = Tail(agenda)

Skipped(e) == e.id \in disabled \/ e.status # "Registered"

SkipEntry ==
    /\ AtEntry /\ Skipped(Head(agenda)) /\ NextEntry /\ called' = {}
    /\ UNCHANGED <<boot, scan, entries, phase, active, live, startedIds,
                   booked, pages, window, disabled>>

CreateInstance ==
    /\ AtEntry /\ ~Skipped(Head(agenda)) /\ called' = {}
    /\ LET e == Head(agenda) IN
       IF e.fault = "null"
       THEN Transition(e.id, "Failed") /\ NextEntry /\ UNCHANGED <<active, live>>
       ELSE active' = e.id /\ live' = live \cup {e.id} /\ UNCHANGED <<entries, agenda>>
    /\ UNCHANGED <<boot, scan, phase, startedIds, booked, pages, window, disabled>>

(* What a publish calls: the listeners and the actions of the rules.         *)
Heard(table) == {b[1] : b \in table}

(* initialize() returned Ok: pet.panel.plugin_loaded goes out.               *)
Initialized ==
    /\ phase = "boot" /\ active # NoOne
    /\ Transition(active, "Started") /\ startedIds' = Append(startedIds, active)
    /\ active' = NoOne /\ NextEntry /\ called' = Heard(booked)
    /\ UNCHANGED <<boot, scan, phase, live, booked, pages, window, disabled>>

(* It returned an error or threw: the instance goes, what it booked stays.   *)
InitializeFailed ==
    /\ phase = "boot" /\ active # NoOne
    /\ Transition(active, "Failed") /\ live' = live \ {active}
    /\ active' = NoOne /\ NextEntry /\ called' = {}
    /\ UNCHANGED <<boot, scan, phase, startedIds, booked, pages, window, disabled>>

FinalizeRegistrations ==
    /\ phase = "boot" /\ agenda = <<>>
    /\ phase' = "up" /\ window' = FALSE /\ called' = {}
    /\ UNCHANGED <<boot, scan, entries, agenda, active, live, startedIds,
                   booked, pages, disabled>>

-----------------------------------------------------------------------------
(* shutdownAll(), after the event loop has ended.                            *)

ShutdownAll ==
    /\ phase = "up" /\ active = NoOne
    /\ phase' = "down" /\ agenda' = Reverse(startedIds) /\ called' = {}
    /\ UNCHANGED <<boot, scan, entries, active, live, startedIds, booked,
                   pages, window, disabled>>

Shutdown ==
    /\ phase = "down" /\ active = NoOne /\ agenda # <<>>
    /\ IF Head(agenda) \in live THEN active' = Head(agenda) /\ UNCHANGED agenda
                                ELSE NextEntry /\ UNCHANGED active
    /\ called' = {}
    /\ UNCHANGED <<boot, scan, entries, phase, live, startedIds, booked,
                   pages, window, disabled>>

SweptEventsOnly(id) == booked \ {<<id, "event">>}

(* unsubscribeByPublisher() and sweepPluginRules().                          *)
Swept(id) == booked \ {<<id, "event">>, <<id, "rule">>}

(* shutdown() returned or threw: the sweeps, the delete, and only then       *)
(* pet.panel.plugin_unloaded.                                                *)
Unloaded ==
    /\ phase = "down" /\ active # NoOne
    /\ booked' = Swept(active) /\ live' = live \ {active}
    /\ Transition(active, "Stopped")
    /\ active' = NoOne /\ NextEntry /\ called' = Heard(booked')
    /\ UNCHANGED <<boot, scan, phase, startedIds, pages, window, disabled>>

(* The budget is spent between two plugins: the rest stay as they are.       *)
BudgetSpent ==
    /\ phase = "down" /\ active = NoOne /\ agenda # <<>>
    /\ agenda' = <<>> /\ called' = {}
    /\ UNCHANGED <<boot, scan, entries, phase, active, live, startedIds,
                   booked, pages, window, disabled>>

ShutDown ==
    /\ phase = "down" /\ active = NoOne /\ agenda = <<>>
    /\ phase' = "off" /\ startedIds' = <<>> /\ called' = {}
    /\ UNCHANGED <<boot, scan, entries, agenda, active, live, booked, pages,
                   window, disabled>>

(* The panel is started again; only the enabled bits are kept.               *)
Restart ==
    /\ phase = "off"
    /\ scan' = boot /\ entries' = <<>> /\ phase' = "scan" /\ agenda' = <<>>
    /\ active' = NoOne /\ live' = {} /\ startedIds' = <<>> /\ booked' = {}
    /\ pages' = {} /\ window' = TRUE /\ called' = {}
    /\ UNCHANGED <<boot, disabled>>

-----------------------------------------------------------------------------
(* Calls.  Plugin code runs when the host calls it, and on its own events    *)
(* while the event loop runs and nobody else's code does.                    *)

EventLoop == phase = "up" /\ active = NoOne
Runs(p) == p \in live /\ (active = p \/ EventLoop)

CallFrame == /\ called' = {}
             /\ UNCHANGED <<boot, scan, entries, phase, agenda, active, live,
                            startedIds, window>>

Book(b) ==
    /\ Runs(b[1]) /\ booked' = booked \cup {b}
    /\ CallFrame /\ UNCHANGED <<pages, disabled>>

Unbook(b) ==
    /\ Runs(b[1]) /\ b \in booked /\ booked' = booked \ {b}
    /\ CallFrame /\ UNCHANGED <<pages, disabled>>

(* One page a plugin, none after the boot window, none ever taken back.      *)
RegisterPage(p) ==
    /\ Runs(p) /\ window /\ p \notin pages
    /\ pages' = pages \cup {p}
    /\ CallFrame /\ UNCHANGED <<booked, disabled>>

(* An event of the host, from the event loop or from a call a plugin makes.  *)
HostPublishes ==
    /\ EventLoop \/ active \in live
    /\ called' = Heard(booked)
    /\ UNCHANGED <<boot, scan, entries, phase, agenda, active, live,
                   startedIds, booked, pages, window, disabled>>

(* The switch in the settings page; `written`: the database took it.         *)
SetEnabled(id, on, written) ==
    /\ EventLoop /\ Entry(id) # 0
    /\ disabled' = IF ~written THEN disabled
                   ELSE IF on THEN disabled \ {id} ELSE disabled \cup {id}
    /\ CallFrame /\ UNCHANGED <<booked, pages>>

HostLife ==
    \/ ScanNext \/ InitializeAll \/ SkipEntry \/ CreateInstance \/ Initialized
    \/ InitializeFailed \/ FinalizeRegistrations
    \/ ShutdownAll \/ Shutdown \/ Unloaded \/ BudgetSpent \/ ShutDown
    \/ \E b \in Books : Book(b) \/ Unbook(b)
    \/ \E p \in Paged : RegisterPage(p)
    \/ HostPublishes
    \/ \E id \in Switched, on, written \in BOOLEAN : SetEnabled(id, on, written)

HostNext == HostLife \/ Restart

HostSpec == HostInit /\ [][HostNext]_hostVars

-----------------------------------------------------------------------------
(* What the host promises (core/PluginHost.cpp:431-464, :362-371).           *)

(* A stopped entry is of a plugin that is gone and has nothing booked.       *)
StoppedIsOver ==
    \A i \in DOMAIN entries : entries[i].status = "Stopped" =>
        /\ phase \in {"down", "off"}
        /\ entries[i].id \notin live \cup Heard(booked) \cup called

(* Once a plugin is Stopped no event and no rule calls into it, whatever its *)
(* shutdown() forgot to take back: the sweeps run before the instance dies,  *)
(* and the announcement of its unloading comes after them.                   *)
StoppedIsSilent == \A p \in called : Status(p) # "Stopped"

(* Nothing the host publishes calls into an instance that is gone.  Not so:  *)
(* a plugin whose initialize() fails is destroyed without the sweeps.        *)
CallsReachTheLiving == called \subseteq live
=============================================================================
