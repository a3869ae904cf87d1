----------------------------- MODULE RuleService -----------------------------
(* The rule engine service (core/RuleEngineService.cpp) on the event bus,    *)
(* with the rules API of the plugins (RuleApiImpl) and what the service      *)
(* observes: the roster, the mounted packs, the write switch and the         *)
(* plugins' capabilities.  Everything runs on the GUI thread, so what        *)
(* interleaves is nested calls: an action of a rule publishes, a plugin      *)
(* called by that publish registers, removes or publishes in its turn, and   *)
(* the service goes on with the copy of the rules and the context it took.   *)
EXTENDS EventBus, RuleEngine

CONSTANTS Uuids,         \* the instances there may be
          Plugins,       \* the plugins initializeAll() calls: sequences of segments
          Docs,          \* the rule documents plugins register
          Wanted,        \* the events plugins subscribe: <<plugin, id, priority>>
          PanelDocs,     \* the documents of the panel's "rules" row
          InstanceDocs,  \* uuid -> the documents of its blob
          HostEvents,    \* events the host emits: id, uuid, cancellable, payload
          Packs,         \* the voice packs there may be
          Tuning,        \* plugins whose manifest has instance_tuning
          Rows,          \* the rows of the roster: model, connected
          Hour,          \* the hour of the day
          MaxClock,      \* bound: milliseconds that pass
          MaxCalls       \* bound: calls made from outside the service

VARIABLES engine,        \* m_engine
          subscribedIds, \* m_subscribedIds
          knownUuids,    \* m_knownUuids
          lastActivity,  \* m_lastActivityMs, 0 when absent
          lastMotion,    \* m_lastMotionMs, 0 when absent
          runtimeCache,  \* m_runtimeCache: the mounted pack, "" when absent
          roster,        \* the instances: uuid -> [model, connected]
          writeEnabled,  \* the plugin_write_enabled row
          phase,         \* plugin -> its status, or the call that is under way
          era,           \* "boot", "up", "down": before, in and after app.exec()
          clock,
          calls,
          fires          \* history: when a rule last fired in its enabled cycle

ruleVars == <<subs, stack, engine, subscribedIds, knownUuids, lastActivity,
              lastMotion, runtimeCache, roster, writeEnabled, phase, era,
              clock, calls, fires>>

observed == <<knownUuids, lastActivity, lastMotion, runtimeCache, roster>>
gates    == <<writeEnabled, phase, era>>

Service == <<"service">>

HitEvent      == <<"pet", "instance", "hit">>
DragEnded     == <<"pet", "drag", "ended">>
MotionFinished == <<"pet", "instance", "motion_finished">>
ActivityTriple == {HitEvent, DragEnded, MotionFinished}
PluginLoaded   == <<"pet", "panel", "plugin_loaded">>
PluginUnloaded == <<"pet", "panel", "plugin_unloaded">>

(* Both sides of the bus take the same characters, and the events of the     *)
(* host are made of them.                                                    *)
ASSUME EventsAssumption ==
    EventSegments = Segments /\ \A e \in ActivityTriple : IsValidEventId(e)

ASSUME WantedAssumption == Wanted \subseteq Plugins \X EventIds \X (0..Lowest)

(* Names are texts; the markers of the host and of the service are no        *)
(* plugin's id.                                                              *)
ASSUME NamesAssumption ==
    /\ IsFiniteSet(Uuids) /\ Uuids \subseteq STRING
    /\ Plugins \subseteq Seq(STRING) \ {Host, Service}

AllDocs == Docs \cup Range(PanelDocs) \cup UNION {Range(InstanceDocs[u]) : u \in Uuids}

(* The documents of a row are a list; a text has a segment at least, and a   *)
(* number is one.                                                            *)
ASSUME DocsAssumption ==
    /\ PanelDocs \in Seq(AllDocs) /\ InstanceDocs \in [Uuids -> Seq(AllDocs)]
    /\ \A d \in AllDocs :
          /\ Get(d, "id").t = "str" => Get(d, "id").v \in Seq(STRING) \ {<<>>}
          /\ \A k \in {"cooldown_ms", "priority"} : IsNumber(Get(d, k)) => Get(d, k).v \in Int

-----------------------------------------------------------------------------
(* Loading and subscriptions.                                                *)

Scoped(doc, scope, owner) ==
    LET rule == [Compiled(doc) EXCEPT !.scope = scope, !.owner = owner]
    IN  CASE scope = "instance" -> [rule EXCEPT !.id = <<"inst">> \o owner \o @]
          [] scope = "plugin"   -> [rule EXCEPT !.id = <<"plugin">> \o owner \o @]
          [] scope = "panel"    -> rule

Accepted(e, doc, scope, owner) ==
    Compiles(doc) /\ UpsertLegal(e, Scoped(doc, scope, owner))

CompileScopedInto(e, doc, scope, owner) ==
    IF Accepted(e, doc, scope, owner) THEN Upserted(e, Scoped(doc, scope, owner))
    ELSE e

LoadRulesArrayInto(e, docs, scope, owner) ==
    LET upTo[n \in 0..Len(docs)] ==
          IF n = 0 THEN e ELSE CompileScopedInto(upTo[n - 1], docs[n], scope, owner)
    IN  upTo[Len(docs)]

(* A blob that cannot be read loads as no rules at all.                      *)
LoadInstanceRulesInto(e, uuid, readable) ==
    LoadRulesArrayInto(e, IF readable THEN InstanceDocs[uuid] ELSE <<>>,
                       "instance", <<uuid>>)

(* The instances are known as a QSet: they come in any order.                *)
Orders(uuids) == {order \in [1..Cardinality(uuids) -> uuids] : IsInjective(order)}

LoadInstancesInto(e, order, readable) ==
    LET upTo[n \in 0..Len(order)] ==
          IF n = 0 THEN e
          ELSE LoadInstanceRulesInto(upTo[n - 1], order[n], order[n] \in readable)
    IN  upTo[Len(order)]

Desired(e) == LET ids == SubscribedEventIds(e)
              IN  IF ids = {} THEN {} ELSE ids \cup ActivityTriple

RecomputedSubsOnly(table, e) ==
    [id \in DOMAIN table |->
        IF id \in Desired(e) \ subscribedIds
        THEN Subscribed(table, id, Service, Low, Host)[id] ELSE table[id]]

RecomputedSubs(table, e) ==
    [id \in DOMAIN table |->
        IF id \in Desired(e) \ subscribedIds
        THEN Subscribed(table, id, Service, Low, Host)[id]
        ELSE IF id \in subscribedIds \ Desired(e)
        THEN Unsubscribed(table, id, Service)[id]
        ELSE table[id]]

(* Rules whose cycle goes on from one engine value to the next.  One that    *)
(* passes to another scope is another rule.                                  *)
SameCycle(old, new) ==
    {id \in DOMAIN old.rules \cap DOMAIN new.rules :
        /\ old.rules[id].scope = new.rules[id].scope
        /\ old.rules[id].enabled \/ ~new.rules[id].enabled}

(* The engine becomes e, the bus table is recomputed on top of `table`.      *)
EngineBecomes(e, table) ==
    /\ engine' = e
    /\ subs' = RecomputedSubs(table, e)
    /\ subscribedIds' = Desired(e)
    /\ fires' = Restrict(fires, DOMAIN fires \cap SameCycle(engine, e))

-----------------------------------------------------------------------------
(* Who may act: PluginHost starts the plugins one by one before the event    *)
(* loop runs and stops them after it.  Until then and from then on only the  *)
(* plugin whose initialize() or shutdown() is under way acts of its own; in  *)
(* between, every started plugin and the host; and whoever is called, in its *)
(* call.                                                                     *)

Phases == {"registered", "starting", "started", "failed", "stopping", "stopped"}
UnderWay == {p \in Plugins : phase[p] \in {"starting", "stopping"}}

(* The plugins whose rules may be there: initialize() was called, and no     *)
(* unload has swept them.  One that failed in initialize() stays among them: *)
(* its instance is destroyed, its rules and listeners are not taken back.    *)
Holders == {p \in Plugins : phase[p] \in {"starting", "started", "failed", "stopping"}}

Called(p) == ~Idle /\ Top.kind = "plugin" /\ Top.owner = p

Running(p) ==
    /\ phase[p] \in {"starting", "started", "stopping"}
    /\ \/ Idle /\ (p \in UnderWay \/ era = "up")
       \/ Called(p)

HostRuns == Idle /\ era = "up"

(* Plugins create and delete instances and mount packs, so the host is at    *)
(* work inside their calls too.                                              *)
CallerRuns == HostRuns \/ (Idle /\ UnderWay # {}) \/ (~Idle /\ Top.kind = "plugin")

Outside == calls < MaxCalls /\ calls' = calls + 1

RegisterPluginRule(p, doc) ==
    /\ Running(p) /\ Outside
    /\ LET bare == Get(doc, "id")
           id == <<"plugin">> \o p \o (IF bare.t = "str" THEN bare.v ELSE <<>>)
           foreign == /\ bare.t = "str" /\ id \in DOMAIN engine.rules
                      /\ \/ engine.rules[id].scope # "plugin"
                         \/ engine.rules[id].owner # p
       IN  EngineBecomes(IF foreign THEN engine
                         ELSE CompileScopedInto(engine, doc, "plugin", p), subs)
    /\ UNCHANGED <<stack, observed, gates, clock>>

UnregisterPluginRule(p, bareId) ==
    /\ Running(p) /\ Outside
    /\ LET id == <<"plugin">> \o p \o bareId
           own == /\ id \in DOMAIN engine.rules
                  /\ engine.rules[id].scope = "plugin"
                  /\ engine.rules[id].owner = p
       IN  EngineBecomes(IF own THEN Removed(engine, {id}) ELSE engine, subs)
    /\ UNCHANGED <<stack, observed, gates, clock>>

PluginSubscribes(p, e, priority) ==
    /\ Running(p) /\ Outside
    /\ subs' = Subscribed(subs, e, p, priority, p)
    /\ UNCHANGED <<stack, engine, subscribedIds, observed, gates, clock, fires>>

PluginUnsubscribes(p, e) ==
    /\ Running(p) /\ Outside
    /\ subs' = Unsubscribed(subs, e, p)
    /\ UNCHANGED <<stack, engine, subscribedIds, observed, gates, clock, fires>>

(* publish() as its caller sees it, on this table; a refusal or an empty     *)
(* channel is over.                                                          *)
PublishOn(table, event) ==
    stack' = IF PublishResult(stack, table, event) = "Dispatched"
             THEN Published(stack, table, event) ELSE stack

Publish(event) == PublishOn(subs, event)

Event(id, uuid, cancellable, payload) ==
    [id |-> id, uuid |-> uuid, cancellable |-> cancellable, cancelled |-> FALSE,
     payload |-> payload, at |-> clock]

PluginPublishes(p, e) ==
    /\ Running(p) /\ Outside
    /\ MayPublish(p, e)
    /\ Publish(Event(e, "", FALSE, <<>>))
    /\ UNCHANGED <<subs, engine, subscribedIds, observed, gates, clock, fires>>

HostPublishes(h) ==
    /\ CallerRuns /\ Outside
    /\ Publish(Event(h.id, h.uuid, h.cancellable, h.payload))
    /\ UNCHANGED <<subs, engine, subscribedIds, observed, gates, clock, fires>>

-----------------------------------------------------------------------------
(* Observers.                                                                *)

RosterChanged(new, readable) ==
    /\ CallerRuns /\ Outside
    /\ roster' = new
    /\ LET current == DOMAIN new
           gone == knownUuids \ current
           swept == Removed(engine,
                       UNION {UnderPrefix(engine, <<"inst", u>>) : u \in gone})
       IN  /\ \E order \in Orders(current \ knownUuids) :
                 EngineBecomes(LoadInstancesInto(swept, order, readable), subs)
           /\ knownUuids' = current
           /\ lastActivity' = [u \in Uuids |-> IF u \in gone THEN 0 ELSE lastActivity[u]]
           /\ lastMotion' = [u \in Uuids |-> IF u \in gone THEN 0 ELSE lastMotion[u]]
           /\ runtimeCache' = [u \in Uuids |-> IF u \in gone THEN EmptyText
                                               ELSE runtimeCache[u]]
    /\ UNCHANGED <<stack, gates, clock>>

InstanceStateChanged(u, pack) ==
    /\ CallerRuns /\ Outside
    /\ runtimeCache' = [runtimeCache EXCEPT ![u] = pack]
    /\ UNCHANGED <<subs, stack, engine, subscribedIds, knownUuids, lastActivity,
                   lastMotion, roster, gates, clock, fires>>

(* The user flips the write switch.                                          *)
SwitchWrites ==
    /\ HostRuns /\ Outside
    /\ writeEnabled' = ~writeEnabled
    /\ UNCHANGED <<subs, stack, engine, subscribedIds, observed, phase, era,
                   clock, fires>>

(* initializeAll() gives a plugin the event and rule APIs and calls its      *)
(* initialize().                                                             *)
StartPlugin(p) ==
    /\ Idle /\ era = "boot" /\ UnderWay = {} /\ phase[p] = "registered"
    /\ phase' = [phase EXCEPT ![p] = "starting"]
    /\ UNCHANGED <<subs, stack, engine, subscribedIds, observed, writeEnabled, era,
                   clock, calls, fires>>

PluginEvent(id) == Event(id, "", FALSE, <<>>)

InitializeReturns(p) ==
    /\ Idle /\ phase[p] = "starting"
    /\ phase' = [phase EXCEPT ![p] = "started"]
    /\ Publish(PluginEvent(PluginLoaded))
    /\ UNCHANGED <<subs, engine, subscribedIds, observed, writeEnabled, era,
                   clock, calls, fires>>

(* initialize() returns an error or throws: the instance is destroyed and    *)
(* nothing is swept.                                                         *)
InitializeFails(p) ==
    /\ Idle /\ phase[p] = "starting"
    /\ phase' = [phase EXCEPT ![p] = "failed"]
    /\ UNCHANGED <<subs, stack, engine, subscribedIds, observed, writeEnabled, era,
                   clock, calls, fires>>

(* initializeAll() is through and the event loop begins; it ends, and        *)
(* shutdownAll() goes through the plugins that are started, or some of them  *)
(* when its time runs out.                                                   *)
NextEra ==
    /\ Idle /\ UnderWay = {}
    /\ \/ era = "boot" /\ era' = "up" /\ \A p \in Plugins : phase[p] # "registered"
       \/ era = "up" /\ era' = "down"
    /\ UNCHANGED <<subs, stack, engine, subscribedIds, observed, writeEnabled, phase,
                   clock, calls, fires>>

ShutdownBegins(p) ==
    /\ Idle /\ era = "down" /\ UnderWay = {} /\ phase[p] = "started"
    /\ phase' = [phase EXCEPT ![p] = "stopping"]
    /\ UNCHANGED <<subs, stack, engine, subscribedIds, observed, writeEnabled, era,
                   clock, calls, fires>>

(* shutdown() is back: bus entries and rules are swept, and the others told. *)
StopPlugin(p) ==
    /\ Idle /\ phase[p] = "stopping"
    /\ phase' = [phase EXCEPT ![p] = "stopped"]
    /\ EngineBecomes(Removed(engine, UnderPrefix(engine, <<"plugin">> \o p)),
                     UnsubscribedByPublisher(subs, p))
    /\ PublishOn(subs', PluginEvent(PluginUnloaded))
    /\ UNCHANGED <<observed, writeEnabled, era, clock, calls>>

(* A dispatch has come to the listener of a plugin whose instance was        *)
(* destroyed when it failed: what follows is undefined, and nothing that     *)
(* does is modelled.                                                         *)
CallsDestroyed == AtPublish /\ Top.todo # <<>> /\ NextListener \in Plugins
                  /\ phase[NextListener] = "failed"

Tick == /\ clock < MaxClock /\ ~CallsDestroyed
        /\ clock' = clock + 1
        /\ UNCHANGED <<subs, stack, engine, subscribedIds, observed, gates, calls, fires>>

-----------------------------------------------------------------------------
(* onEvent, action by action.                                                *)

Later(a, b) == IF a >= b THEN a ELSE b

BuildContext(event) ==
    LET known == event.uuid \in DOMAIN roster
    IN  [payload |-> event.payload,
         lastActivity |-> IF event.uuid \in Uuids THEN lastActivity[event.uuid] ELSE 0,
         lastMotion |-> IF event.uuid \in Uuids THEN lastMotion[event.uuid] ELSE 0,
         model |-> IF known THEN roster[event.uuid].model ELSE EmptyText,
         connected |-> known /\ roster[event.uuid].connected,
         pack |-> IF event.uuid \in Uuids THEN runtimeCache[event.uuid] ELSE EmptyText,
         hour |-> Hour]

IsIdleMotion(event) == Get(event.payload, "group") = Str(<<"idle">>)

UpdateTracking(event) ==
    LET stamp(seen) == IF event.uuid \in Uuids
                       THEN [seen EXCEPT ![event.uuid] = Later(@, event.at)] ELSE seen
        moved == event.id = MotionFinished
        active == event.id \in {HitEvent, DragEnded} \/ (moved /\ ~IsIdleMotion(event))
    IN  /\ lastActivity' = IF active THEN stamp(lastActivity) ELSE lastActivity
        /\ lastMotion' = IF moved THEN stamp(lastMotion) ELSE lastMotion

Concerns(rule, event) ==
    /\ rule.trigger = event.id
    /\ rule.scope = "instance" => rule.owner = <<event.uuid>>

(* The rules an event concerns, in the order they are looked at.             *)
OrderedRules(event) ==
    LET concerned == {r \in Range(engine.rules) : Concerns(r, event)}
    IN  Listed(concerned, {p \in concerned \X concerned :
                              p[1] = p[2] \/ RuleCompositeLess(p[1], p[2])})

(* The service is called: context first, then the trackers, then a copy of   *)
(* the rules; an event that is already claimed gets no rule.                 *)
OnEvent ==
    /\ AtPublish /\ Top.todo # <<>> /\ NextListener = Service
    /\ LET event == Top.event
           copy == OrderedRules(event)
       IN  /\ stack' = Append(Calling(stack),
                 [kind |-> "service", todo |-> IF event.cancelled THEN <<>> ELSE copy,
                  ctx |-> BuildContext(event), event |-> event, rule |-> <<>>,
                  actions |-> <<>>])
           /\ UpdateTracking(event)
    /\ UNCHANGED <<subs, engine, subscribedIds, knownUuids, runtimeCache, roster,
                   gates, clock, calls, fires>>

OnPlugin ==
    /\ AtPublish /\ Top.todo # <<>> /\ NextListener \in Plugins /\ ~CallsDestroyed
    /\ stack' = Append(Calling(stack), [kind |-> "plugin", owner |-> NextListener])
    /\ UNCHANGED <<subs, engine, subscribedIds, observed, gates, clock, calls, fires>>

AtService == ~Idle /\ Top.kind = "service"
AtRule    == AtService /\ Top.actions = <<>> /\ Top.todo # <<>>
AtAction  == AtService /\ Top.actions # <<>>
NextRule  == Head(Top.todo)

Fires(rule) == AtRule /\ rule = NextRule
               /\ ShouldFire(engine, rule, Top.ctx, Top.event.at)

SkipRule ==
    /\ AtRule /\ ~Fires(NextRule)
    /\ stack' = [stack EXCEPT ![Len(stack)].todo = Tail(@)]
    /\ UNCHANGED <<subs, engine, subscribedIds, observed, gates, clock, calls, fires>>

(* The fire is recorded before the first action; a dry run stops there.      *)
FireRule ==
    /\ AtRule /\ Fires(NextRule)
    /\ LET rule == NextRule
           begun == [stack EXCEPT ![Len(stack)].todo = Tail(@),
                                  ![Len(stack)].rule = rule,
                                  ![Len(stack)].actions =
                                      IF rule.dryRun THEN <<>> ELSE rule.actions]
       IN  /\ engine' = FireRecorded(engine, rule, Top.event.at)
           /\ stack' = IF rule.cancelDefault /\ ~rule.dryRun THEN Cancelled(begun)
                       ELSE begun
           /\ fires' = IF rule.id \in DOMAIN engine.rules
                       THEN With(fires, rule.id, Top.event.at) ELSE fires
    /\ UNCHANGED <<subs, subscribedIds, observed, gates, clock, calls>>

(* Rules of plugins tune an instance only while they are allowed to.         *)
PluginActionDenied(rule, kind) ==
    /\ rule.id[1] = "plugin"
    /\ kind \in {"play_motion", "set_expression"}
    /\ ~writeEnabled \/ rule.owner \notin Tuning

(* What an action needs besides the service it calls being willing.          *)
ActionAllowed(rule, a, ctx) ==
    LET kind == a["kind"].v[1]
    IN  /\ ~PluginActionDenied(rule, kind)
        /\ kind = "play_pack_audio" => ctx.pack = a["pack"].v

(* Fail-fast: the first action that fails takes the rest with it.            *)
Act(willing) ==
    /\ AtAction
    /\ LET a == Head(Top.actions)
           ok == willing /\ ActionAllowed(Top.rule, a, Top.ctx)
       IN  /\ a["kind"].v # <<"publish_event">>
           /\ stack' = [stack EXCEPT ![Len(stack)].actions = IF ok THEN Tail(@) ELSE <<>>]
    /\ UNCHANGED <<subs, engine, subscribedIds, observed, gates, clock, calls, fires>>

ActPublish ==
    /\ AtAction
    /\ LET a == Head(Top.actions)
           event == Event(a["event"].v, Top.event.uuid, FALSE, <<>>)
           result == PublishResult(stack, subs, event)
           rest == [stack EXCEPT ![Len(stack)].actions =
                       IF result \in {"Ok", "Dispatched"} THEN Tail(@) ELSE <<>>]
       IN  /\ a["kind"].v = <<"publish_event">>
           /\ stack' = IF result = "Dispatched" THEN Published(rest, subs, event)
                       ELSE rest
    /\ UNCHANGED <<subs, engine, subscribedIds, observed, gates, clock, calls, fires>>

ServiceReturns ==
    /\ AtService /\ Top.actions = <<>> /\ Top.todo = <<>>
    /\ stack' = Returned(stack)
    /\ UNCHANGED <<subs, engine, subscribedIds, observed, gates, clock, calls, fires>>

(* A plugin's listener comes back, having claimed the event or not.          *)
PluginReturns(claims) ==
    /\ ~Idle /\ Top.kind = "plugin"
    /\ stack' = Returned(IF claims THEN Cancelled(stack) ELSE stack)
    /\ UNCHANGED <<subs, engine, subscribedIds, observed, gates, clock, calls, fires>>

PublishReturns ==
    PublishEnds /\ UNCHANGED <<engine, subscribedIds, observed, gates, clock, calls, fires>>

-----------------------------------------------------------------------------
(* The constructor: the panel's and the instances' rules are compiled into a *)
(* fresh engine, and the bus is subscribed for them.                         *)
LoadAll(order, readable) ==
    LET panel == IF "panel" \in readable
                 THEN LoadRulesArrayInto(EmptyEngine, PanelDocs, "panel", <<>>)
                 ELSE EmptyEngine
    IN  LoadInstancesInto(panel, order, readable)

RuleInit ==
    \E readable \in SUBSET (Uuids \cup {"panel"}), uuids \in SUBSET Uuids :
    \E order \in Orders(uuids) :
       LET e == LoadAll(order, readable)
       IN  /\ roster \in [uuids -> Rows]
           /\ engine = e
           /\ subscribedIds = Desired(e)
           /\ subs = [id \in EventIds |->
                        IF id \in Desired(e) THEN <<Entry(Service, Low, Host)>> ELSE <<>>]
           /\ stack = <<>>
           /\ knownUuids = uuids
           /\ lastActivity = [u \in Uuids |-> 0]
           /\ lastMotion = [u \in Uuids |-> 0]
           /\ runtimeCache = [u \in Uuids |-> EmptyText]
           /\ writeEnabled = TRUE
           /\ phase = [p \in Plugins |-> "registered"]
           /\ era = "boot"
           /\ clock = 1
           /\ calls = 0
           /\ fires = <<>>

(* The steps of a dispatch that is under way.                                *)
Dispatch ==
    \/ OnEvent \/ OnPlugin \/ SkipRule \/ FireRule \/ ActPublish \/ ServiceReturns
    \/ PublishReturns
    \/ \E b \in BOOLEAN : Act(b)
    \/ \E b \in BOOLEAN : PluginReturns(b)

Environment ==
    \/ Tick \/ SwitchWrites \/ NextEra
    \/ \E h \in HostEvents : HostPublishes(h)
    \/ \E p \in Plugins :
          \/ StartPlugin(p) \/ InitializeReturns(p) \/ InitializeFails(p)
          \/ ShutdownBegins(p) \/ StopPlugin(p)
          \/ \E d \in Docs : \/ RegisterPluginRule(p, d)
                             \/ UnregisterPluginRule(p, Get(d, "id").v)
          \/ \E e \in EventIds : PluginPublishes(p, e)
    \/ \E w \in Wanted : \/ PluginSubscribes(w[1], w[2], w[3])
                         \/ PluginUnsubscribes(w[1], w[2])
    \/ \E us, ok \in SUBSET Uuids : \E new \in [us -> Rows] : RosterChanged(new, ok)
    \/ \E u \in Uuids, pack \in Packs \cup {EmptyText} : InstanceStateChanged(u, pack)

RuleNext == Dispatch \/ Environment

(* Everything a dispatch does is straight-line code of the GUI thread, and a *)
(* listener is required to return (api/IEventApi.hpp:111-115).               *)
RuleSpec == RuleInit /\ [][RuleNext]_ruleVars /\ WF_ruleVars(Dispatch)

-----------------------------------------------------------------------------
(* A one-shot rule fires once, and any other not again before its cooldown   *)
(* is over, in each of its enabled cycles: also when the rule is replaced    *)
(* while it fires, and when its own action brings its trigger about again.   *)
FiresAreSpaced ==
    [][(FireRule /\ NextRule.id \in DOMAIN fires) =>
          /\ ~NextRule.oneShot
          /\ \/ NextRule.cooldown = 0
             \/ Top.event.at - fires[NextRule.id] >= NextRule.cooldown]_ruleVars

(* Whatever is registered, replaced, swept or reloaded in the middle of a    *)
(* dispatch, the bus calls the service for exactly the events some enabled   *)
(* rule waits for, and the activity events while there is such a rule.       *)
ServiceHearsItsTriggers ==
    /\ subscribedIds = Desired(engine)
    /\ \A id \in EventIds :
          id \in subscribedIds <=> \E i \in DOMAIN subs[id] : subs[id][i].listener = Service

(* No rule outlives its owner but those of a plugin that failed: what is     *)
(* stored belongs to the panel, to an instance of the roster, or to a plugin *)
(* that got as far as initialize() and was not unloaded; and a rule cannot   *)
(* publish in the name of the host.                                          *)
RulesHaveOwners ==
    \A r \in Range(engine.rules) :
       /\ r.scope = "instance" => r.owner[1] \in DOMAIN roster
       /\ r.scope = "plugin" => r.owner \in Holders
       /\ \A i \in DOMAIN r.actions :
             r.actions[i]["kind"].v = <<"publish_event">> => IsRuleEvent(r.actions[i]["event"].v)

(* The stored rules have an owner nobody has swept, and are served.          *)
RulesAreServed == ServiceHearsItsTriggers /\ RulesHaveOwners

(* Why: the service's entries are the host's, so no plugin's end sweeps      *)
(* them, and what is stored is named after its owner, so the sweep by prefix *)
(* reaches it.                                                               *)
TableIsSound ==
    /\ subs \in [EventIds -> Seq([listener : {Service} \cup Plugins, priority : 0..Lowest,
                                  publisher : {Host} \cup Plugins])]
    /\ \A id \in EventIds : \A i \in DOMAIN subs[id] :
          subs[id][i].listener = Service => subs[id][i].publisher = Host

RuleIsSound(r, uuids, running) ==
    /\ r.scope \in {"instance", "panel", "plugin"}
    /\ r.priority \in Int /\ r.cooldown \in Nat /\ IsValidEventId(r.trigger)
    /\ r.scope = "instance" =>
          \E u \in uuids : r.owner = <<u>> /\ IsStrictPrefix(<<"inst", u>>, r.id)
    /\ r.scope = "plugin" =>
          r.owner \in running /\ IsStrictPrefix(<<"plugin">> \o r.owner, r.id)
    /\ \A i \in DOMAIN r.actions :
          r.actions[i]["kind"].v = <<"publish_event">> => IsRuleEvent(r.actions[i]["event"].v)

EngineIsSound(e, uuids, running) ==
    /\ {"rules", "fired", "next"} \subseteq DOMAIN e
    /\ IsFiniteSet(DOMAIN e.rules) /\ e.next \in Nat
    /\ \A id \in DOMAIN e.rules :
          LET r == e.rules[id]
          IN  /\ r.id = id /\ r.order \in 0..e.next - 1
              /\ RuleIsSound(r, uuids, running)
              /\ \A other \in DOMAIN e.rules : e.rules[other].order = r.order => other = id

ServedInv ==
    /\ TableIsSound /\ ServiceHearsItsTriggers
    /\ knownUuids = DOMAIN roster /\ knownUuids \subseteq Uuids /\ phase \in [Plugins -> Phases]
    /\ EngineIsSound(engine, knownUuids, Holders)

(* What the service works off is the rules it copied, at a moment after the  *)
(* start; and the engine remembers every fire of a cycle that goes on.       *)
FrameIsSound(f) ==
    /\ "kind" \in DOMAIN f
    /\ f.kind \in {"publish", "service"} =>
          /\ {"event", "todo"} \subseteq DOMAIN f /\ {"at", "cancelled"} \subseteq DOMAIN f.event
          /\ f.event.at \in Nat \ {0}
    /\ f.kind = "service" =>
          /\ {"rule", "actions"} \subseteq DOMAIN f /\ f.todo \in Seq(Range(f.todo))
          /\ \A k \in DOMAIN f.todo : f.todo[k].cooldown \in Nat

FiresInv ==
    /\ clock \in Nat \ {0}
    /\ \A i \in DOMAIN stack : FrameIsSound(stack[i])
    /\ \A id \in DOMAIN fires :
          /\ id \in DOMAIN engine.rules /\ id \in DOMAIN engine.fired
          /\ fires[id] = engine.fired[id] /\ fires[id] \in Nat \ {0}

(* However the rules trigger one another, a publish comes to its end, or to  *)
(* a listener that a failed initialize() left behind.                        *)
EveryPublishReturns == stack # <<>> ~> (stack = <<>> \/ CallsDestroyed)

(* REFUTED: the sweeps of the unload are there so that a plugin that is gone *)
(* leaves no "live rules ... firing forever" and no "dangling pointers"      *)
(* (PluginHost.cpp:433, 452-453).  One that failed in initialize() is        *)
(* destroyed without them.                                                   *)
FailedLeaveNoRules ==
    \A r \in Range(engine.rules) : r.scope = "plugin" => phase[r.owner] # "failed"
FailedAreNotCalled == ~CallsDestroyed

(* REFUTED: the unload sweeps "a plugin's whole set" by the prefix of its    *)
(* rules (RuleEngineService.hpp:56-57); plugin.org.a. is also a prefix of    *)
(* those of the plugin org.a.b.                                              *)
SweepSparesNeighbours ==
    [][\A p \in Plugins : StopPlugin(p) =>
          \A id \in DOMAIN engine.rules \ DOMAIN engine'.rules :
             engine.rules[id].owner = p]_ruleVars
=============================================================================
