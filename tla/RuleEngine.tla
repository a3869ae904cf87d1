----------------------------- MODULE RuleEngine -----------------------------
(* The rule engine (core/RuleEngine.cpp): what a rule document must look     *)
(* like to be compiled, how compiled rules are stored, ordered and swept,    *)
(* and when one of them fires.  Nothing here is a step: RuleService applies  *)
(* these operators to its engine value.                                      *)
(*                                                                           *)
(* A JSON value is a record of its type t and its value v.  A string is its  *)
(* sequence of dot-separated segments, a number is counted in thousandths,   *)
(* an object is a function from its keys.                                    *)
EXTENDS Integers, Sequences, SequencesExt, FiniteSets, FiniteSetsExt, Functions

CONSTANTS EventSegments,   \* segments made of [a-z0-9_]
          IdSegments,      \* segments made of [a-z0-9_-]
          MaxRules         \* kRuleMaxRules (200)

ASSUME RuleAssumption == EventSegments \subseteq IdSegments /\ MaxRules \in Nat

MaxActionsPerRule == 8

Absent  == [t |-> "absent"]
Null    == [t |-> "null"]
Bool(b) == [t |-> "bool", v |-> b]
Num(n)  == [t |-> "num", v |-> n]
Str(s)  == [t |-> "str", v |-> s]
Arr(s)  == [t |-> "array", v |-> s]
Obj(f)  == [t |-> "object", v |-> f]

EmptyText == <<"">>

Get(o, k) == IF k \in DOMAIN o THEN o[k] ELSE Absent

IsNumber(j)         == j.t = "num"
IsIntegralNumber(j) == IsNumber(j) /\ j.v % 1000 = 0
IsCount(j)          == IsIntegralNumber(j) /\ j.v >= 0
IsNonEmptyString(j) == j.t = "str" /\ j.v # EmptyText
IsWhereScalar(j)    == j.t \in {"str", "bool", "num"}
KeysWithin(o, keys) == DOMAIN o \subseteq keys
Optional(j, ok)     == j = Absent \/ ok
IsOptionalBool(j)   == Optional(j, j.t = "bool")
IntOr(j, default)   == IF j = Absent THEN default ELSE j.v \div 1000
BoolOr(j, default)  == IF j = Absent THEN default ELSE j.v

IsValidEventIdSyntax(id) ==
    Len(id) >= 3 /\ \A i \in DOMAIN id : id[i] \in EventSegments
IsValidRuleIdSyntax(id) == \A i \in DOMAIN id : id[i] \in IdSegments

-----------------------------------------------------------------------------
(* compileRule: strict on what comes in.  Only whether a document is         *)
(* accepted is modelled, not which of the error codes a rejection carries.   *)

MetaLegal(doc) ==
    /\ Get(doc, "schema_version") = Num(1000)
    /\ Get(doc, "id").t = "str" /\ IsValidRuleIdSyntax(Get(doc, "id").v)
    /\ KeysWithin(doc, {"schema_version", "id", "enabled", "trigger",
                        "condition", "actions", "cancel_default", "priority",
                        "cooldown_ms", "one_shot", "dry_run"})
    /\ \A k \in {"enabled", "cancel_default", "one_shot", "dry_run"} :
          IsOptionalBool(Get(doc, k))
    /\ LET p == Get(doc, "priority")    IN Optional(p, IsIntegralNumber(p))
    /\ LET c == Get(doc, "cooldown_ms") IN Optional(c, IsCount(c))

PredicateLegal(p) ==
    /\ p.t = "object" /\ KeysWithin(p.v, {"op", "value"})
    /\ LET op == Get(p.v, "op")
           value == Get(p.v, "value")
       IN  \/ op = Str(<<"exists">>) /\ value = Absent
           \/ op \in {Str(<<"eq">>), Str(<<"ne">>)} /\ IsWhereScalar(value)
           \/ /\ op = Str(<<"in">>) /\ value.t = "array"
              /\ \A i \in DOMAIN value.v : IsWhereScalar(value.v[i])

TriggerLegal(trigger) ==
    /\ trigger.t = "object" /\ KeysWithin(trigger.v, {"event", "where"})
    /\ LET event == Get(trigger.v, "event")
       IN  event.t = "str" /\ IsValidEventIdSyntax(event.v)
    /\ LET where == Get(trigger.v, "where")
       IN  \/ where = Absent
           \/ /\ where.t = "object"
              /\ \A f \in DOMAIN where.v : PredicateLegal(where.v[f])

IsHour(j) == IsCount(j) /\ j.v <= 23000

ConditionLegal(c) ==
    /\ c.t = "object"
    /\ LET Has(kind, keys) == /\ Get(c.v, "kind") = Str(<<kind>>)
                              /\ KeysWithin(c.v, {"kind"} \cup keys)
       IN  \/ /\ Has("idle_for", {"op", "value_s"})
                 \/ Has("since_last_motion", {"op", "value_s"})
              /\ Get(c.v, "op") \in {Str(<<"gt">>), Str(<<"ge">>)}
              /\ IsNumber(Get(c.v, "value_s")) /\ Get(c.v, "value_s").v >= 0
           \/ /\ Has("time_of_day", {"from_hour", "to_hour"})
              /\ IsHour(Get(c.v, "from_hour")) /\ IsHour(Get(c.v, "to_hour"))
           \/ Has("model_is", {"value"}) /\ IsNonEmptyString(Get(c.v, "value"))
           \/ Has("pack_mounted", {"value"}) /\ Get(c.v, "value").t = "str"

(* A rule publishes below pet.rules. only: it cannot pass for the host.      *)
IsRuleEvent(id) == IsStrictPrefix(<<"pet", "rules">>, id)

ActionLegal(a) ==
    /\ a.t = "object"
    /\ LET Has(kind, keys) == /\ Get(a.v, "kind") = Str(<<kind>>)
                              /\ KeysWithin(a.v, {"kind"} \cup keys)
           Names(k) == IsNonEmptyString(Get(a.v, k))
           Counts(k) == Optional(Get(a.v, k), IsCount(Get(a.v, k)))
           event == Get(a.v, "event")
           payload == Get(a.v, "payload")
       IN  \/ Has("play_motion", {"group", "index"}) /\ Names("group") /\ Counts("index")
           \/ Has("play_pack_audio", {"pack", "group"}) /\ Names("pack") /\ Names("group")
           \/ Has("set_expression", {"id"}) /\ Names("id")
           \/ Has("notify_bubble", {"text", "duration_ms"}) /\ Names("text")
                 /\ Counts("duration_ms")
           \/ /\ Has("publish_event", {"event", "payload"})
              /\ event.t = "str" /\ IsRuleEvent(event.v) /\ IsValidEventIdSyntax(event.v)
              /\ Optional(payload, payload.t = "object")

Compiles(doc) ==
    LET conditions == Get(doc, "condition")
        actions == Get(doc, "actions")
    IN  /\ MetaLegal(doc)
        /\ TriggerLegal(Get(doc, "trigger"))
        /\ \/ conditions = Absent
           \/ /\ conditions.t = "array"
              /\ \A i \in DOMAIN conditions.v : ConditionLegal(conditions.v[i])
        /\ actions.t = "array" /\ Len(actions.v) \in 1..MaxActionsPerRule
        /\ \A i \in DOMAIN actions.v : ActionLegal(actions.v[i])

(* The compiled rule; evaluation keeps the legal objects as they are.        *)
Compiled(doc) ==
    LET trigger == doc["trigger"].v
        where == Get(trigger, "where")
        conditions == Get(doc, "condition")
    IN  [id |-> doc["id"].v, scope |-> "panel", owner |-> <<>>, order |-> 0,
         enabled |-> BoolOr(Get(doc, "enabled"), TRUE),
         trigger |-> trigger["event"].v,
         where |-> IF where = Absent THEN <<>>
                   ELSE [f \in DOMAIN where.v |-> where.v[f].v],
         conditions |-> IF conditions = Absent THEN <<>>
                        ELSE [i \in DOMAIN conditions.v |-> conditions.v[i].v],
         actions |-> [i \in DOMAIN doc["actions"].v |-> doc["actions"].v[i].v],
         cancelDefault |-> BoolOr(Get(doc, "cancel_default"), FALSE),
         priority |-> IntOr(Get(doc, "priority"), 100),
         cooldown |-> IntOr(Get(doc, "cooldown_ms"), 0),
         oneShot |-> BoolOr(Get(doc, "one_shot"), FALSE),
         dryRun |-> BoolOr(Get(doc, "dry_run"), FALSE)]

-----------------------------------------------------------------------------
(* The stored rules with their fire bookkeeping: one value, copied whole.    *)

EmptyEngine == [rules |-> <<>>, fired |-> <<>>, next |-> 0]

With(f, key, value) ==
    [k \in DOMAIN f \cup {key} |-> IF k = key THEN value ELSE f[k]]

Without(f, keys) == Restrict(f, DOMAIN f \ keys)

UpsertLegal(engine, rule) ==
    /\ IsValidRuleIdSyntax(rule.id)
    /\ Len(rule.actions) \in 1..MaxActionsPerRule
    /\ rule.id \in DOMAIN engine.rules \/ Cardinality(DOMAIN engine.rules) < MaxRules

(* A rule that is new, or enabled again, begins a cycle of its own.          *)
BeginsCycle(engine, rule) ==
    rule.id \in DOMAIN engine.rules =>
       ~engine.rules[rule.id].enabled /\ rule.enabled

Upserted(engine, rule) ==
    [rules |-> With(engine.rules, rule.id, [rule EXCEPT !.order = engine.next]),
     fired |-> IF BeginsCycle(engine, rule) THEN Without(engine.fired, {rule.id})
               ELSE engine.fired,
     next |-> engine.next + 1]

Removed(engine, ids) ==
    [engine EXCEPT !.rules = Without(@, ids), !.fired = Without(@, ids)]

UnderPrefixEnabled(engine, prefix) ==
    {id \in DOMAIN engine.rules : IsStrictPrefix(prefix, id) /\ engine.rules[id].enabled}

(* removeRulesByOwnerPrefix: the prefix ends in a dot.                       *)
UnderPrefix(engine, prefix) ==
    {id \in DOMAIN engine.rules : IsStrictPrefix(prefix, id)}

ScopeWeight(scope) == CASE scope = "instance" -> 0
                        [] scope = "panel"    -> 1
                        [] scope = "plugin"   -> 2

RuleCompositeLess(a, b) ==
    \/ a.priority < b.priority
    \/ /\ a.priority = b.priority
       /\ \/ ScopeWeight(a.scope) < ScopeWeight(b.scope)
          \/ ScopeWeight(a.scope) = ScopeWeight(b.scope) /\ a.order < b.order

SubscribedEventIds(engine) ==
    {r.trigger : r \in {x \in Range(engine.rules) : x.enabled}}

-----------------------------------------------------------------------------
(* shouldFire: what is not known makes a condition false.                    *)

(* Values of different JSON types are never equal.                           *)
JsonEquals(a, b) == a.t = b.t /\ IsWhereScalar(a) /\ a.v = b.v

MatchPredicate(p, actual) ==
    CASE p["op"].v = <<"exists">> -> actual.t \notin {"absent", "null"}
      [] p["op"].v = <<"eq">> -> JsonEquals(actual, p["value"])
      [] p["op"].v = <<"ne">> -> ~JsonEquals(actual, p["value"])
      [] p["op"].v = <<"in">> ->
            \E i \in DOMAIN p["value"].v : JsonEquals(actual, p["value"].v[i])

(* A threshold over the time since a moment; 0 is "never seen".              *)
PastThreshold(c, since, now) ==
    /\ since > 0
    /\ IF c["op"].v = <<"gt">> THEN now - since > c["value_s"].v
                               ELSE now - since >= c["value_s"].v

(* Both ends belong to the window; from > to wraps around midnight.          *)
HourWithin(h, from, to) ==
    IF from <= to THEN from <= h /\ h <= to ELSE from <= h \/ h <= to

MatchCondition(c, ctx, now) ==
    CASE c["kind"].v = <<"idle_for">> -> PastThreshold(c, ctx.lastActivity, now)
      [] c["kind"].v = <<"since_last_motion">> -> PastThreshold(c, ctx.lastMotion, now)
      [] c["kind"].v = <<"time_of_day">> ->
            /\ ctx.hour \in 0..23
            /\ HourWithin(ctx.hour, c["from_hour"].v \div 1000, c["to_hour"].v \div 1000)
      [] c["kind"].v = <<"model_is">> -> ctx.model # EmptyText /\ ctx.model = c["value"].v
      [] c["kind"].v = <<"pack_mounted">> -> ctx.pack = c["value"].v

(* The latch of a one-shot rule and the cooldown, against the live record.   *)
Rested(engine, rule, now) ==
    rule.id \in DOMAIN engine.fired =>
       LET last == engine.fired[rule.id]
       IN  /\ ~rule.oneShot
           /\ ~(rule.cooldown > 0 /\ last > 0 /\ now - last < rule.cooldown)

ShouldFire(engine, rule, ctx, now) ==
    /\ rule.enabled
    /\ ctx.connected
    /\ Rested(engine, rule, now)
    /\ \A f \in DOMAIN rule.where : MatchPredicate(rule.where[f], Get(ctx.payload, f))
    /\ \A i \in DOMAIN rule.conditions : MatchCondition(rule.conditions[i], ctx, now)

FireRecordedForCooldown(engine, rule, now) ==
    IF rule.id \in DOMAIN engine.rules /\ rule.cooldown > 0
    THEN [engine EXCEPT !.fired = With(@, rule.id, now)]
    ELSE engine

(* recordFire: a rule removed meanwhile leaves no record.                    *)
FireRecorded(engine, rule, now) ==
    IF rule.id \in DOMAIN engine.rules
    THEN [engine EXCEPT !.fired = With(@, rule.id, now)]
    ELSE engine
=============================================================================
