------------------------------ MODULE MCRules ------------------------------
(* Two plugins, one of them named below the other, one instance, and rules   *)
(* that claim a hit, feed themselves, wait for idle time and tune.           *)
EXTENDS RuleService

Ours    == <<"org", "a">>
Nested  == <<"org", "a", "b">>
MCPlugins == {Ours, Nested}
MCUuids == {"u1"}

Echo     == <<"pet", "rules", "echo">>
OwnEvent == <<"plugin", "org", "a", "poke">>
MCEventIds == {HitEvent, MotionFinished, PluginLoaded, PluginUnloaded, Echo, OwnEvent}
MCWanted == {<<Ours, HitEvent, Lowest>>, <<Ours, PluginUnloaded, Normal>>,
             <<Nested, Echo, Normal>>, <<Nested, OwnEvent, Normal>>,
             <<Nested, PluginLoaded, Normal>>}
MCSegments == {"pet", "instance", "hit", "drag", "ended", "motion_finished",
               "rules", "echo", "panel", "plugin_loaded", "plugin_unloaded",
               "plugin", "org", "a", "poke"}
MCIdSegments == MCSegments \cup {"inst", "u1", "b", "r", "claim", "loop", "wait"}

Doc(id, event, actions) ==
    [schema_version |-> Num(1000), id |-> Str(id),
     trigger |-> Obj([event |-> Str(event)]), actions |-> Arr(actions)]

EchoAction  == Obj([kind |-> Str(<<"publish_event">>), event |-> Str(Echo)])
TapAction   == Obj([kind |-> Str(<<"play_motion">>), group |-> Str(<<"tap">>)])
AudioAction == Obj([kind |-> Str(<<"play_pack_audio">>), pack |-> Str(<<"pack">>),
                    group |-> Str(<<"tap">>)])

(* Claims the first hit and announces it.                                    *)
Claim == Doc(<<"claim">>, HitEvent, <<EchoAction>>)
            @@ [cancel_default |-> Bool(TRUE), one_shot |-> Bool(TRUE)]
(* Answers an echo with an echo, then moves.                                 *)
Loop  == Doc(<<"loop">>, Echo, <<EchoAction, TapAction>>)
(* A hit on an idle pet that wears the pack.                                 *)
Wait  == Doc(<<"wait">>, HitEvent, <<AudioAction, EchoAction>>)
            @@ [cooldown_ms |-> Num(2000),
                condition |-> Arr(<<Obj([kind |-> Str(<<"idle_for">>), op |-> Str(<<"ge">>),
                                         value_s |-> Num(1)])>>)]
(* The rule plugins register, off and on, and a document that is none.       *)
OnEcho  == Doc(<<"r">>, Echo, <<TapAction, EchoAction>>)
              @@ [one_shot |-> Bool(TRUE), priority |-> Num(50000)]
OffEcho == OnEcho @@ [enabled |-> Bool(FALSE)]
(* org.a can name a rule that would land among those of org.a.b.             *)
Squat   == [OnEcho EXCEPT !.id = Str(<<"b", "r">>)]
Forged  == [OnEcho EXCEPT !.actions =
              Arr(<<Obj([kind |-> Str(<<"publish_event">>), event |-> Str(HitEvent)])>>)]

MCDocs == {OnEcho, OffEcho, Squat, Forged}
MCPanelDocs == <<Claim, Loop, Forged>>
MCInstanceDocs == [u \in MCUuids |-> <<Wait>>]
MCHostEvents ==
    {[id |-> HitEvent, uuid |-> "u1", cancellable |-> TRUE, payload |-> <<>>],
     [id |-> MotionFinished, uuid |-> "u1", cancellable |-> FALSE,
      payload |-> [group |-> Str(<<"tap">>)]]}
MCPacks == {<<"pack">>}
MCTuning == {Nested}
MCRows == {[model |-> <<"hiyori">>, connected |-> TRUE]}
=============================================================================
