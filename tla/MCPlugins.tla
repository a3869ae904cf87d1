----------------------------- MODULE MCPlugins -----------------------------
(* Both sides of the plugin border: what the host does to its plugins, and   *)
(* what the plugins' calls do to the host. A behaviour is about one of them, *)
(* the other stays as it starts.                                             *)
(*                                                                           *)
(* Host: two plugins that may come up, in three installations: both in the   *)
(* build, one dropped in beside a library of a foreign interface and a       *)
(* duplicate, and two that never come up.  The observer of the first watches *)
(* both instances, one of them at an interval.                               *)
(* Calls: a plugin that may do everything and one that may only tune and     *)
(* observes the instances; one instance, one name, which the host has too.   *)
EXTENDS PluginObservers, PluginApi

VARIABLE side

Static(id, order, fault)  == [id |-> id, order |-> order, source |-> "static", fault |-> fault]
Dynamic(id, order, fault) == [Static(id, order, fault) EXCEPT !.source = "dynamic"]

MCIds == {1, 2}
MCBoots == {<<Static(1, 2, "none"), Static(2, 1, "none")>>,
            <<Static(2, 1, "none"), Dynamic(2, 0, "none"), Dynamic(1, 1, "iid"),
              Dynamic(1, 1, "none")>>,
            <<Static(1, 1, "gate"), Static(2, 1, "null")>>,
            <<Dynamic(1, 1, "root"), Dynamic(2, 1, "gate")>>}
MCOwnerOf == [a |-> 1, c |-> 2]
MCPairs == {<<"u1", "a">>, <<"u2", "a">>, <<"u1", "c">>}
MCFloored == {<<"u2", "a">>}
MCBooks == {<<1, "event">>, <<1, "rule">>, <<2, "event">>}

MCGranted == [p |-> {"control", "tuning"}, q |-> {"tuning"}]
MCHostHas == {<<"model", "n">>, <<"pack", "n">>}

BorderInit == side \in {"host", "calls"} /\ PluginInit /\ ApiInit

BorderNext ==
    \/ side = "host" /\ PluginNext /\ UNCHANGED <<apiVars, side>>
    \/ side = "calls" /\ ApiNext /\ UNCHANGED <<pluginVars, side>>

BorderSpec == BorderInit /\ [][BorderNext]_<<pluginVars, apiVars, side>>
=============================================================================
