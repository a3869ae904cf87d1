------------------------------ MODULE MCServer ------------------------------
(* Sockets of two instances, and frames of four kinds: ready, a stats      *)
(* event that carries a command's id, the response to that command, and    *)
(* one without the fields of a response, which is no envelope.             *)
(*                                                                         *)
(* A behaviour has the sockets of both instances and one expectation, or   *)
(* those of one, as the other never starts, and every expectation.         *)
EXTENDS MessageLayer

VARIABLE side

Typed(type, action, id, more) ==
    [root |-> "object", type |-> type, action |-> action, id |-> id,
     kinds |-> [k \in {"type", "action", "id", "payload", "timestamp"} \cup more |->
        CASE k = "payload" -> "object" [] k \in {"timestamp", "error_code"} -> "number"
          [] k = "success" -> "bool" [] OTHER -> "string"]]

Triad == {"success", "error_code", "error_message"}
MCFrames == {Typed("event", "ready", "e", {}),
             Typed("event", "stats_state", "c1", {}),
             Typed("response", "get_stats", "c1", Triad),
             Typed("response", "get_stats", "c1", {"success"})}

ServerSideInit == LayerInit /\ side \in {"sockets", "expectations"}
ServerSideNext ==
    /\ LayerNext
    /\ side = "sockets" =>
          Len(idOf') <= 1 /\ \A k \in DOMAIN slots' : slots'[k].then # "install"
    /\ side = "expectations" => tokens'[2] = NoToken
    /\ UNCHANGED side

ServerSideSpec ==
    /\ ServerSideInit /\ [][ServerSideNext]_<<layerVars, side>>
    /\ LayerFairness
=============================================================================
