---------------------------- MODULE MessageLayer ----------------------------
(***************************************************************************)
(* The way of a message through the controller: WsServer, the session's    *)
(* MessageDispatcher with the handlers of EventRegistry, PendingRequests.  *)
(* A command may be expected; its response comes back on whatever socket   *)
(* the renderer has by then.                                               *)
(***************************************************************************)
EXTENDS WsServer, PendingRequests

CONSTANTS SessionHandlers       \* events the session overrides at start()

otherVars == <<serving, tokens, socket, connections, readyTimers, infos, told, latest, isReady>>
layerVars == <<serverVars, pendingVars>>

ActiveEvents == {"ready", "model_loaded", "model_load_failed", "drag_end", "layout_changed",
                 "window_resized", "stats_state", "layout_state", "error"}
Phase6Events == {"hit", "motion_started", "motion_finished", "drag_start", "audio_finished",
                 "expression_applied", "motion_progress", "window_focus"}

(* dispatch(): by type first, so that an event can never be taken for a    *)
(* response whatever id it carries.                                        *)
Route(f) ==
    CASE f.type = "response" -> "response"
      [] f.type = "event" /\ f.action \in SessionHandlers -> "session"
      [] f.type = "event" /\ f.action \in ActiveEvents \cup Phase6Events -> "logged"
      [] OTHER -> "dropped"

Settled(f) ==
    IF Route(f) = "response" /\ f.id \in Ids
    THEN HandleResponse(f.id) ELSE UNCHANGED pendingVars

(* Everything below runs on the GUI thread: a slot finishes first.         *)
Server ==
    \/ \E s \in Sockets : TextDropped(s) \/ OnDisconnected(s)
    \/ \E s \in Sockets, origin \in Origins, i \in Instances \cup {NoInstance}, t \in Tokens :
          Rejected(s, origin, i, t) \/ Accepted(s, origin, i, t)
    \/ \E i \in Instances : ReadyTimeout(i)
    \/ \E i \in Instances, t \in Tokens : tokens[i] # t /\ RegisterToken(i, t)
    \/ CloseServer

ServerStep == QuietSlots /\ Server /\ UNCHANGED pendingVars

ReceiveText(s) ==
    /\ QuietSlots
    /\ TextReceived(s)
    /\ Settled(heard'.frame)

(* A renderer answers commands, late ones of an earlier command included.  *)
PeerSpeaks(s, f) == PeerSends(s, f) /\ UNCHANGED pendingVars

(* A command is sent to whatever socket its instance has, if any, and its  *)
(* response expected either way.                                           *)
Command(id) ==
    /\ ExpectResponse(id)
    /\ heard' = Silence /\ UNCHANGED otherVars

PendingStep ==
    /\ (\E e \in Expectations : TimesOut(e)) \/ SlotReturns
    /\ heard' = Silence /\ UNCHANGED otherVars

LayerInit == ServerInit /\ PendingInit

LayerNext ==
    \/ ServerStep
    \/ PendingStep
    \/ \E s \in Sockets : ReceiveText(s) \/ \E f \in Frames : PeerSpeaks(s, f)
    \/ \E id \in Ids : Command(id)

(* QTimers of a running event loop fire, and slots return.                 *)
LayerFairness ==
    /\ WF_layerVars(SlotReturns /\ heard' = Silence /\ UNCHANGED otherVars)
    /\ \A e \in 1 .. MaxExpectations :
          WF_layerVars(e \in Expectations /\ TimesOut(e) /\ heard' = Silence /\ UNCHANGED otherVars)
    /\ \A i \in Instances :
          WF_layerVars(QuietSlots /\ ReadyTimeout(i) /\ UNCHANGED pendingVars)

LayerSpec == LayerInit /\ [][LayerNext]_layerVars /\ LayerFairness

(* The socket tables and the table of pending requests, with all that      *)
(* keeps them true.                                                        *)
LayerInv == ServerInv /\ PendingInv
=============================================================================
