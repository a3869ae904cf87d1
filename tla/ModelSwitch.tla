---------------------------- MODULE ModelSwitch ----------------------------
(***************************************************************************)
(* Changing the model of one instance: InstanceSession::loadModel() writes *)
(* the new name to the configuration at once and rolls it back when the    *)
(* renderer rejects it. The verdicts (model_loaded, model_load_failed) are *)
(* handled without looking at the model they are about, while commands and *)
(* events are queued on the link, links and processes come and go, and     *)
(* events of a process already gone are still handled.                     *)
(***************************************************************************)
EXTENDS Naturals, Sequences

CONSTANTS
    Models,     \* a model is a name in a domain: the host's, or a plugin's
    Scoped,     \* those of a plugin's domain
    Resolvable, \* scoped models whose file resolveScopedModel() finds
    Available,  \* models whose file the renderer finds
    Twins,      \* scoped models that are gone, but whose bare name the host has
    HostTwin,   \* the host's model of that name
    NoModel,    \* no model, no path
    MaxQueued   \* bound: a switch is made with fewer messages on the link

ASSUME DomainsAssumption ==
    /\ Resolvable \subseteq Scoped
    /\ Scoped \subseteq Models
    /\ Available \subseteq Models \ (Scoped \ Resolvable)
    /\ Twins \subseteq Scoped \ Resolvable
    /\ HostTwin \in Available \ Scoped
    /\ NoModel \notin Models
ASSUME MaxQueuedAssumption == MaxQueued \in Nat \ {0}

VARIABLES
    model,       \* m_config.modelName and modelScope, in memory and on disk
    before,      \* m_modelNameBeforeSwitch and m_modelScopeBeforeSwitch
    path,        \* the model whose file m_currentModelJsonPath is
    pathBefore,  \* m_modelJsonPathBeforeSwitch
    inFlight,    \* m_modelSwitchInFlight
    loaded,      \* m_modelLoaded
    info,        \* the model m_modelInfo and the hit areas were parsed from
    connected,   \* m_connected
    userStopping,\* m_manuallyStopping of the session
    socket,      \* the server's socket of this instance
    cmds,        \* load_model commands on it
    evts,        \* events on it
    alive,       \* the renderer process exists
    announced,   \* LAppDelegate::_networkReady
    shown,       \* the model the renderer draws
    first,       \* history: the model configured in the beginning
    overlapped   \* history: a switch was made with a verdict outstanding

config == <<model, before, path, pathBefore, inFlight>>
display == <<loaded, info>>
session == <<connected, userStopping>>
link == <<socket, cmds, evts>>
renderer == <<alive, announced, shown>>
history == <<first, overlapped>>
vars == <<config, display, session, link, renderer, history>>

MaybeModels == Models \cup {NoModel}

\* "open": accepted, no `ready` yet; "greeted": `ready` handled; "dead": the
\* process is gone, the server has not noticed yet.
SocketStates == {"none", "open", "greeted", "dead"}

MSwTypeOK ==
    /\ model \in Models
    /\ before \in MaybeModels
    /\ path \in Resolvable \cup {NoModel}
    /\ pathBefore \in Resolvable \cup {NoModel}
    /\ inFlight \in BOOLEAN
    /\ loaded \in BOOLEAN
    /\ info \in Available \cup {NoModel}
    /\ connected \in BOOLEAN
    /\ userStopping \in BOOLEAN
    /\ socket \in SocketStates
    /\ cmds \in Seq(Models)
    /\ evts \in Seq({"ready", "loaded", "failed"})
    /\ alive \in BOOLEAN
    /\ announced \in BOOLEAN
    /\ shown \in Available \cup {NoModel}
    /\ first \in Models
    /\ overlapped \in BOOLEAN

MSwInit ==
    /\ model \in Models /\ first = model
    /\ before = NoModel /\ path = NoModel /\ pathBefore = NoModel
    /\ inFlight = FALSE /\ loaded = FALSE /\ info = NoModel
    /\ connected = FALSE /\ userStopping = FALSE
    /\ socket = "none" /\ cmds = <<>> /\ evts = <<>>
    /\ alive = FALSE /\ announced = FALSE /\ shown = NoModel
    /\ overlapped = FALSE

-----------------------------------------------------------------------------
(* loadModel(). An intermediate value of `before` and `pathBefore` is the  *)
(* argument of the helpers, for a switch can fail within the call.         *)

\* applyModelLoadFailure() of a switch in flight from b (and path pb) to m,
\* the model configured now.
RolledBack(m, b, pb) ==
    /\ model' = b
    /\ path' = IF m # b THEN pb ELSE NoModel

\* Mutant of PathOf: the path of a domain's directory, found or not.
PathOfUnchecked(m) == m

\* resolveScopedModel(): nothing for the host's models and those not found.
PathOf(m) == IF m \in Resolvable THEN m ELSE NoModel

Unresolved == Scoped \ Resolvable

\* A verdict is due: on the link, or from the salvo the next `ready` causes.
Outstanding == socket = "open" \/ cmds # <<>> \/ evts # <<>>

\* Offline: only the configuration changes; the next start applies it.
SwitchOffline(m) ==
    /\ ~connected
    /\ model' = m
    /\ inFlight' = TRUE
    /\ UNCHANGED <<path, cmds>>

\* A scoped model that is not found fails here, nothing is sent.
SwitchUnresolved(m, b, pb) ==
    /\ connected
    /\ m \in Unresolved
    /\ RolledBack(m, b, pb)
    /\ inFlight' = FALSE
    /\ UNCHANGED cmds

SwitchSent(m) ==
    /\ connected
    /\ m \notin Unresolved
    /\ model' = m
    /\ path' = PathOf(m)
    /\ inFlight' = TRUE
    /\ cmds' = Append(cmds, m)

\* Mutant of LoadModel: every switch records, not only the first of a chain.
LoadModelRecordsAlways(m) ==
    /\ Len(cmds) + Len(evts) < MaxQueued
    /\ before' = model
    /\ pathBefore' = path
    /\ SwitchOffline(m) \/ SwitchUnresolved(m, before', pathBefore') \/ SwitchSent(m)
    /\ loaded' = FALSE
    /\ overlapped' = (overlapped \/ Outstanding)
    /\ UNCHANGED <<info, session, socket, evts, renderer, first>>

\* Only the first unconfirmed switch of a chain records what to go back to.
LoadModel(m) ==
    /\ Len(cmds) + Len(evts) < MaxQueued
    /\ before' = IF inFlight THEN before ELSE model
    /\ pathBefore' = IF inFlight THEN pathBefore ELSE path
    /\ SwitchOffline(m) \/ SwitchUnresolved(m, before', pathBefore') \/ SwitchSent(m)
    /\ loaded' = FALSE
    /\ overlapped' = (overlapped \/ Outstanding)
    /\ UNCHANGED <<info, session, socket, evts, renderer, first>>

-----------------------------------------------------------------------------
(* Events the session handles.                                             *)

Arrives(kind) ==
    /\ evts # <<>>
    /\ Head(evts) = kind
    /\ evts' = Tail(evts)

\* Mutant of HandleReady: the path of the last switch stays.
HandleReadyKeepsPath ==
    /\ Arrives("ready")
    /\ connected' = TRUE
    /\ cmds' = Append(cmds, model)
    /\ socket' = IF socket = "open" THEN "greeted" ELSE socket
    /\ UNCHANGED <<config, display, userStopping, renderer, history>>

\* `ready`: the startup salvo begins with load_model of the configured model.
HandleReady ==
    /\ Arrives("ready")
    /\ connected' = TRUE
    /\ path' = PathOf(model)
    /\ cmds' = Append(cmds, model)
    /\ socket' = IF socket = "open" THEN "greeted" ELSE socket
    /\ UNCHANGED <<model, before, pathBefore, inFlight, display, userStopping,
                   renderer, history>>

\* resolveModel3JsonPath() and parseModelInfo(): from the tracked path, else
\* from the configured name; a file that is not there changes nothing.
Parsed ==
    LET file == IF path # NoModel THEN path ELSE model
    IN  IF file \in Available THEN file ELSE info

\* Mutant of HandleLoaded: the switch in flight is not confirmed.
HandleLoadedUnconfirmed ==
    /\ Arrives("loaded")
    /\ info' = Parsed
    /\ loaded' = TRUE
    /\ UNCHANGED <<config, session, socket, cmds, renderer, history>>

\* `model_loaded`: the metadata is read and the switch in flight confirmed.
HandleLoaded ==
    /\ Arrives("loaded")
    /\ info' = Parsed
    /\ loaded' = TRUE
    /\ inFlight' = FALSE
    /\ UNCHANGED <<model, before, path, pathBefore, session, socket, cmds,
                   renderer, history>>

\* `model_load_failed`: a switch in flight is rolled back, a failure at start
\* leaves the configuration alone.
HandleFailed ==
    /\ Arrives("failed")
    /\ loaded' = FALSE
    /\ \/ inFlight /\ RolledBack(model, before, pathBefore)
       \/ ~inFlight /\ UNCHANGED model /\ path' = NoModel
    /\ inFlight' = FALSE
    /\ UNCHANGED <<before, pathBefore, info, session, socket, cmds, renderer,
                   history>>

-----------------------------------------------------------------------------
(* The session's lifecycle, the renderer, its process and the link.        *)

\* The model the renderer finds when it is told m: --model and load_model
\* carry the path of a scoped model, or the bare name when it has none.
Found(m) ==
    CASE m \in Available -> m
      [] m \in Twins     -> HostTwin
      [] OTHER           -> NoModel

\* start(): the process loads the model of its command line, unannounced. A
\* parked start lowers m_manuallyStopping, a plain one leaves it.
Launch ==
    /\ ~alive
    /\ alive' = TRUE
    /\ shown' = Found(model)
    /\ userStopping' \in {userStopping, FALSE}
    /\ UNCHANGED <<config, display, connected, link, announced, history>>

\* stop(): the state flips at once, process and link live on for a while.
Stop ==
    /\ userStopping' = TRUE
    /\ connected' = FALSE
    /\ loaded' = FALSE
    /\ UNCHANGED <<config, info, link, renderer, history>>

Emptied == cmds' = <<>> /\ evts' = <<>>

\* The server accepts the renderer; an older socket is replaced.
Connect ==
    /\ alive
    /\ socket' = "open"
    /\ Emptied
    /\ connected' = TRUE
    /\ UNCHANGED <<config, display, userStopping, renderer, history>>

Live == alive /\ socket \in {"open", "greeted"}

\* PollNetworkMessages() finds the connection open and sends `ready`.
Announce ==
    /\ Live /\ ~announced
    /\ announced' = TRUE
    /\ evts' = Append(evts, "ready")
    /\ UNCHANGED <<config, display, session, socket, cmds, alive, shown, history>>

\* A frame finds the connection down. A drop between two frames is not seen.
FrameSeesDown ==
    /\ alive /\ announced /\ ~Live
    /\ announced' = FALSE
    /\ UNCHANGED <<config, display, session, link, alive, shown, history>>

\* The load_model command: a model that is not found leaves the drawn one.
RendererLoads ==
    /\ Live /\ announced
    /\ cmds # <<>>
    /\ cmds' = Tail(cmds)
    /\ \/ /\ Found(Head(cmds)) # NoModel
          /\ shown' = Found(Head(cmds))
          /\ evts' = Append(evts, "loaded")
       \/ /\ Found(Head(cmds)) = NoModel
          /\ evts' = Append(evts, "failed")
          /\ UNCHANGED shown
    /\ UNCHANGED <<config, display, session, socket, alive, announced, history>>

SocketGone ==
    /\ socket' = "none"
    /\ Emptied
    /\ connected' = FALSE
    /\ UNCHANGED <<config, display, userStopping, renderer, history>>

\* The link breaks, or `ready` does not come in time: what was on it is lost.
Disconnect == socket # "none" /\ SocketGone

\* What a healthy link still ends in: the two cases the server is sure to see.
ReadyTimeout == socket = "open" /\ SocketGone
PeerGone == socket = "dead" /\ SocketGone

\* onProcessExited(): of an unexpected exit the session clears its live state.
Exit ==
    /\ alive
    /\ alive' = FALSE
    /\ announced' = FALSE
    /\ shown' = NoModel
    /\ socket' = IF socket = "none" THEN "none" ELSE "dead"
    /\ cmds' = <<>>
    /\ connected' = (userStopping /\ connected)
    /\ loaded' = (userStopping /\ loaded)
    /\ UNCHANGED <<config, info, userStopping, evts, history>>

-----------------------------------------------------------------------------

Handle == HandleReady \/ HandleLoaded \/ HandleFailed

MSwNext ==
    \/ \E m \in Models : LoadModel(m)
    \/ HandleReady \/ HandleLoaded \/ HandleFailed
    \/ Launch \/ Stop \/ Exit
    \/ Connect \/ Announce \/ FrameSeesDown \/ RendererLoads
    \/ Disconnect

\* The session handles what arrives; the renderer's frame loop runs; the
\* server's ready timer fires and it notices a peer that is gone.
MSwFairness ==
    /\ WF_vars(Handle)
    /\ WF_vars(Announce)
    /\ WF_vars(RendererLoads)
    /\ WF_vars(ReadyTimeout)
    /\ WF_vars(PeerGone)

MSwSpec == MSwInit /\ [][MSwNext]_vars /\ MSwFairness

-----------------------------------------------------------------------------
(* Properties.                                                             *)

Quiet == connected /\ socket = "greeted" /\ cmds = <<>> /\ evts = <<>>

\* With no message on the link no switch is undecided, however many were made
\* in a row and whatever was lost: the next failure rolls nothing stale back.
QuietIsDecided == Quiet => ~inFlight

\* If the user awaits each verdict, then once the link is quiet a model shown
\* as loaded is the one drawn, and its motions and hit areas are its own. (The
\* renderer is told nothing of a domain that is gone: see TwinIsTold.)
LoadedIsShown ==
    ~overlapped /\ Quiet /\ loaded /\ model \notin Twins => shown = model /\ info = model

\* Models the renderer does not reject, and what nobody switched to.
Sound(m) == m \in Available \cup Twins \cup {first}

\* If the user awaits each verdict, the configuration never keeps a model the
\* renderer rejected, unless it was configured so in the beginning: not after
\* offline chains, lost verdicts, or crashes during the switch.
RejectedIsUndone == ~overlapped /\ Quiet => Sound(model)

\* A switch gets its verdict, or its link is found dead, once the renderer
\* has stopped reconnecting.
SwitchIsDecided ==
    <>[][~Connect]_vars => (inFlight /\ connected ~> ~inFlight \/ ~connected)

\* A switch in flight knows what to go back to. With the types and
\* QuietIsDecided it makes an inductive invariant.
InFlightIsRecorded == inFlight => before \in Models

MSwInv == MSwTypeOK /\ InFlightIsRecorded /\ QuietIsDecided

\* What awaiting each verdict buys, down to the messages on the link. A link
\* is as alive as its ends say; it carries one message about the model that is
\* configured, or none.
LinkIsSound ==
    /\ socket \in {"open", "greeted"} => alive
    /\ socket = "greeted" => announced
    /\ socket = "open" /\ ~announced => evts = <<>>
    /\ connected => socket # "none"
    /\ socket = "none" => cmds = <<>> /\ evts = <<>>

OneMessage ==
    /\ \/ cmds = <<model>> /\ evts = <<>>
       \/ cmds = <<>> /\ evts \in {<<>>, <<"ready">>, <<"loaded">>, <<"failed">>}
    /\ socket = "open" => cmds = <<>> /\ evts \in {<<>>, <<"ready">>}

\* The next failure goes back to a sound model, the next success is of one.
RollbackIsSound ==
    /\ ~inFlight => Sound(model)
    /\ inFlight => Sound(before)
    /\ evts = <<"loaded">> => Found(model) # NoModel

\* The path is that of the model a verdict is due of, and what is drawn and
\* what was read follow it.
DisplayIsSound ==
    /\ cmds # <<>> \/ evts = <<"loaded">> => path = PathOf(model)
    /\ evts = <<"loaded">> /\ socket = "greeted" => shown = Found(model)
    /\ loaded /\ socket = "greeted" /\ cmds = <<>> /\ evts = <<>> =>
          /\ Found(model) # NoModel /\ shown = Found(model)
          /\ model \in Twins \/ info = model

\* The inductive invariant behind LoadedIsShown and RejectedIsUndone.
AwaitedInv ==
    /\ MSwInv /\ LinkIsSound
    /\ ~overlapped => OneMessage /\ RollbackIsSound /\ DisplayIsSound

-----------------------------------------------------------------------------
(* What the sources say and the code does not do: TLC refutes each when it  *)
(* is added to the component's configuration (README, "Findings").          *)

\* InstanceSession.hpp, m_modelSwitchInFlight: "the FAILED name must not stay
\* on disk", also for "A->B->C with B's verdict still pending".
FailedNameIsNotKept == Quiet => model \in Available \cup {first}

\* handleModelLoadFailedEvent(): "the renderer tears the previous model down
\* before attempting the load".
FailureShowsNothing == evts # <<>> /\ Head(evts) = "failed" => shown = NoModel

\* qt-ui-manual-test.md, after a stop: "modelLoaded=false" and the page shows
\* "No model loaded -- start the instance to load."
LoadedIsAlive == ~alive /\ socket = "none" => ~loaded

\* InstanceSession.cpp, of a plugin's model that is gone: its plain name is
\* sent and "the renderer then reports model_load_failed". Not when the host
\* has a model of that name.
TwinIsTold == ~overlapped /\ Quiet /\ loaded => shown = model
=============================================================================
