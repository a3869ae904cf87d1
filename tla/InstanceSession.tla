--------------------------- MODULE InstanceSession ---------------------------
(***************************************************************************)
(* core/InstanceSession: one pet instance. It composes                     *)
(*   - ProcessManager, the renderer process and its stop state machine     *)
(*     (extended: its variables are this session's process),               *)
(*   - RestartController, the crash-retry ladder (attempts, armed),        *)
(*   - the instance's slot of network/WsServer (tokenHeld, dialing, conn,  *)
(*     wire) and the renderer at its other end,                            *)
(* with the session's own flags and the status the UI shows.               *)
(*                                                                         *)
(* All handlers run on the Qt main thread and are steps here. The slots a  *)
(* signal reaches by direct connection run inside the emitter's step.      *)
(***************************************************************************)
EXTENDS ProcessManager, FiniteSets

CONSTANTS
    MaxAttempts,  \* RestartController::kMaxAttempts
    MaxArmed,     \* bound: a renderer crashes with fewer retry timers armed
    HasIdleMotions \* the model or the mounted pack has idle motions

ASSUME MaxAttemptsAssumption == MaxAttempts \in Nat \ {0}
ASSUME MaxArmedAssumption == MaxArmed \in Nat \ {0}
ASSUME HasIdleMotionsAssumption == HasIdleMotions \in BOOLEAN

VARIABLES
    status,         \* m_status
    connected,      \* m_connected
    modelLoaded,    \* m_modelLoaded
    userStopping,   \* InstanceSession::m_manuallyStopping
    startQueued,    \* m_startQueued
    deletePending,  \* m_deletePending
    monitoring,     \* m_monitorTimer is active
    idling,         \* m_scheduler.m_running
    attempts,       \* RestartController::m_attempts
    armed,          \* single-shot retry timers in flight
    tokenHeld,      \* the process's --token is the registered one
    dialing,        \* connections not yet seen by onNewConnection, by token
    conn,           \* the peer of the instance's socket in m_connections
    wire            \* how far the protocol got on that socket: see Stages

sessionVars == <<status, connected, modelLoaded, userStopping, startQueued,
                 deletePending, monitoring, idling>>
restartVars == <<attempts, armed>>
wsVars == <<tokenHeld, dialing, conn, wire>>
isVars == <<pmVars, sessionVars, restartVars, wsVars>>

Statuses == {"stopped", "pending", "connecting", "running", "error"}

\* A token is a fresh random string of every start(); all that matters is
\* whether a connection carries the registered one.
TokenKinds == {"registered", "stale"}

\* The socket's peer: the current process (dead or alive), or an older one.
Peers == {"none", "process", "former"}

\* Stages of an accepted connection: open, the renderer's `ready` under way
\* then handled, its `model_loaded` under way then handled.
Stages == {"closed", "open", "readySent", "ready", "loadedSent", "loaded"}

ISTypeOK ==
    /\ PMTypeOK
    /\ status \in Statuses
    /\ connected \in BOOLEAN
    /\ modelLoaded \in BOOLEAN
    /\ userStopping \in BOOLEAN
    /\ startQueued \in BOOLEAN
    /\ deletePending \in BOOLEAN
    /\ monitoring \in BOOLEAN
    /\ idling \in BOOLEAN
    /\ attempts \in 0 .. MaxAttempts
    /\ armed \in Nat
    /\ tokenHeld \in BOOLEAN
    /\ dialing \subseteq TokenKinds
    /\ conn \in Peers
    /\ wire \in Stages

ISInit ==
    /\ PMInit
    /\ status = "stopped"
    /\ connected = FALSE /\ modelLoaded = FALSE /\ userStopping = FALSE
    /\ startQueued = FALSE /\ deletePending = FALSE
    /\ monitoring = FALSE /\ idling = FALSE
    /\ attempts = 0 /\ armed = 0
    /\ tokenHeld = FALSE /\ dialing = {} /\ conn = "none" /\ wire = "closed"

-----------------------------------------------------------------------------
(* The slots and helpers the handlers share. `stopping` is the value of    *)
(* m_manuallyStopping and `timers` the number of armed retries at the call.*)

\* RestartController::scheduleRestart(): arm one retry, or give up.
ScheduleRestart(timers) ==
    \/ /\ attempts < MaxAttempts
       /\ timers < MaxArmed
       /\ attempts' = attempts + 1
       /\ armed' = timers + 1
    \/ /\ attempts >= MaxAttempts
       /\ UNCHANGED attempts
       /\ armed' = timers

\* onProcessExited() but for the status: ignored for a user stop; otherwise
\* the live state is cleared and a crash asks for a retry.
ExitedSlot(crashed, stopping, timers) ==
    IF stopping
    THEN UNCHANGED <<connected, modelLoaded, attempts>> /\ armed' = timers
    ELSE /\ connected' = FALSE
         /\ modelLoaded' = FALSE
         /\ IF crashed
            THEN ScheduleRestart(timers)
            ELSE UNCHANGED attempts /\ armed' = timers

StatusAfterExit(stopping) == IF stopping THEN status ELSE "error"

-----------------------------------------------------------------------------
(* start(). `queued` is the value of m_startQueued at the call.            *)

\* A fresh token is registered (every connection under way becomes stale),
\* then the process is launched; a launch that is refused has already run the
\* exited() slot when start() goes on to set "connecting".
StartLaunches(stopping, timers, queued) ==
    \E outcome \in LaunchOutcomes :
        /\ StartRenderer(outcome)
        /\ tokenHeld' = (outcome = "starting")
        /\ dialing' = {"stale" : d \in dialing}
        /\ conn' = IF outcome = "starting" /\ conn = "process" THEN "former" ELSE conn
        /\ IF outcome = "refused"
           THEN ExitedSlot(TRUE, stopping, timers)
           ELSE UNCHANGED <<connected, modelLoaded, attempts>> /\ armed' = timers
        /\ status' = "connecting"
        /\ startQueued' = queued

\* The early returns: delete pending; a stop in flight parks the start; the
\* server is not listening or the renderer executable is not found.
StartReturnsEarly(timers, queued) ==
    /\ \/ deletePending /\ startQueued' = queued /\ UNCHANGED status
       \/ ~deletePending /\ stopInFlight /\ startQueued' = TRUE /\ UNCHANGED status
       \/ ~deletePending /\ ~stopInFlight /\ startQueued' = queued /\ status' = "error"
    /\ armed' = timers
    /\ UNCHANGED <<proc, connected, modelLoaded, attempts, tokenHeld, dialing, conn>>

\* Mutant of StartBody: start() does not look at m_deletePending to launch.
StartBodyUndeletes(stopping, timers, queued) ==
    \/ StartReturnsEarly(timers, queued)
    \/ ~stopInFlight /\ StartLaunches(stopping, timers, queued)

\* Mutant of StartBody: start() does not wait for a stop in flight.
StartBodyImpatient(stopping, timers, queued) ==
    \/ StartReturnsEarly(timers, queued)
    \/ ~deletePending /\ StartLaunches(stopping, timers, queued)

StartBody(stopping, timers, queued) ==
    \/ StartReturnsEarly(timers, queued)
    \/ ~deletePending /\ ~stopInFlight /\ StartLaunches(stopping, timers, queued)

\* What start() never touches.
StartFrame ==
    UNCHANGED <<deletePending, monitoring, idling, wire>>

-----------------------------------------------------------------------------
(* User and plugin operations.                                             *)

UserStart ==
    /\ StartBody(userStopping, armed, startQueued)
    /\ StartFrame
    /\ UNCHANGED <<stopVars, userStopping>>

\* stop(): idle scheduler and monitor off, the flag up, the process asked to
\* go, and the visible state flipped at once.
StopBody ==
    /\ Stop
    /\ idling' = FALSE
    /\ monitoring' = FALSE
    /\ userStopping' = TRUE
    /\ connected' = FALSE
    /\ modelLoaded' = FALSE
    /\ status' = "stopped"
    /\ UNCHANGED <<restartVars, wsVars>>

UserStop == StopBody /\ UNCHANGED <<startQueued, deletePending>>

UserRestart ==
    /\ ~deletePending
    /\ StopBody
    /\ startQueued' = TRUE
    /\ UNCHANGED deletePending

\* InstanceManager::deleteInstance() of a running instance: setDeletePending()
\* and stop(). (Without a process the session is destroyed at once.)
UserDelete ==
    /\ IsRunning
    /\ ~deletePending
    /\ StopBody
    /\ deletePending' = TRUE
    /\ startQueued' = FALSE

-----------------------------------------------------------------------------
(* Events of the process, the stop machine and the retry timers.           *)

PMEventFrame == UNCHANGED <<sessionVars, restartVars, wsVars>>

ProcessStarted == Started /\ PMEventFrame
TimePasses == WindowPasses /\ PMEventFrame
PollTick == StopPollTick /\ PMEventFrame

ExitFrame == UNCHANGED <<userStopping, startQueued, deletePending,
                         monitoring, idling, wsVars>>

\* The process exits, badly or with code 0.
ProcessExits(badExit) ==
    /\ Finished
    /\ ExitedSlot(Crashed(badExit), userStopping, armed)
    /\ status' = StatusAfterExit(userStopping)
    /\ ExitFrame

ProcessFailsToStart ==
    /\ FailedToStart
    /\ ExitedSlot(TRUE, userStopping, armed)
    /\ status' = StatusAfterExit(userStopping)
    /\ ExitFrame

\* A retry timer fires: RestartController::retry -> start().
RetryFires ==
    /\ armed > 0
    /\ StartBody(userStopping, armed - 1, startQueued)
    /\ StartFrame
    /\ UNCHANGED <<stopVars, userStopping>>

\* Mutant of StopFinished: m_startQueued is not cleared before start().
StopFinishedKeepsQueued ==
    /\ EmitStopFinished
    /\ IF startQueued
       THEN userStopping' = FALSE /\ StartBody(FALSE, armed, TRUE) /\ StartFrame
       ELSE UNCHANGED <<proc, sessionVars, restartVars, wsVars>>

\* onProcessStopFinished(): a parked start is consumed and executed.
StopFinished ==
    /\ EmitStopFinished
    /\ IF startQueued
       THEN /\ userStopping' = FALSE
            /\ StartBody(FALSE, armed, FALSE)
            /\ StartFrame
       ELSE UNCHANGED <<proc, sessionVars, restartVars, wsVars>>

-----------------------------------------------------------------------------
(* The instance's slot of WsServer and the renderer at the other end.      *)

WsFrame == UNCHANGED <<pmVars, userStopping, startQueued, deletePending,
                       armed, tokenHeld>>

\* The renderer's client (re)connects with the token of its command line.
RendererDials ==
    /\ proc = "Running"
    /\ dialing' = dialing \cup {IF tokenHeld THEN "registered" ELSE "stale"}
    /\ UNCHANGED <<pmVars, sessionVars, restartVars, tokenHeld, conn, wire>>

\* onNewConnection(), gate c passed: an older socket is replaced, the session
\* sees Connected and RestartController::resetOnConnect() runs.
ConnectionAccepted ==
    /\ "registered" \in dialing
    /\ dialing' = dialing \ {"registered"}
    /\ conn' = "process"
    /\ wire' = "open"
    /\ connected' = TRUE
    /\ attempts' = 0
    /\ UNCHANGED <<status, modelLoaded, monitoring, idling>>
    /\ WsFrame

\* onNewConnection(), gate c failed: closed with 4002.
ConnectionRejected ==
    /\ "stale" \in dialing
    /\ dialing' = dialing \ {"stale"}
    /\ UNCHANGED <<conn, wire, connected, attempts, status, modelLoaded,
                   monitoring, idling>>
    /\ WsFrame

\* The live renderer at the other end of the socket sends its next event.
RendererSends(from, to) ==
    /\ proc = "Running"
    /\ conn = "process"
    /\ wire = from
    /\ wire' = to
    /\ UNCHANGED <<dialing, conn, connected, attempts, status, modelLoaded,
                   monitoring, idling>>
    /\ WsFrame

RendererSendsReady == RendererSends("open", "readySent")
RendererSendsLoaded == RendererSends("ready", "loadedSent")

\* The `ready` handler: running, connected, salvo sent, monitor poller armed.
ReadyArrives ==
    /\ wire = "readySent"
    /\ wire' = "ready"
    /\ status' = "running"
    /\ connected' = TRUE
    /\ monitoring' = TRUE
    /\ UNCHANGED <<dialing, conn, attempts, modelLoaded, idling>>
    /\ WsFrame

\* The `model_loaded` handler; startIdleScheduler() needs an idle source.
ModelLoadedArrives ==
    /\ wire = "loadedSent"
    /\ wire' = "loaded"
    /\ modelLoaded' = TRUE
    /\ idling' = (idling \/ HasIdleMotions)
    /\ UNCHANGED <<dialing, conn, connected, attempts, status, monitoring>>
    /\ WsFrame

\* The socket leaves m_connections and the session sees Disconnected.
DropSocket ==
    /\ conn' = "none"
    /\ wire' = "closed"
    /\ connected' = FALSE
    /\ UNCHANGED <<dialing, attempts, status, modelLoaded, monitoring, idling>>
    /\ WsFrame

\* onDisconnected(): the peer died or the link broke.
SocketDisconnected == conn # "none" /\ DropSocket

\* No `ready` within m_readyTimeoutMs.
ReadyTimeout == wire \in {"open", "readySent"} /\ DropSocket

-----------------------------------------------------------------------------

ISNext ==
    \/ UserStart \/ UserStop \/ UserRestart \/ UserDelete
    \/ ProcessStarted \/ TimePasses \/ PollTick
    \/ \E badExit \in BOOLEAN : ProcessExits(badExit)
    \/ ProcessFailsToStart
    \/ RetryFires \/ StopFinished
    \/ RendererDials \/ ConnectionAccepted \/ ConnectionRejected
    \/ RendererSendsReady \/ RendererSendsLoaded
    \/ ReadyArrives \/ ModelLoadedArrives
    \/ SocketDisconnected \/ ReadyTimeout

\* The controller's timers and event queue run. Nothing is assumed of the
\* user, of the renderer process or of the network.
ISFairness ==
    /\ WF_isVars(TimePasses)
    /\ WF_isVars(PollTick)
    /\ WF_isVars(StopFinished)
    /\ WF_isVars(RetryFires)

ISSafety == ISInit /\ [][ISNext]_isVars
ISSpec == ISSafety /\ ISFairness

-----------------------------------------------------------------------------
(* Properties the session has.                                             *)

\* A parked start (restart(), or start() during a stop) always has a stop
\* completion coming that will execute it: it is never left behind.
QueuedStartBacked == startQueued => stopInFlight \/ posted # <<>>

\* The session only says it is connected while the server holds a socket for
\* it, so a command sent because of connected() is never silently dropped.
ConnectedHasSocket == connected => conn # "none"

\* A renderer that outlives the status flip of stop() is on its way out and
\* its exit will not be taken for a crash, whatever fires in between (retry
\* timers, late events, an abandoned kill).
StoppedRendererIsDoomed == status = "stopped" /\ IsRunning => manuallyStopping

\* stop() silences the monitor poller for good: no late event of the dying
\* renderer turns it on again while the status still says stopped.
StoppedIsNotPolled == status = "stopped" => ~monitoring

\* Once a delete is pending nothing launches a renderer again: not a retry
\* that was already armed, a parked restart, a start or a late completion.
DeleteIsFinal ==
    [][deletePending => /\ deletePending'
                        /\ ~IsRunning => ~IsRunning'
                        /\ ~startQueued']_isVars

\* To its manager the session is what SessionContract says it is: sockets,
\* statuses, tokens and the stop machine's polling are its own business.
Managed == INSTANCE ManagedSession WITH
    MaxSettled <- MaxPosted,
    KillReaps <- FALSE,
    session <- [alive |-> IsRunning, stopping |-> stopInFlight,
                settled |-> Len(posted), queued |-> startQueued,
                doomed |-> deletePending, armed |-> armed > 0]
IsManagedSession == Managed!MSSafety

\* The session keeps the calling discipline ProcessManager relies on: it
\* never launches while a stop is in flight.
DrivesProcessManager == PMSafety

UserOperation == UserStart \/ UserStop \/ UserRestart \/ UserDelete

\* A restart is never lost: once the user leaves the instance alone, a parked
\* start is executed, even if the renderer ignores the shutdown and the kill.
RestartIsExecuted ==
    <>[][~UserOperation]_isVars => (startQueued ~> ~startQueued)

\* The socket slot and the protocol stage agree; a doomed session parks
\* nothing. With the properties above these make an inductive invariant.
SlotInv == wire # "closed" <=> conn # "none"
DoomedParksNothing == deletePending => ~startQueued

ISInv ==
    /\ PMInv
    /\ ISTypeOK
    /\ SlotInv
    /\ DoomedParksNothing
    /\ QueuedStartBacked
    /\ ConnectedHasSocket
    /\ StoppedRendererIsDoomed
    /\ StoppedIsNotPolled

-----------------------------------------------------------------------------
(* What the sources say and the code does not do: TLC refutes each when it  *)
(* is added to the component's configuration (README, "Findings").          *)

RetryStep == armed' < armed

\* Retry wiring, InstanceSession.cpp: the process "has already exited by
\* then (QProcess::NotRunning)".
RetryFindsNoProcess == [][RetryStep => ~IsRunning]_isVars

\* Retry wiring, InstanceSession.cpp: "m_manuallyStopping is guaranteed
\* false here".
RetryIsNotAfterStop == [][RetryStep => ~userStopping]_isVars

ExitStep == IsRunning /\ ~IsRunning'

\* fault-tolerance.md: a non-zero exit makes RestartController schedule a
\* restart (or give up); here, of a renderer nobody is stopping.
CrashIsRetried ==
    [][ProcessExits(TRUE) /\ ~manuallyStopping
        => armed' > armed \/ attempts >= MaxAttempts]_isVars

\* ProcessManager.hpp, onErrorOccurred(): a failed launch must not leave the
\* session stuck in "connecting" forever.
ConnectingIsNotStuck ==
    status = "connecting" /\ ~userStopping
        => IsRunning \/ armed > 0 \/ stopInFlight \/ posted # <<>>

\* onProcessExited(): for a user stop the "status is already 'stopped'".
StopExitFindsStopped ==
    [][ExitStep /\ userStopping /\ stopInFlight => status = "stopped"]_isVars

\* InstanceSession.hpp, startFailed: "stop()-initiated exits never emit
\* this" (it is emitted exactly when the exit finds the user flag down).
StopExitIsSilent == [][ExitStep /\ stopInFlight => userStopping]_isVars

\* fault-tolerance.md: on a disconnect the idle scheduler is paused at once.
DisconnectPausesIdle == [][conn # "none" /\ conn' = "none" => ~idling']_isVars
=============================================================================
