--------------------------- MODULE ProcessManager ---------------------------
(***************************************************************************)
(* core/ProcessManager: one renderer child process (a QProcess) and the    *)
(* event-driven stop state machine around it.                              *)
(*                                                                         *)
(* Every handler runs on the Qt main thread, so a handler is one step.     *)
(* What interleaves are the events: the process starting, exiting or       *)
(* failing to start, the stop-poll tick, the passing of the grace windows  *)
(* and the queued delivery of stopFinished.                                *)
(*                                                                         *)
(* exited(code, crashed) is emitted synchronously inside the handlers; a   *)
(* module that listens conjoins its slot with the action (InstanceSession) *)
(***************************************************************************)
EXTENDS Naturals, Sequences

CONSTANT
    MaxPosted   \* bound: stop() is called with fewer completions than this queued

ASSUME MaxPostedAssumption == MaxPosted \in Nat \ {0}

VARIABLES
    proc,              \* QProcess::state()
    stopInFlight,      \* m_stopInFlight (the poll timer runs exactly then)
    killIssued,        \* m_killIssued
    manuallyStopping,  \* m_manuallyStopping
    elapsed,           \* m_stopElapsed, in windows passed: see Windows
    posted             \* queued stopFinished(clean) emissions, oldest first

stopVars == <<stopInFlight, killIssued, manuallyStopping, elapsed, posted>>
pmVars == <<proc, stopVars>>

ProcStates == {"NotRunning", "Starting", "Running"}

\* 0: inside the grace window; 1: kDefaultStopTimeoutMs have passed;
\* 2: kPostKillGraceMs more have passed.
Windows == 0 .. 2

IsRunning == proc # "NotRunning"

PMTypeOK ==
    /\ proc \in ProcStates
    /\ stopInFlight \in BOOLEAN
    /\ killIssued \in BOOLEAN
    /\ manuallyStopping \in BOOLEAN
    /\ elapsed \in Windows
    /\ posted \in Seq(BOOLEAN)

PMInit ==
    /\ proc = "NotRunning"
    /\ stopInFlight = FALSE
    /\ killIssued = FALSE
    /\ manuallyStopping = FALSE
    /\ elapsed = 0
    /\ posted = <<>>

-----------------------------------------------------------------------------
(* Launching and the process's own events.                                 *)

\* startRenderer() is ignored while a process exists. Otherwise
\* QProcess::start() either forks the child, or fails at once and emits
\* errorOccurred(FailedToStart) before it returns ("refused"). It touches no
\* stop state.
LaunchOutcomes == {"ignored", "refused", "starting"}
StartRenderer(outcome) ==
    \/ outcome = "ignored"  /\ IsRunning  /\ proc' = proc
    \/ outcome = "refused"  /\ ~IsRunning /\ proc' = proc
    \/ outcome = "starting" /\ ~IsRunning /\ proc' = "Starting"

\* The child has exec'd.
Started ==
    /\ proc = "Starting"
    /\ proc' = "Running"
    /\ UNCHANGED stopVars

\* finishStop(): the poll timer stops, the flags are cleared and the
\* single completion of this cycle is posted to the event queue.
FinishStop(clean) ==
    /\ stopInFlight' = FALSE
    /\ killIssued' = FALSE
    /\ posted' = Append(posted, clean)

\* The verdict onFinished() emits with exited(): a bad exit (CrashExit or a
\* non-zero code) is a crash unless stop() asked for it.
Crashed(badExit) == badExit /\ ~manuallyStopping

\* onFinished(): exited() is emitted (the listener sees the old flag), then
\* the manual flag is cleared and an in-flight stop completes.
Finished ==
    /\ proc = "Running"
    /\ proc' = "NotRunning"
    /\ manuallyStopping' = FALSE
    /\ IF stopInFlight
       THEN FinishStop(~killIssued)
       ELSE UNCHANGED <<stopInFlight, killIssued, posted>>
    /\ UNCHANGED elapsed

\* onErrorOccurred(FailedToStart), delivered by the event loop after start()
\* returned: exited(-1, true) is emitted, nothing else changes.
FailedToStart ==
    /\ proc = "Starting"
    /\ proc' = "NotRunning"
    /\ UNCHANGED stopVars

-----------------------------------------------------------------------------
(* stop() and its poll tick.                                               *)

\* stop() while a stop is in flight: its one completion serves both callers.
StopAbsorbed == stopInFlight /\ UNCHANGED pmVars

\* stop() without a process: a clean completion is posted at once.
StopWithoutProcess ==
    /\ ~stopInFlight
    /\ ~IsRunning
    /\ Len(posted) < MaxPosted
    /\ posted' = Append(posted, TRUE)
    /\ UNCHANGED <<proc, stopInFlight, killIssued, manuallyStopping, elapsed>>

\* stop() of a live process: a stop cycle begins (shutdown is sent).
StopProcess ==
    /\ ~stopInFlight
    /\ IsRunning
    /\ Len(posted) < MaxPosted
    /\ stopInFlight' = TRUE
    /\ killIssued' = FALSE
    /\ manuallyStopping' = TRUE
    /\ elapsed' = 0
    /\ UNCHANGED <<proc, posted>>

Stop == StopAbsorbed \/ StopWithoutProcess \/ StopProcess

\* Time passes while the poll timer runs: the next window is exhausted.
WindowPasses ==
    /\ stopInFlight
    /\ elapsed < 2
    /\ elapsed' = elapsed + 1
    /\ UNCHANGED <<proc, stopInFlight, killIssued, manuallyStopping, posted>>

\* onStopPollTick(): the exit landed without finished() completing the stop.
TickObservesExit ==
    /\ stopInFlight
    /\ ~IsRunning
    /\ FinishStop(~killIssued)
    /\ UNCHANGED <<proc, manuallyStopping, elapsed>>

\* onStopPollTick(): the grace window is exhausted, force-kill once.
TickKills ==
    /\ stopInFlight
    /\ IsRunning
    /\ ~killIssued
    /\ elapsed >= 1
    /\ killIssued' = TRUE
    /\ UNCHANGED <<proc, stopInFlight, manuallyStopping, elapsed, posted>>

\* Mutant of TickAbandons: the abandoned stop is reported clean.
TickAbandonsAsClean ==
    /\ stopInFlight /\ IsRunning /\ killIssued /\ elapsed >= 2
    /\ FinishStop(TRUE)
    /\ UNCHANGED <<proc, manuallyStopping, elapsed>>

\* onStopPollTick(): not even the kill was reaped, the wait is abandoned.
TickAbandons ==
    /\ stopInFlight
    /\ IsRunning
    /\ killIssued
    /\ elapsed >= 2
    /\ FinishStop(FALSE)
    /\ UNCHANGED <<proc, manuallyStopping, elapsed>>

\* Mutant of StopPollTick: no ceiling after the kill.
StopPollTickNoCeiling == TickObservesExit \/ TickKills

StopPollTick == TickObservesExit \/ TickKills \/ TickAbandons

\* The event loop emits the oldest queued stopFinished(clean).
EmitStopFinished ==
    /\ posted # <<>>
    /\ posted' = Tail(posted)
    /\ UNCHANGED <<stopInFlight, killIssued, manuallyStopping, elapsed>>

-----------------------------------------------------------------------------

\* The owner calls startRenderer() only with no stop in flight: the early
\* return of InstanceSession::start() (InstanceSession checks this).
OwnerStarts == ~stopInFlight /\ \E outcome \in LaunchOutcomes : StartRenderer(outcome)

Launch == OwnerStarts /\ UNCHANGED stopVars

\* The owner's slot may launch the next process before the emission returns.
DeliverStopFinished == EmitStopFinished /\ (proc' = proc \/ OwnerStarts)

PMNext ==
    \/ Launch
    \/ Started
    \/ Finished
    \/ FailedToStart
    \/ Stop
    \/ WindowPasses
    \/ StopPollTick
    \/ DeliverStopFinished

\* The poll timer, the clock and the event loop run; the renderer process is
\* never assumed to exit, not even when it is killed.
PMFairness ==
    /\ WF_pmVars(WindowPasses)
    /\ WF_pmVars(StopPollTick)
    /\ WF_pmVars(DeliverStopFinished)

PMSafety == PMInit /\ [][PMNext]_pmVars
PMSpec == PMSafety /\ PMFairness

-----------------------------------------------------------------------------
(* Properties.                                                             *)

\* The force-kill mark belongs to the current stop cycle and is only set once
\* the grace window has passed: a mark that leaked into the next cycle would
\* report its clean exit as forced and would never kill again.
KillBelongsToCycle == killIssued => stopInFlight /\ elapsed >= 1

\* While a stop is in flight the manual flag is up, so onFinished() reports
\* every exit as user-initiated (crashed = false) and the known teardown
\* crash of the renderer never reaches crash recovery.
StopInFlightIsManual == stopInFlight => manuallyStopping

\* The inductive strengthening both follow from.
PMInv == PMTypeOK /\ KillBelongsToCycle /\ StopInFlightIsManual

\* onFinished() says the flag is cleared there "so the flag is reset
\* regardless of which code path caused the process to exit": with the
\* process gone and no stop in flight, the manual flag is down.
ManualFlagIsReset == manuallyStopping => IsRunning \/ stopInFlight

\* stop() keeps its contract: one completion per accepted cycle, a clean one
\* only for a process that is gone, and always some completion.
Contract == INSTANCE StopContract
    WITH alive <- IsRunning, stopping <- stopInFlight, settled <- posted
StopContractHolds == Contract!SCSpec
=============================================================================
