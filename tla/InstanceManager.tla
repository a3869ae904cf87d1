--------------------------- MODULE InstanceManager ---------------------------
(***************************************************************************)
(* core/InstanceManager: the roster of sessions, the two-phase delete, the *)
(* stopAll wave, and the exit sequence of qml/Main.qml driven by it. Each  *)
(* session is a SessionContract record (implemented by InstanceSession);   *)
(* the manager's onSessionStopFinished slot runs inside a session's        *)
(* emission, before the session executes a parked start.                   *)
(* The roster's persistence is in PanelStore.                              *)
(***************************************************************************)
EXTENDS SessionContract, FiniteSets

CONSTANT Uuids \* instances loaded at boot or minted by createInstance()

VARIABLES
    roster,         \* m_sessions
    sess,           \* the session of each uuid; Idle when it has none
    minted,         \* the uuids that ever had a session
    pendingDeletes, \* m_pendingDeletes
    reaping,        \* removed sessions whose deleteLater has not run yet
    wires,          \* stopFinished connections made for each session
    sinkInstalled,  \* boot is over: setDialogueSink() has been called
    stopAllActive,  \* m_stopAllActive
    exit,           \* Main.qml: exitInProgress ("asked"), exitDone ("done")
    watchdog        \* exitWatchdog is running

imVars == <<roster, sess, minted, pendingDeletes, reaping, wires,
            sinkInstalled, stopAllActive, exit, watchdog>>

IMTypeOK ==
    /\ roster \subseteq Uuids
    /\ sess \in [Uuids -> Sessions]
    /\ minted \subseteq Uuids
    /\ pendingDeletes \subseteq Uuids
    /\ reaping \subseteq Uuids
    /\ wires \in [Uuids -> Nat]
    /\ sinkInstalled \in BOOLEAN
    /\ stopAllActive \in BOOLEAN
    /\ exit \in {"none", "asked", "done"}
    /\ watchdog \in BOOLEAN

\* loadFromDisk() has built and wired the sessions of the persisted roster.
IMInit ==
    /\ roster \in SUBSET Uuids
    /\ sess = [u \in Uuids |-> Idle]
    /\ minted = roster
    /\ pendingDeletes = {} /\ reaping = {}
    /\ wires = [u \in Uuids |-> IF u \in roster THEN 1 ELSE 0]
    /\ sinkInstalled = FALSE
    /\ stopAllActive = FALSE
    /\ exit = "none"
    /\ watchdog = FALSE

\* The event loop runs: boot is over and Qt.quit() has not been called.
Up == sinkInstalled /\ exit # "done"

Running(u) == sess[u].alive

-----------------------------------------------------------------------------
(* Roster operations.                                                      *)

\* setDialogueSink(), once, at the end of boot: every session is wired again.
InstallSink ==
    /\ ~sinkInstalled
    /\ sinkInstalled' = TRUE
    /\ wires' = [u \in Uuids |-> IF u \in roster THEN wires[u] + 1 ELSE wires[u]]
    /\ UNCHANGED <<roster, sess, minted, pendingDeletes, reaping,
                   stopAllActive, exit, watchdog>>

\* createInstanceScoped() whose config row was saved.
CreateInstance(u) ==
    /\ Up
    /\ u \notin minted
    /\ minted' = minted \cup {u}
    /\ roster' = roster \cup {u}
    /\ wires' = [wires EXCEPT ![u] = 1]
    /\ UNCHANGED <<sess, pendingDeletes, reaping, sinkInstalled, stopAllActive,
                   exit, watchdog>>

\* What a call or an event of one session leaves alone.
RosterFrame == UNCHANGED <<roster, minted, pendingDeletes, reaping, wires,
                           sinkInstalled, stopAllActive, exit, watchdog>>

SessionStep(u, Successors(_)) ==
    /\ Up
    /\ u \in roster
    /\ \E t \in Successors(sess[u]) : sess' = [sess EXCEPT ![u] = t]
    /\ RosterFrame

StartInstance(u) == SessionStep(u, Starts)
StopInstance(u) == SessionStep(u, Stops)
RestartInstance(u) == SessionStep(u, Restarts)

\* finishInstanceDeletion(): the row goes, the session waits for deleteLater.
Remove(u) ==
    /\ roster' = roster \ {u}
    /\ reaping' = reaping \cup {u}

\* Mutant of DeleteRunning: phase 1 forgets setDeletePending().
DeleteRunningUndoomed(u) ==
    /\ Running(u)
    /\ \E t \in Stops(sess[u]) : sess' = [sess EXCEPT ![u] = t]
    /\ pendingDeletes' = pendingDeletes \cup {u}
    /\ UNCHANGED <<roster, reaping>>

\* Phase 1 of a delete: the session is doomed and its stop begins.
DeleteRunning(u) ==
    /\ Running(u)
    /\ \E t \in Dooms(sess[u]) : sess' = [sess EXCEPT ![u] = t]
    /\ pendingDeletes' = pendingDeletes \cup {u}
    /\ UNCHANGED <<roster, reaping>>

\* Without a live process the removal is immediate.
DeleteStopped(u) ==
    /\ ~Running(u)
    /\ Remove(u)
    /\ UNCHANGED <<sess, pendingDeletes>>

\* deleteInstance(); a repeated request merges with the pending one.
DeleteInstance(u) ==
    /\ Up
    /\ u \in roster \ pendingDeletes
    /\ DeleteRunning(u) \/ DeleteStopped(u)
    /\ UNCHANGED <<minted, wires, sinkInstalled, stopAllActive, exit, watchdog>>

-----------------------------------------------------------------------------
(* Events of the sessions.                                                 *)

ProcessExits(u) == SessionStep(u, Exits)
StopSettles(u) == SessionStep(u, Settles)
RetryFires(u) == SessionStep(u, Retries)

\* The stopAll accounting of onSessionStopFinished() over the rows left: no
\* row has a live renderer, so stopAllFinished is emitted.
WaveOver(left) == stopAllActive /\ \A v \in left : ~Running(v)

\* Mutant of CompletionArrives: a pending delete is not finished.
CompletionArrivesForgetful(u) ==
    /\ Up
    /\ u \in roster \cup reaping
    /\ \E t \in Completes(sess[u]) : sess' = [sess EXCEPT ![u] = t]
    /\ UNCHANGED <<roster, reaping>>
    /\ pendingDeletes' = pendingDeletes \ {u}
    /\ stopAllActive' = (stopAllActive /\ ~WaveOver(roster'))
    /\ exit' = IF WaveOver(roster') /\ exit = "asked" THEN "done" ELSE exit
    /\ UNCHANGED <<minted, wires, sinkInstalled, watchdog>>

\* A session's stopFinished: phase 2 of a pending delete, then the stopAll
\* accounting (stopAllFinished finishes an exit in progress), then the
\* session's parked start. The slot runs wires[u] times; what it did the first
\* time makes the other runs find nothing to do.
CompletionArrives(u) ==
    /\ Up
    /\ u \in roster \cup reaping
    /\ \E t \in Completes(sess[u]) : sess' = [sess EXCEPT ![u] = t]
    /\ IF u \in pendingDeletes THEN Remove(u) ELSE UNCHANGED <<roster, reaping>>
    /\ pendingDeletes' = pendingDeletes \ {u}
    /\ stopAllActive' = (stopAllActive /\ ~WaveOver(roster'))
    /\ exit' = IF WaveOver(roster') /\ exit = "asked" THEN "done" ELSE exit
    /\ UNCHANGED <<minted, wires, sinkInstalled, watchdog>>

\* deleteLater runs, after the completions posted before it: ~ProcessManager
\* kills and reaps a process that is still there.
Reap(u) ==
    /\ Up
    /\ u \in reaping
    /\ sess[u].settled = 0
    /\ reaping' = reaping \ {u}
    /\ sess' = [sess EXCEPT ![u] = Idle]
    /\ UNCHANGED <<roster, minted, pendingDeletes, wires, sinkInstalled,
                   stopAllActive, exit, watchdog>>

-----------------------------------------------------------------------------
(* The exit sequence.                                                      *)

\* stopAll(): the async stop of every live renderer is initiated.
StopAll ==
    /\ \A u \in roster : Running(u) => Stops(sess[u]) # {}  \* the bound MaxSettled
    /\ sess' = [u \in Uuids |-> IF u \in roster /\ Running(u)
                               THEN [sess[u] EXCEPT !.stopping = TRUE]
                               ELSE sess[u]]
    /\ stopAllActive' = (\E u \in roster : Running(u))

\* Mutant of DoExit: the watchdog is not started.
DoExitUnwatched ==
    /\ Up
    /\ exit = "none"
    /\ StopAll
    /\ exit' = IF \E u \in roster : Running(u) THEN "asked" ELSE "done"
    /\ UNCHANGED <<roster, minted, pendingDeletes, reaping, wires,
                   sinkInstalled, watchdog>>

\* doExit(): wait for the wave under the watchdog, or quit right away.
DoExit ==
    /\ Up
    /\ exit = "none"
    /\ StopAll
    /\ watchdog' = (\E u \in roster : Running(u))
    /\ exit' = IF watchdog' THEN "asked" ELSE "done"
    /\ UNCHANGED <<roster, minted, pendingDeletes, reaping, wires, sinkInstalled>>

\* exitWatchdog: the wave took too long, finishExit() anyway.
WatchdogFires ==
    /\ Up
    /\ watchdog
    /\ watchdog' = FALSE
    /\ exit' = IF exit = "asked" THEN "done" ELSE exit
    /\ UNCHANGED <<roster, sess, minted, pendingDeletes, reaping, wires,
                   sinkInstalled, stopAllActive>>

-----------------------------------------------------------------------------

IMNext ==
    \/ InstallSink \/ DoExit \/ WatchdogFires
    \/ \E u \in Uuids :
          \/ CreateInstance(u) \/ DeleteInstance(u)
          \/ StartInstance(u) \/ StopInstance(u) \/ RestartInstance(u)
          \/ ProcessExits(u) \/ StopSettles(u) \/ RetryFires(u)
          \/ CompletionArrives(u) \/ Reap(u)

\* Timers and the event queue run, and every stop settles (StopContract).
\* Nothing is assumed of the user, the plugins or the renderers.
IMFairness ==
    /\ WF_imVars(WatchdogFires)
    /\ \A u \in Uuids : WF_imVars(StopSettles(u)) /\ WF_imVars(CompletionArrives(u))

IMSafety == IMInit /\ [][IMNext]_imVars
IMSpec == IMSafety /\ IMFairness

-----------------------------------------------------------------------------
(* Properties.                                                             *)

\* A pending delete is never left without its phase 2: the row is there, the
\* session is doomed and a stop completion is still to come for it.
PendingDeleteIsBacked ==
    \A u \in pendingDeletes : u \in roster /\ sess[u].doomed /\ Backed(sess[u])

\* No row refuses to start forever: a doomed row is one whose removal is due.
DoomedIsPending == \A u \in roster : sess[u].doomed => u \in pendingDeletes

\* A row waiting for its removal is not brought back to life by a retry, a
\* parked restart or a start that raced the delete.
PendingStaysDown ==
    [][\A u \in pendingDeletes :
          u \in pendingDeletes' /\ Running(u)' => Running(u)]_imVars

\* The panel quits on stopAllFinished only when no row has a live renderer
\* (only the watchdog may leave one behind).
QuitsOnlyWhenDown ==
    [][exit = "asked" /\ exit' = "done" /\ watchdog'
          => \A u \in roster' : ~Running(u)]_imVars

\* A delete completes even if the renderer ignores the shutdown and the kill.
DeleteCompletes ==
    \A u \in Uuids : u \in pendingDeletes ~> (u \notin roster \/ exit = "done")

\* The user's exit happens, whatever the renderers and the other operations
\* do meanwhile.
ExitHappens == exit = "asked" ~> exit = "done"

\* The exit of the panel, both ways: it comes, and while no renderer is left
\* unless the watchdog had to end it.
ExitIsOrderly == QuitsOnlyWhenDown /\ ExitHappens

\* The inductive invariant.
RemovedIsGone ==
    /\ roster \cap reaping = {}
    /\ roster \cup reaping \subseteq minted
StopHasRoom == \A u \in Uuids : sess[u].stopping => sess[u].settled < MaxSettled
UnmintedIsIdle == \A u \in Uuids \ (roster \cup reaping) : sess[u] = Idle

IMInv ==
    /\ IMTypeOK
    /\ StopHasRoom
    /\ RemovedIsGone
    /\ UnmintedIsIdle
    /\ PendingDeleteIsBacked
    /\ DoomedIsPending

-----------------------------------------------------------------------------
(* What the sources say and the code does not do: TLC refutes each when it  *)
(* is added to the component's configuration (README, "Findings").          *)

\* wireSession(): it "only ever runs on freshly constructed sessions, so this
\* can never double-connect".
WiredOnce == \A u \in roster : wires[u] <= 1

\* deleteInstance(): "deferring removal until the async stop completes".
RemovalAwaitsOwnStop ==
    [][\A u \in roster \ roster' : ~Running(u)']_imVars

\* InstanceManager.hpp: stopAllFinished is emitted once "every session's
\* renderer is down".
WaveEndsDown ==
    [][stopAllActive /\ ~stopAllActive' => \A u \in roster' : ~Running(u)']_imVars

\* Main.qml: the watchdog "can only ever trigger on a logic bug", the stop
\* machine "guarantees completion": while a wave is on (and no row has been
\* deleted meanwhile), a completion is due that can end it.
WaveIsBacked ==
    stopAllActive /\ minted = roster
        => \E u \in roster : Backed(sess[u])

\* setDeletePending(): a queued restart "must not fire into a session that
\* is about to be destroyed".
RemovedStaysDown ==
    [][\A u \in reaping : Running(u)' => Running(u)]_imVars
=============================================================================
