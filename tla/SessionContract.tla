--------------------------- MODULE SessionContract ---------------------------
(***************************************************************************)
(* What an InstanceSession is to its InstanceManager: only what the        *)
(* two-phase delete, the stopAll wave and the exit depend on. Each         *)
(* operator maps a session to the set of sessions one call, or one event,  *)
(* may turn it into. InstanceSession is shown to implement this contract   *)
(* (ManagedSession); InstanceManager is built on it.                       *)
(***************************************************************************)
EXTENDS Naturals

CONSTANTS
    MaxSettled, \* bound: stop() is called with fewer completions than this due
    KillReaps   \* the operating system reaps a killed renderer within the grace

ASSUME MaxSettledAssumption == MaxSettled \in Nat \ {0}
ASSUME KillReapsAssumption == KillReaps \in BOOLEAN

Sessions == [
    alive    : BOOLEAN,        \* isProcessRunning()
    stopping : BOOLEAN,        \* a stop is in flight
    settled  : 0 .. MaxSettled, \* stop completions posted, not yet delivered
    queued   : BOOLEAN,        \* m_startQueued
    doomed   : BOOLEAN,        \* m_deletePending
    armed    : BOOLEAN]        \* a crash retry is armed

Idle == [alive |-> FALSE, stopping |-> FALSE, settled |-> 0,
         queued |-> FALSE, doomed |-> FALSE, armed |-> FALSE]

\* A stop completion is still to come.
Backed(s) == s.stopping \/ s.settled > 0

\* Mutant of Starts: m_deletePending is not looked at.
StartsUndeletes(s) ==
    IF s.stopping THEN {[s EXCEPT !.queued = TRUE]}
    ELSE IF s.alive THEN {s}
    ELSE {s, [s EXCEPT !.alive = TRUE]}

\* start(): rejected when doomed, parked during a stop, ignored with a live
\* process; otherwise it launches, or fails, or is refused and retries.
Starts(s) ==
    IF s.doomed THEN {s}
    ELSE IF s.stopping THEN {[s EXCEPT !.queued = TRUE]}
    ELSE IF s.alive THEN {s}
    ELSE {s, [s EXCEPT !.alive = TRUE], [s EXCEPT !.armed = TRUE]}

\* stop(): absorbed by a stop in flight; settles at once without a process.
Stops(s) ==
    IF s.stopping THEN {s}
    ELSE IF s.settled = MaxSettled THEN {}
    ELSE IF s.alive THEN {[s EXCEPT !.stopping = TRUE]}
    ELSE {[s EXCEPT !.settled = @ + 1]}

\* restart(): stop() with a start parked behind it.
Restarts(s) ==
    IF s.doomed THEN {s} ELSE {[t EXCEPT !.queued = TRUE] : t \in Stops(s)}

\* setDeletePending() and stop().
Dooms(s) == {[t EXCEPT !.doomed = TRUE, !.queued = FALSE] : t \in Stops(s)}

\* The process is gone: a stop in flight is settled by the exit itself, or
\* (failed launch) by the next poll tick; a crash may arm a retry.
Exits(s) ==
    IF ~s.alive THEN {}
    ELSE LET gone == [s EXCEPT !.alive = FALSE]
         IN {gone, [gone EXCEPT !.armed = TRUE]} \cup
            IF s.stopping
            THEN {[gone EXCEPT !.stopping = FALSE, !.settled = @ + 1]}
            ELSE {}

\* The poll tick settles the stop: the process is gone, or given up on.
Settles(s) ==
    IF s.stopping /\ (KillReaps => ~s.alive)
    THEN {[s EXCEPT !.stopping = FALSE, !.settled = @ + 1]}
    ELSE {}

\* A retry timer fires; another may still be armed.
Retries(s) ==
    IF s.armed
    THEN UNION {Starts([s EXCEPT !.armed = more]) : more \in BOOLEAN}
    ELSE {}

\* The oldest completion is delivered; a parked start is executed after the
\* manager's slot has run.
Completes(s) ==
    IF s.settled = 0 THEN {}
    ELSE LET told == [s EXCEPT !.settled = @ - 1, !.queued = FALSE]
         IN IF s.queued THEN Starts(told) ELSE {told}
=============================================================================
