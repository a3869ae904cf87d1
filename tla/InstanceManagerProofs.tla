----------------------- MODULE InstanceManagerProofs -----------------------
(***************************************************************************)
(* Proofs about InstanceManager and ModelSwitch, for any sets of instances *)
(* and of models and any bound on the completions and messages due: the    *)
(* inductive invariant IMInv, and that a doomed row is never brought back  *)
(* to life before its removal; then, of the switches of one instance's     *)
(* model, that no verdict is lost and that what is shown is what is drawn. *)
(***************************************************************************)
EXTENDS InstanceManager, ModelSwitch, SequenceTheorems, TLAPS

\* A session record that leaves room for the completion of its stop.
SessionOK(s) == s \in Sessions /\ (s.stopping => s.settled < MaxSettled)

\* The calls and events of SessionContract that SessionStep is used with.
Calls(s) == Starts(s) \cup Stops(s) \cup Restarts(s)
            \cup Exits(s) \cup Settles(s) \cup Retries(s)

\* What a call or an event does to a session: the record stays well formed,
\* it is as doomed as before, a completion due stays due, and a doomed
\* session does not come to life.
Keeps(s, t) ==
    /\ SessionOK(t)
    /\ t.doomed = s.doomed
    /\ Backed(s) => Backed(t)
    /\ s.doomed /\ t.alive => s.alive

\* The completions due of a session are a number within the bound.
LEMMA SettledIsCount ==
    ASSUME NEW s, SessionOK(s)
    PROVE /\ s.settled \in 0 .. MaxSettled /\ s.settled \in Nat
          /\ s.settled # MaxSettled => /\ s.settled < MaxSettled
                                      /\ s.settled + 1 \in 0 .. MaxSettled
          /\ s.settled # 0 => s.settled - 1 \in 0 .. MaxSettled /\ s.settled > 0
          /\ s.settled + 1 > 0
<1>1. s.settled \in 0 .. MaxSettled
  BY DEF SessionOK, Sessions
<1> QED
  BY <1>1, MaxSettledAssumption

\* start() keeps a session.
LEMMA StartsKeep ==
    ASSUME NEW s, SessionOK(s), NEW t \in Starts(s) PROVE Keeps(s, t)
BY MaxSettledAssumption DEF SessionOK, Sessions, Starts, Keeps, Backed

\* stop() keeps a session and leaves a completion due.
LEMMA StopsKeep ==
    ASSUME NEW s, SessionOK(s), NEW t \in Stops(s)
    PROVE Keeps(s, t) /\ Backed(t)
<1> USE DEF SessionOK, Sessions, Keeps, Backed
<1>1. CASE s.stopping
  BY <1>1 DEF Stops
<1>2. CASE ~s.stopping /\ s.alive
  <2>1. t = [s EXCEPT !.stopping = TRUE] /\ s.settled # MaxSettled
    BY <1>2 DEF Stops
  <2>2. s.settled < MaxSettled
    BY <2>1, SettledIsCount
  <2> QED
    BY <1>2, <2>1, <2>2
<1>3. CASE ~s.stopping /\ ~s.alive
  <2>1. t = [s EXCEPT !.settled = @ + 1] /\ s.settled # MaxSettled
    BY <1>3 DEF Stops
  <2>2. s.settled + 1 \in 0 .. MaxSettled /\ s.settled + 1 > 0
    BY <2>1, SettledIsCount
  <2> QED
    BY <1>3, <2>1, <2>2
<1> QED
  BY <1>1, <1>2, <1>3

\* restart() keeps a session.
LEMMA RestartsKeep ==
    ASSUME NEW s, SessionOK(s), NEW t \in Restarts(s) PROVE Keeps(s, t)
<1>1. CASE s.doomed
  BY <1>1 DEF Restarts, Keeps, SessionOK
<1>2. CASE ~s.doomed
  <2>1. PICK r \in Stops(s) : t = [r EXCEPT !.queued = TRUE]
    BY <1>2 DEF Restarts
  <2>2. Keeps(s, r)
    BY StopsKeep
  <2> QED
    BY <2>1, <2>2 DEF Keeps, SessionOK, Sessions, Backed
<1> QED
  BY <1>1, <1>2

\* The exit of a process keeps its session.
LEMMA ExitsKeep ==
    ASSUME NEW s, SessionOK(s), NEW t \in Exits(s) PROVE Keeps(s, t)
<1> USE DEF SessionOK, Sessions, Keeps, Backed
<1> DEFINE gone == [s EXCEPT !.alive = FALSE]
<1>1. CASE t = gone
  BY <1>1
<1>2. CASE t = [gone EXCEPT !.armed = TRUE]
  BY <1>2
<1>3. CASE s.stopping /\ t = [gone EXCEPT !.stopping = FALSE, !.settled = @ + 1]
  <2>1. s.settled + 1 \in 0 .. MaxSettled /\ s.settled + 1 > 0
    BY <1>3, SettledIsCount, MaxSettledAssumption
  <2>2. t = [s EXCEPT !.alive = FALSE, !.stopping = FALSE, !.settled = s.settled + 1]
    BY <1>3
  <2> QED
    BY <1>3, <2>1, <2>2
<1> QED
  BY <1>1, <1>2, <1>3 DEF Exits

\* The settling of a stop keeps its session.
LEMMA SettlesKeep ==
    ASSUME NEW s, SessionOK(s), NEW t \in Settles(s) PROVE Keeps(s, t)
<1>1. s.stopping /\ t = [s EXCEPT !.stopping = FALSE, !.settled = @ + 1]
  BY DEF Settles
<1>2. s.settled + 1 \in 0 .. MaxSettled /\ s.settled + 1 > 0
  BY <1>1, SettledIsCount, MaxSettledAssumption DEF SessionOK
<1> QED
  BY <1>1, <1>2 DEF SessionOK, Sessions, Keeps, Backed

\* A retry keeps a session.
LEMMA RetriesKeep ==
    ASSUME NEW s, SessionOK(s), NEW t \in Retries(s) PROVE Keeps(s, t)
<1>1. PICK more \in BOOLEAN : t \in Starts([s EXCEPT !.armed = more])
  BY DEF Retries
<1> DEFINE r == [s EXCEPT !.armed = more]
<1>2. SessionOK(r)
  BY DEF SessionOK, Sessions
<1>3. Keeps(r, t)
  BY <1>1, <1>2, StartsKeep
<1> QED
  BY <1>3 DEF Keeps, SessionOK, Sessions, Backed

\* Every call or event SessionStep is used with keeps the session.
LEMMA CallsKeep ==
    ASSUME NEW s, SessionOK(s), NEW t \in Calls(s) PROVE Keeps(s, t)
BY StartsKeep, StopsKeep, RestartsKeep, ExitsKeep, SettlesKeep, RetriesKeep DEF Calls

\* Dooming a session dooms it, and leaves a completion due.
LEMMA DoomsDoom ==
    ASSUME NEW s, SessionOK(s), NEW t \in Dooms(s)
    PROVE SessionOK(t) /\ t.doomed /\ Backed(t) /\ (t.alive => s.alive)
<1>1. PICK r \in Stops(s) : t = [r EXCEPT !.doomed = TRUE, !.queued = FALSE]
  BY DEF Dooms
<1>2. Keeps(s, r) /\ Backed(r)
  BY StopsKeep
<1>3. r.alive => s.alive
  BY DEF Stops, SessionOK, Sessions
<1> QED
  BY <1>1, <1>2, <1>3 DEF Keeps, SessionOK, Sessions, Backed

\* A delivered completion leaves the session well formed, as doomed as it
\* was, and does not bring a doomed one to life.
LEMMA CompletesKeep ==
    ASSUME NEW s, SessionOK(s), NEW t \in Completes(s)
    PROVE /\ SessionOK(t)
          /\ t.doomed = s.doomed
          /\ s.doomed /\ t.alive => s.alive
<1> DEFINE told == [s EXCEPT !.settled = @ - 1, !.queued = FALSE]
<1>1. s.settled - 1 \in 0 .. MaxSettled
  BY SettledIsCount DEF Completes
<1>2. SessionOK(told) /\ told.doomed = s.doomed /\ told.alive = s.alive
  <2>1. told \in Sessions /\ told.doomed = s.doomed /\ told.alive = s.alive
    BY <1>1 DEF SessionOK, Sessions
  <2>2. told.stopping => told.settled < MaxSettled
    BY <1>1, SettledIsCount, MaxSettledAssumption DEF SessionOK, Sessions
  <2> QED
    BY <2>1, <2>2 DEF SessionOK
<1>3. CASE t = told
  BY <1>2, <1>3
<1>4. CASE t \in Starts(told)
  BY <1>2, <1>4, StartsKeep DEF Keeps
<1> QED
  BY <1>3, <1>4 DEF Completes
-----------------------------------------------------------------------------

\* The invariant holds of a session that has one.
LEMMA SessionsAreOK ==
    ASSUME IMInv, NEW u \in Uuids PROVE SessionOK(sess[u])
BY DEF IMInv, IMTypeOK, StopHasRoom, SessionOK

\* The state SessionStep reaches, whatever the call.
SessionMoves(u, t) ==
    /\ u \in roster
    /\ t \in Calls(sess[u])
    /\ sess' = [sess EXCEPT ![u] = t]
    /\ RosterFrame

\* The eight steps of one session are moves of that session.
LEMMA StepsAreMoves ==
    ASSUME NEW u \in Uuids,
           \/ StartInstance(u) \/ StopInstance(u) \/ RestartInstance(u)
           \/ ProcessExits(u) \/ StopSettles(u) \/ RetryFires(u)
    PROVE \E t : SessionMoves(u, t)
<1>1. CASE StartInstance(u)
  BY <1>1 DEF StartInstance, SessionStep, SessionMoves, Calls
<1>2. CASE StopInstance(u)
  BY <1>2 DEF StopInstance, SessionStep, SessionMoves, Calls
<1>3. CASE RestartInstance(u)
  BY <1>3 DEF RestartInstance, SessionStep, SessionMoves, Calls
<1>4. CASE ProcessExits(u)
  BY <1>4 DEF ProcessExits, SessionStep, SessionMoves, Calls
<1>5. CASE StopSettles(u)
  BY <1>5 DEF StopSettles, SessionStep, SessionMoves, Calls
<1>6. CASE RetryFires(u)
  BY <1>6 DEF RetryFires, SessionStep, SessionMoves, Calls
<1> QED
  BY <1>1, <1>2, <1>3, <1>4, <1>5, <1>6

\* A move of a session preserves the invariant.
LEMMA MovesPreserve ==
    ASSUME IMInv, NEW u \in Uuids, NEW t, SessionMoves(u, t)
    PROVE IMInv'
<1>1. Keeps(sess[u], t)
  BY SessionsAreOK, CallsKeep DEF SessionMoves
<1>2. sess' = [sess EXCEPT ![u] = t] /\ u \in roster /\ RosterFrame
  BY DEF SessionMoves
<1>3. \A v \in Uuids : sess'[v] = IF v = u THEN t ELSE sess[v]
  BY <1>2 DEF IMInv, IMTypeOK
<1>4. t \in Sessions /\ (t.stopping => t.settled < MaxSettled)
  BY <1>1 DEF Keeps, SessionOK
<1>5. IMTypeOK'
  BY <1>2, <1>4 DEF IMInv, IMTypeOK, RosterFrame
<1>6. StopHasRoom'
  BY <1>3, <1>4 DEF IMInv, StopHasRoom
<1>7. RemovedIsGone'
  BY <1>2 DEF IMInv, RemovedIsGone, RosterFrame
<1>8. UnmintedIsIdle'
  BY <1>2, <1>3 DEF IMInv, UnmintedIsIdle, RosterFrame
<1>9. PendingDeleteIsBacked'
  BY <1>1, <1>2, <1>3 DEF IMInv, IMTypeOK, PendingDeleteIsBacked, RosterFrame, Keeps, Backed
<1>10. DoomedIsPending'
  BY <1>1, <1>2, <1>3 DEF IMInv, IMTypeOK, DoomedIsPending, RosterFrame, Keeps
<1> QED
  BY <1>5, <1>6, <1>7, <1>8, <1>9, <1>10 DEF IMInv

\* Both phases of a delete preserve the invariant.
LEMMA DeletePreserves ==
    ASSUME IMInv, NEW u \in Uuids, DeleteInstance(u)
    PROVE IMInv'
<1> USE DEF IMInv
<1>1. u \in roster \ pendingDeletes
      /\ UNCHANGED <<minted, wires, sinkInstalled, stopAllActive, exit, watchdog>>
  BY DEF DeleteInstance
<1>2. CASE DeleteRunning(u)
  <2>1. PICK t \in Dooms(sess[u]) : sess' = [sess EXCEPT ![u] = t]
    BY <1>2 DEF DeleteRunning
  <2>2. pendingDeletes' = pendingDeletes \cup {u} /\ UNCHANGED <<roster, reaping>>
    BY <1>2 DEF DeleteRunning
  <2>3. SessionOK(t) /\ t.doomed /\ Backed(t)
    BY SessionsAreOK, DoomsDoom
  <2>4. \A v \in Uuids : sess'[v] = IF v = u THEN t ELSE sess[v]
    BY <2>1 DEF IMTypeOK
  <2>5. IMTypeOK'
    BY <1>1, <2>1, <2>2, <2>3 DEF IMTypeOK, SessionOK
  <2>6. StopHasRoom'
    BY <2>3, <2>4 DEF StopHasRoom, SessionOK
  <2>7. RemovedIsGone' /\ UnmintedIsIdle'
    BY <1>1, <2>2, <2>4 DEF RemovedIsGone, UnmintedIsIdle
  <2>8. PendingDeleteIsBacked'
    BY <1>1, <2>2, <2>3, <2>4 DEF PendingDeleteIsBacked, Backed, IMTypeOK
  <2>9. DoomedIsPending'
    BY <2>2, <2>4 DEF DoomedIsPending, IMTypeOK
  <2> QED
    BY <2>5, <2>6, <2>7, <2>8, <2>9
<1>3. CASE DeleteStopped(u)
  <2>1. /\ roster' = roster \ {u}
        /\ reaping' = reaping \cup {u}
        /\ UNCHANGED <<sess, pendingDeletes>>
    BY <1>3 DEF DeleteStopped, Remove
  <2>2. IMTypeOK' /\ StopHasRoom'
    BY <1>1, <2>1 DEF IMTypeOK, StopHasRoom
  <2>3. RemovedIsGone' /\ UnmintedIsIdle'
    BY <1>1, <2>1 DEF RemovedIsGone, UnmintedIsIdle
  <2>4. PendingDeleteIsBacked' /\ DoomedIsPending'
    BY <1>1, <2>1 DEF PendingDeleteIsBacked, DoomedIsPending, Backed
  <2> QED
    BY <2>2, <2>3, <2>4
<1> QED
  BY <1>2, <1>3 DEF DeleteInstance

\* A completion preserves the invariant: phase 2 takes the uuid out of the
\* roster together with the pending set.
LEMMA CompletionPreserves ==
    ASSUME IMInv, NEW u \in Uuids, CompletionArrives(u)
    PROVE IMInv'
<1> USE DEF IMInv
<1>1. PICK t \in Completes(sess[u]) : sess' = [sess EXCEPT ![u] = t]
  BY DEF CompletionArrives
<1>2. SessionOK(t) /\ t.doomed = sess[u].doomed
  BY SessionsAreOK, CompletesKeep
<1>3. \A v \in Uuids : sess'[v] = IF v = u THEN t ELSE sess[v]
  BY <1>1 DEF IMTypeOK
<1>4. /\ u \in roster \cup reaping
      /\ pendingDeletes' = pendingDeletes \ {u}
      /\ UNCHANGED <<minted, wires, sinkInstalled, watchdog>>
  BY DEF CompletionArrives
<1>5. \/ u \in pendingDeletes /\ roster' = roster \ {u} /\ reaping' = reaping \cup {u}
      \/ u \notin pendingDeletes /\ UNCHANGED <<roster, reaping>>
  BY DEF CompletionArrives, Remove
<1>6. stopAllActive' \in BOOLEAN /\ exit' \in {"none", "asked", "done"}
  BY DEF CompletionArrives, IMTypeOK
<1>7. IMTypeOK'
  BY <1>1, <1>2, <1>4, <1>5, <1>6 DEF IMTypeOK, SessionOK
<1>8. StopHasRoom'
  BY <1>2, <1>3 DEF StopHasRoom, SessionOK
<1>9. RemovedIsGone' /\ UnmintedIsIdle'
  BY <1>3, <1>4, <1>5 DEF RemovedIsGone, UnmintedIsIdle
<1>10. PendingDeleteIsBacked'
  BY <1>3, <1>4, <1>5 DEF PendingDeleteIsBacked, Backed, IMTypeOK
<1>11. DoomedIsPending'
  BY <1>2, <1>3, <1>4, <1>5 DEF DoomedIsPending, PendingDeleteIsBacked, IMTypeOK
<1> QED
  BY <1>7, <1>8, <1>9, <1>10, <1>11

\* stopAll() preserves the invariant: a stop in flight is a completion due.
LEMMA DoExitPreserves ==
    ASSUME IMInv, DoExit PROVE IMInv'
<1> USE DEF IMInv
<1>1. UNCHANGED <<roster, minted, pendingDeletes, reaping, wires, sinkInstalled>>
  BY DEF DoExit
<1>2. \A u \in Uuids : sess'[u] = IF u \in roster /\ Running(u)
                                 THEN [sess[u] EXCEPT !.stopping = TRUE]
                                 ELSE sess[u]
  BY DEF DoExit, StopAll
<1>3. \A u \in Uuids :
         /\ sess'[u] \in Sessions
         /\ sess'[u].doomed = sess[u].doomed
         /\ sess'[u].settled = sess[u].settled
         /\ sess[u].stopping => sess'[u].stopping
  BY <1>2 DEF IMTypeOK, Sessions
<1>4. DOMAIN sess' = Uuids /\ sess' = [u \in Uuids |-> sess'[u]]
  BY DEF DoExit, StopAll
<1>5. IMTypeOK'
  <2>1. sess' \in [Uuids -> Sessions]
    BY <1>3, <1>4
  <2>2. stopAllActive' \in BOOLEAN /\ watchdog' \in BOOLEAN
        /\ exit' \in {"none", "asked", "done"}
    BY DEF DoExit, StopAll
  <2> QED
    BY <1>1, <2>1, <2>2 DEF IMTypeOK
<1>6. StopHasRoom'
  <2>1. \A u \in roster : Running(u) /\ ~sess[u].stopping => sess[u].settled # MaxSettled
    BY DEF DoExit, StopAll, Stops
  <2>2. \A u \in Uuids : sess[u].settled # MaxSettled => sess[u].settled < MaxSettled
    BY SessionsAreOK, SettledIsCount
  <2>3. \A u \in Uuids : sess'[u].stopping /\ ~sess[u].stopping
                            => u \in roster /\ Running(u)
    BY <1>2
  <2> QED
    BY <1>3, <2>1, <2>2, <2>3 DEF StopHasRoom
<1>7. RemovedIsGone' /\ UnmintedIsIdle'
  BY <1>1, <1>2 DEF RemovedIsGone, UnmintedIsIdle
<1>8. PendingDeleteIsBacked'
  BY <1>1, <1>3 DEF PendingDeleteIsBacked, Backed, IMTypeOK
<1>9. DoomedIsPending'
  BY <1>1, <1>3 DEF DoomedIsPending, IMTypeOK
<1> QED
  BY <1>5, <1>6, <1>7, <1>8, <1>9

\* The roster that boot loads satisfies the invariant.
LEMMA IMInvInit == IMInit => IMInv
<1> SUFFICES ASSUME IMInit PROVE IMInv
  OBVIOUS
<1>1. Idle \in Sessions /\ ~Idle.stopping /\ ~Idle.doomed
  BY MaxSettledAssumption DEF Idle, Sessions
<1>2. \A u \in Uuids : sess[u] = Idle
  BY DEF IMInit
<1>3. IMTypeOK
  BY <1>1 DEF IMInit, IMTypeOK
<1>4. StopHasRoom /\ RemovedIsGone /\ UnmintedIsIdle
  BY <1>1, <1>2 DEF IMInit, StopHasRoom, RemovedIsGone, UnmintedIsIdle
<1>5. PendingDeleteIsBacked /\ DoomedIsPending
  <2>1. pendingDeletes = {} /\ roster \subseteq Uuids
    BY DEF IMInit
  <2> QED
    BY <1>1, <1>2, <2>1 DEF PendingDeleteIsBacked, DoomedIsPending
<1> QED
  BY <1>3, <1>4, <1>5 DEF IMInv

\* Every step preserves the invariant.
LEMMA IMInvStep == IMInv /\ [IMNext]_imVars => IMInv'
<1> SUFFICES ASSUME IMInv, [IMNext]_imVars PROVE IMInv'
  OBVIOUS
<1> USE DEF IMInv
<1>1. CASE InstallSink
  BY <1>1 DEF InstallSink, IMTypeOK, StopHasRoom, RemovedIsGone, UnmintedIsIdle,
              PendingDeleteIsBacked, DoomedIsPending
<1>2. CASE DoExit
  BY <1>2, DoExitPreserves
<1>3. CASE WatchdogFires
  BY <1>3 DEF WatchdogFires, IMTypeOK, StopHasRoom, RemovedIsGone, UnmintedIsIdle,
              PendingDeleteIsBacked, DoomedIsPending
<1>4. CASE \E u \in Uuids : CreateInstance(u)
  <2>1. PICK u \in Uuids : CreateInstance(u)
    BY <1>4
  <2>2. IMTypeOK' /\ StopHasRoom'
    BY <2>1 DEF CreateInstance, IMTypeOK, StopHasRoom
  <2>3. RemovedIsGone' /\ UnmintedIsIdle' /\ PendingDeleteIsBacked'
    BY <2>1 DEF CreateInstance, RemovedIsGone, UnmintedIsIdle, PendingDeleteIsBacked
  <2>4. sess[u] = Idle /\ ~Idle.doomed
    BY <2>1 DEF CreateInstance, RemovedIsGone, UnmintedIsIdle, Idle
  <2>5. DoomedIsPending'
    BY <2>1, <2>4 DEF CreateInstance, DoomedIsPending
  <2> QED
    BY <2>2, <2>3, <2>5
<1>5. CASE \E u \in Uuids : DeleteInstance(u)
  BY <1>5, DeletePreserves
<1>6. CASE \E u \in Uuids : CompletionArrives(u)
  BY <1>6, CompletionPreserves
<1>7. CASE \E u \in Uuids :
              \/ StartInstance(u) \/ StopInstance(u) \/ RestartInstance(u)
              \/ ProcessExits(u) \/ StopSettles(u) \/ RetryFires(u)
  BY <1>7, StepsAreMoves, MovesPreserve
<1>8. CASE \E u \in Uuids : Reap(u)
  <2>1. PICK u \in Uuids : Reap(u)
    BY <1>8
  <2>2. Idle \in Sessions /\ ~Idle.stopping /\ ~Idle.doomed
    BY MaxSettledAssumption DEF Idle, Sessions
  <2>3. \A v \in Uuids : sess'[v] = IF v = u THEN Idle ELSE sess[v]
    BY <2>1 DEF Reap, IMTypeOK
  <2>4. IMTypeOK'
    BY <2>1, <2>2 DEF Reap, IMTypeOK
  <2>5. StopHasRoom' /\ RemovedIsGone' /\ UnmintedIsIdle'
    BY <2>1, <2>2, <2>3 DEF Reap, StopHasRoom, RemovedIsGone, UnmintedIsIdle
  <2>6. PendingDeleteIsBacked' /\ DoomedIsPending'
    BY <2>1, <2>3 DEF Reap, PendingDeleteIsBacked, DoomedIsPending, RemovedIsGone, IMTypeOK
  <2> QED
    BY <2>4, <2>5, <2>6
<1>9. CASE UNCHANGED imVars
  BY <1>9 DEF imVars, IMTypeOK, StopHasRoom, RemovedIsGone, UnmintedIsIdle,
              PendingDeleteIsBacked, DoomedIsPending
<1> QED
  BY <1>1, <1>2, <1>3, <1>4, <1>5, <1>6, <1>7, <1>8, <1>9 DEF IMNext

\* The inductive invariant of the manager.
THEOREM IMInvariance == IMSpec => []IMInv
BY IMInvInit, IMInvStep, PTL DEF IMSpec, IMSafety

\* A pending delete always has its row, its doomed session and a completion
\* on the way that will remove it.
THEOREM PendingDeleteIsBackedHolds == IMSpec => []PendingDeleteIsBacked
BY IMInvariance, PTL DEF IMInv

\* No row is left refusing to start for good.
THEOREM DoomedIsPendingHolds == IMSpec => []DoomedIsPending
BY IMInvariance, PTL DEF IMInv

\* One step does not bring a row that awaits its removal back to life.
LEMMA PendingStaysDownStep ==
    ASSUME IMInv, [IMNext]_imVars,
           NEW u \in pendingDeletes, u \in pendingDeletes', Running(u)'
    PROVE Running(u)
<1> USE DEF IMInv
<1>1. u \in Uuids /\ sess[u].doomed /\ u \in roster
  BY DEF IMTypeOK, PendingDeleteIsBacked
<1>2. CASE sess'[u] = sess[u]
  BY <1>2 DEF Running
<1>3. CASE sess'[u] # sess[u]
  <2>1. ASSUME NEW v \in Uuids, NEW t, SessionMoves(v, t) PROVE Running(u)
    <3>1. sess' = [sess EXCEPT ![v] = t] /\ t \in Calls(sess[v])
      BY <2>1 DEF SessionMoves
    <3>2. v = u /\ sess'[u] = t
      BY <1>1, <1>3, <3>1 DEF IMTypeOK
    <3>3. Keeps(sess[u], t)
      BY <1>1, <3>1, <3>2, SessionsAreOK, CallsKeep
    <3> QED
      BY <1>1, <3>2, <3>3 DEF Keeps, Running
  <2>2. CASE DoExit
    <3>1. sess' = [w \in Uuids |-> IF w \in roster /\ Running(w)
                                  THEN [sess[w] EXCEPT !.stopping = TRUE]
                                  ELSE sess[w]]
      BY <2>2 DEF DoExit, StopAll
    <3> QED
      BY <1>1, <1>3, <3>1
  <2>3. ASSUME NEW v \in Uuids, DeleteInstance(v) PROVE Running(u)
    <3>1. v \notin pendingDeletes
      BY <2>3 DEF DeleteInstance
    <3>2. sess'[u] = sess[u]
      BY <1>1, <2>3, <3>1 DEF DeleteInstance, DeleteRunning, DeleteStopped, IMTypeOK
    <3> QED
      BY <1>3, <3>2
  <2>4. ASSUME NEW v \in Uuids, CompletionArrives(v) PROVE Running(u)
    <3>1. v # u
      BY <2>4 DEF CompletionArrives
    <3>2. sess'[u] = sess[u]
      BY <1>1, <2>4, <3>1 DEF CompletionArrives, IMTypeOK
    <3> QED
      BY <1>3, <3>2
  <2>5. ASSUME NEW v \in Uuids, Reap(v) PROVE Running(u)
    <3>1. v # u
      BY <1>1, <2>5 DEF Reap, RemovedIsGone
    <3>2. sess'[u] = sess[u]
      BY <1>1, <2>5, <3>1 DEF Reap, IMTypeOK
    <3> QED
      BY <1>3, <3>2
  <2>6. CASE InstallSink \/ WatchdogFires \/ UNCHANGED imVars
             \/ \E v \in Uuids : CreateInstance(v)
    BY <1>3, <2>6 DEF InstallSink, WatchdogFires, CreateInstance, imVars
  <2>7. CASE \E v \in Uuids :
                \/ StartInstance(v) \/ StopInstance(v) \/ RestartInstance(v)
                \/ ProcessExits(v) \/ StopSettles(v) \/ RetryFires(v)
    BY <2>1, <2>7, StepsAreMoves
  <2> QED
    BY <2>2, <2>3, <2>4, <2>5, <2>6, <2>7 DEF IMNext
<1> QED
  BY <1>2, <1>3

\* No retry, parked restart or racing start revives a row whose delete is
\* pending.
THEOREM PendingStaysDownHolds == IMSpec => PendingStaysDown
<1>1. IMInv /\ [IMNext]_imVars
        => [\A u \in pendingDeletes :
              u \in pendingDeletes' /\ Running(u)' => Running(u)]_imVars
  BY PendingStaysDownStep
<1> QED
  BY <1>1, IMInvariance, PTL DEF IMSpec, IMSafety, PendingStaysDown

\* An exit that is awaited ends in two ways: by the watchdog, which stops
\* doing so, or by a completion that ends the wave.
LEMMA QuitsByCompletion ==
    ASSUME IMNext, exit = "asked", exit' = "done", watchdog'
    PROVE  \E u \in Uuids : CompletionArrives(u)
<1>1. CASE InstallSink
  BY <1>1 DEF InstallSink
<1>2. CASE DoExit
  BY <1>2 DEF DoExit
<1>3. CASE WatchdogFires
  BY <1>3 DEF WatchdogFires
<1>4. ASSUME NEW u \in Uuids,
             \/ CreateInstance(u) \/ DeleteInstance(u)
             \/ StartInstance(u) \/ StopInstance(u) \/ RestartInstance(u)
             \/ ProcessExits(u) \/ StopSettles(u) \/ RetryFires(u)
             \/ CompletionArrives(u) \/ Reap(u)
      PROVE  CompletionArrives(u)
  <2>1. CASE CreateInstance(u)
    BY <2>1 DEF CreateInstance
  <2>2. CASE DeleteInstance(u)
    BY <2>2 DEF DeleteInstance
  <2>3. CASE \/ StartInstance(u) \/ StopInstance(u) \/ RestartInstance(u)
             \/ ProcessExits(u) \/ StopSettles(u) \/ RetryFires(u)
    <3>1. \E t : SessionMoves(u, t)
      BY <2>3, StepsAreMoves
    <3> QED
      BY <3>1 DEF SessionMoves, RosterFrame
  <2>4. CASE Reap(u)
    BY <2>4 DEF Reap
  <2> QED
    BY <1>4, <2>1, <2>2, <2>3, <2>4
<1> QED
  BY <1>1, <1>2, <1>3, <1>4 DEF IMNext

\* But for the watchdog, the panel quits only when no row has a renderer: the
\* wave is judged by the roster the completion leaves, after the removal of a
\* row whose delete was pending.
THEOREM QuitsOnlyWhenDownHolds == IMSpec => QuitsOnlyWhenDown
<1>1. [IMNext]_imVars => [exit = "asked" /\ exit' = "done" /\ watchdog'
                            => \A u \in roster' : ~Running(u)]_imVars
  <2> SUFFICES ASSUME IMNext, exit = "asked", exit' = "done", watchdog'
               PROVE  \A u \in roster' : ~Running(u)
    BY DEF imVars
  <2>1. PICK u \in Uuids : CompletionArrives(u)
    BY QuitsByCompletion
  <2>2. WaveOver(roster')
    BY <2>1 DEF CompletionArrives
  <2> QED
    BY <2>2 DEF WaveOver
<1> QED
  BY <1>1, PTL DEF IMSpec, IMSafety, QuitsOnlyWhenDown

-----------------------------------------------------------------------------
(* The model of an instance                                                 *)

\* What is found for a model is a file the renderer can draw.
LEMMA FoundTyped ==
    ASSUME NEW m PROVE Found(m) \in Available \cup {NoModel}
BY DomainsAssumption DEF Found

\* The metadata shown is always that of a file that exists.
LEMMA ParsedTyped ==
    ASSUME MSwTypeOK PROVE Parsed \in Available \cup {NoModel}
BY DEF Parsed, MSwTypeOK

\* A resolved path is that of a resolvable model, or none.
LEMMA PathTyped ==
    ASSUME NEW m PROVE PathOf(m) \in Resolvable \cup {NoModel}
BY DEF PathOf

\* The initial state satisfies the inductive invariant.
LEMMA MSwInvInit == MSwInit => MSwInv
<1> SUFFICES ASSUME MSwInit PROVE MSwInv
  OBVIOUS
<1>1. cmds \in Seq(Models) /\ evts \in Seq({"ready", "loaded", "failed"})
  BY DEF MSwInit
<1>2. MSwTypeOK
  BY <1>1 DEF MSwInit, MSwTypeOK, MaybeModels, SocketStates
<1>3. QED
  BY <1>2 DEF MSwInit, MSwInv, InFlightIsRecorded, QuietIsDecided

\* A switch keeps the invariant, whichever of its three ways it takes.
LEMMA LoadModelStep ==
    ASSUME MSwInv, NEW m \in Models, LoadModel(m)
    PROVE  MSwInv'
<1> USE DEF MSwInv, MSwTypeOK, InFlightIsRecorded, QuietIsDecided, Quiet,
            MaybeModels, session, renderer
<1>1. before' \in Models /\ pathBefore' \in Resolvable \cup {NoModel}
  BY DEF LoadModel
<1>2. /\ loaded' = FALSE
      /\ overlapped' \in BOOLEAN
      /\ UNCHANGED <<info, connected, userStopping, socket, evts, alive,
                     announced, shown, first>>
  BY DEF LoadModel, Outstanding
<1>3. CASE SwitchOffline(m)
  BY <1>1, <1>2, <1>3 DEF SwitchOffline
<1>4. CASE SwitchUnresolved(m, before', pathBefore')
  BY <1>1, <1>2, <1>4 DEF SwitchUnresolved, RolledBack
<1>5. CASE SwitchSent(m)
  <2>1. cmds' \in Seq(Models) /\ cmds' # <<>>
    BY <1>5, AppendProperties DEF SwitchSent
  <2>2. path' \in Resolvable \cup {NoModel}
    BY <1>5, PathTyped DEF SwitchSent
  <2>3. QED
    BY <1>1, <1>2, <1>5, <2>1, <2>2 DEF SwitchSent
<1>6. QED
  BY <1>3, <1>4, <1>5 DEF LoadModel

\* Handling the head of the link's events leaves events of the known kinds.
LEMMA ArrivesTyped ==
    ASSUME MSwTypeOK, NEW kind, Arrives(kind)
    PROVE  evts' \in Seq({"ready", "loaded", "failed"})
BY HeadTailProperties DEF Arrives, MSwTypeOK

\* An event put on the link leaves it with one that is to be handled.
LEMMA EventSent ==
    ASSUME MSwTypeOK, NEW kind \in {"ready", "loaded", "failed"},
           evts' = Append(evts, kind)
    PROVE  evts' \in Seq({"ready", "loaded", "failed"}) /\ evts' # <<>>
BY AppendProperties DEF MSwTypeOK

\* Handling an event keeps the invariant: `ready` puts a command on the link,
\* a verdict decides the switch in flight.
LEMMA HandleStep == ASSUME MSwInv, Handle PROVE MSwInv'
<1> USE DEF MSwInv, MSwTypeOK, InFlightIsRecorded, QuietIsDecided, Quiet,
            MaybeModels, SocketStates, config, display, session, renderer, history
<1>1. CASE HandleReady
  <2>1. evts' \in Seq({"ready", "loaded", "failed"})
    BY <1>1, ArrivesTyped DEF HandleReady
  <2>2. cmds' \in Seq(Models) /\ cmds' # <<>>
    BY <1>1, AppendProperties DEF HandleReady
  <2>3. path' \in Resolvable \cup {NoModel}
    BY <1>1, PathTyped DEF HandleReady
  <2>4. QED
    BY <1>1, <2>1, <2>2, <2>3 DEF HandleReady
<1>2. CASE HandleLoaded
  <2>1. evts' \in Seq({"ready", "loaded", "failed"})
    BY <1>2, ArrivesTyped DEF HandleLoaded
  <2>2. info' \in Available \cup {NoModel}
    BY <1>2, ParsedTyped DEF HandleLoaded
  <2>3. QED
    BY <1>2, <2>1, <2>2 DEF HandleLoaded
<1>3. CASE HandleFailed
  <2>1. evts' \in Seq({"ready", "loaded", "failed"})
    BY <1>3, ArrivesTyped DEF HandleFailed
  <2>2. model' \in Models /\ path' \in Resolvable \cup {NoModel}
    BY <1>3 DEF HandleFailed, RolledBack
  <2>3. QED
    BY <1>3, <2>1, <2>2 DEF HandleFailed
<1>4. QED
  BY <1>1, <1>2, <1>3 DEF Handle

\* The renderer answers every command, so the link is not quiet after it.
LEMMA RendererLoadsStep == ASSUME MSwInv, RendererLoads PROVE MSwInv'
<1> USE DEF MSwInv, MSwTypeOK, InFlightIsRecorded, QuietIsDecided, Quiet,
            MaybeModels, config, display, session, history
<1>1. cmds' \in Seq(Models)
  BY HeadTailProperties DEF RendererLoads
<1>2. evts' \in Seq({"ready", "loaded", "failed"}) /\ evts' # <<>>
  BY EventSent DEF RendererLoads
<1>3. shown' \in Available \cup {NoModel}
  BY FoundTyped DEF RendererLoads
<1>4. QED
  BY <1>1, <1>2, <1>3 DEF RendererLoads

\* Every step keeps the invariant.
LEMMA MSwInvStep == MSwInv /\ [MSwNext]_vars => MSwInv'
<1> SUFFICES ASSUME MSwInv, [MSwNext]_vars PROVE MSwInv'
  OBVIOUS
<1>1. CASE \E m \in Models : LoadModel(m)
  BY <1>1, LoadModelStep
<1>2. CASE Handle
  BY <1>2, HandleStep
<1>3. CASE RendererLoads
  BY <1>3, RendererLoadsStep
<1> USE DEF MSwInv, MSwTypeOK, InFlightIsRecorded, QuietIsDecided, Quiet,
            MaybeModels, SocketStates, config, display, session, link,
            renderer, history
<1>4. CASE Launch
  <2>1. shown' \in Available \cup {NoModel}
    BY <1>4, FoundTyped DEF Launch
  <2>2. userStopping' \in BOOLEAN
    BY <1>4 DEF Launch
  <2>3. QED
    BY <1>4, <2>1, <2>2 DEF Launch
<1>5. CASE Stop
  BY <1>5 DEF Stop
<1>6. CASE Connect
  BY <1>6 DEF Connect, Emptied
<1>7. CASE Announce
  BY <1>7, EventSent DEF Announce
<1>8. CASE FrameSeesDown
  <2>1. MSwTypeOK'
    BY <1>8, Zenon DEF FrameSeesDown
  <2>2. QED
    BY <1>8, <2>1, Zenon DEF FrameSeesDown
<1>9. CASE Disconnect
  <2>1. cmds' \in Seq(Models) /\ evts' \in Seq({"ready", "loaded", "failed"})
    BY <1>9 DEF Disconnect, SocketGone, Emptied
  <2>2. socket' \in SocketStates /\ connected' = FALSE
    BY <1>9 DEF Disconnect, SocketGone
  <2>3. UNCHANGED <<config, display, userStopping, renderer, history>>
    BY <1>9 DEF Disconnect, SocketGone
  <2>4. QED
    BY <2>1, <2>2, <2>3, Zenon
<1>10. CASE Exit
  <2>1. cmds' \in Seq(Models)
    BY <1>10 DEF Exit
  <2>2. socket' \in SocketStates /\ socket' # "greeted"
    BY <1>10 DEF Exit
  <2>3. connected' \in BOOLEAN /\ loaded' \in BOOLEAN
    BY <1>10, Zenon DEF Exit
  <2>4. /\ alive' = FALSE /\ announced' = FALSE /\ shown' = NoModel
        /\ UNCHANGED <<config, info, userStopping, evts, history>>
    BY <1>10 DEF Exit
  <2>5. QED
    BY <2>1, <2>2, <2>3, <2>4, Zenon
<1>11. CASE UNCHANGED vars
  BY <1>11 DEF vars
<1>12. QED
  BY <1>1, <1>2, <1>3, <1>4, <1>5, <1>6, <1>7, <1>8, <1>9, <1>10, <1>11
     DEF MSwNext, Handle

\* The inductive invariant holds in every reachable state.
THEOREM MSwInvariance == MSwSpec => []MSwInv
BY MSwInvInit, MSwInvStep, PTL DEF MSwSpec

\* Type correctness, for any models and any bound on the link.
THEOREM MSwTypesHold == MSwSpec => []MSwTypeOK
<1>1. MSwInv => MSwTypeOK
  BY DEF MSwInv
<1>2. QED
  BY <1>1, MSwInvariance, PTL

\* A quiet link leaves no switch undecided, so no later failure is taken for
\* the verdict of an old one.
THEOREM QuietIsDecidedHolds == MSwSpec => []QuietIsDecided
<1>1. MSwInv => QuietIsDecided
  BY DEF MSwInv
<1>2. QED
  BY <1>1, MSwInvariance, PTL

-----------------------------------------------------------------------------
(* What awaiting each verdict buys *)

\* A link that carries one message.
LEMMA OneElement ==
    ASSUME NEW x, NEW y
    PROVE /\ Append(<<>>, x) = <<x>> /\ Tail(<<x>>) = <<>> /\ Head(<<x>>) = x
          /\ <<x>> # <<>> /\ (<<x>> = <<y>> => x = y)
OBVIOUS

\* What is handled is the only event, no command is under way, and nothing is
\* left on the link.
LEMMA OnlyEvent ==
    ASSUME OneMessage, NEW kind \in {"ready", "loaded", "failed"}, Arrives(kind)
    PROVE evts = <<kind>> /\ cmds = <<>> /\ evts' = <<>>
BY OneElement DEF OneMessage, Arrives

\* The first model of a session is sound, and so is what is found.
LEMMA SoundModels ==
    ASSUME NEW m
    PROVE /\ Found(m) # NoModel <=> m \in Available \cup Twins
          /\ Found(m) # NoModel => Sound(m)
          /\ m \in Available => Found(m) = m
BY DomainsAssumption DEF Found, Sound

\* The metadata is read from the file of the configured model, if it is there.
LEMMA ParsedIsModel ==
    ASSUME path = PathOf(model), Found(model) # NoModel, model \notin Twins
    PROVE Parsed = model
<1>1. model \in Available /\ model # NoModel
  BY SoundModels, DomainsAssumption
<1> QED
  BY <1>1 DEF Parsed, PathOf

LEMMA AwaitedInitially == MSwInit => AwaitedInv
<1> SUFFICES ASSUME MSwInit PROVE AwaitedInv
  OBVIOUS
<1>1. MSwInv
  BY MSwInvInit
<1>2. LinkIsSound /\ OneMessage /\ RollbackIsSound /\ DisplayIsSound
  BY OneElement
     DEF MSwInit, LinkIsSound, OneMessage, RollbackIsSound, DisplayIsSound, Sound
<1> QED
  BY <1>1, <1>2 DEF AwaitedInv

\* A switch is made on an empty link, or it overlaps.
LEMMA AwaitedLoadModel ==
    ASSUME AwaitedInv, NEW m \in Models, LoadModel(m)
    PROVE LinkIsSound' /\ (~overlapped' => OneMessage' /\ RollbackIsSound' /\ DisplayIsSound')
<1>1. /\ before' = IF inFlight THEN before ELSE model
      /\ loaded' = FALSE
      /\ overlapped' = (overlapped \/ Outstanding)
      /\ UNCHANGED <<info, connected, socket, evts, alive, announced, shown, first>>
  BY DEF LoadModel, session, renderer
<1>2. \/ cmds' = cmds /\ (~connected \/ m \in Unresolved)
      \/ connected /\ cmds' = Append(cmds, m) /\ path' = PathOf(m)
  BY DEF LoadModel, SwitchOffline, SwitchUnresolved, SwitchSent
<1>3. \/ model' = m /\ inFlight' = TRUE
      \/ model' = before' /\ inFlight' = FALSE /\ cmds' = cmds
  BY DEF LoadModel, SwitchOffline, SwitchUnresolved, SwitchSent, RolledBack
<1>4. cmds' = Append(cmds, m) => model' = m
  <2>1. cmds # Append(cmds, m)
    BY AppendProperties DEF AwaitedInv, MSwInv, MSwTypeOK
  <2> QED
    BY <1>3, <2>1
<1>5. LinkIsSound'
  BY <1>1, <1>2 DEF AwaitedInv, LinkIsSound
<1>6. ASSUME ~overlapped' PROVE OneMessage' /\ RollbackIsSound' /\ DisplayIsSound'
  <2>1. ~overlapped /\ socket # "open" /\ cmds = <<>> /\ evts = <<>>
    BY <1>1, <1>6 DEF Outstanding
  <2>2. OneMessage /\ RollbackIsSound
    BY <2>1 DEF AwaitedInv
  <2>3. cmds' = <<>> \/ (cmds' = <<m>> /\ model' = m /\ path' = PathOf(m))
    <3>1. Append(cmds, m) = <<m>>
      BY <2>1, OneElement
    <3> QED
      BY <1>2, <1>4, <2>1, <3>1
  <2>4. OneMessage'
    BY <1>1, <2>1, <2>3 DEF OneMessage
  <2>5. Sound(before)' /\ evts' = <<>>
    BY <1>1, <2>1, <2>2 DEF RollbackIsSound, Sound
  <2>6. RollbackIsSound'
    BY <1>3, <2>5, OneElement DEF RollbackIsSound, Sound
  <2>7. DisplayIsSound'
    BY <1>1, <2>3, <2>5, OneElement DEF DisplayIsSound
  <2> QED
    BY <2>4, <2>6, <2>7
<1> QED
  BY <1>5, <1>6

\* A verdict is about the configured model: a success confirms a sound one, a
\* failure goes back to one.
LEMMA AwaitedHandle ==
    ASSUME AwaitedInv, Handle
    PROVE LinkIsSound' /\ (~overlapped' => OneMessage' /\ RollbackIsSound' /\ DisplayIsSound')
<1>1. evts # <<>> /\ evts' = Tail(evts) /\ socket # "none"
  BY DEF Handle, HandleReady, HandleLoaded, HandleFailed, Arrives, AwaitedInv, LinkIsSound
<1>2. UNCHANGED <<alive, announced, shown, first, overlapped>>
  BY DEF Handle, HandleReady, HandleLoaded, HandleFailed, renderer, history
<1>3. ASSUME ~overlapped' PROVE ~overlapped /\ OneMessage /\ RollbackIsSound /\ DisplayIsSound
  BY <1>2, <1>3 DEF AwaitedInv
<1>4. CASE HandleReady
  <2>1. /\ Arrives("ready") /\ connected' = TRUE /\ path' = PathOf(model)
        /\ cmds' = Append(cmds, model)
        /\ socket' = IF socket = "open" THEN "greeted" ELSE socket
        /\ UNCHANGED <<model, before, inFlight, loaded, info>>
    BY <1>4 DEF HandleReady, display
  <2>2. LinkIsSound'
    BY <1>1, <1>2, <2>1 DEF AwaitedInv, LinkIsSound
  <2>3. ASSUME ~overlapped' PROVE OneMessage' /\ RollbackIsSound' /\ DisplayIsSound'
    <3>1. cmds' = <<model>> /\ evts' = <<>> /\ socket' # "open"
      BY <1>3, <2>1, <2>3, OnlyEvent, OneElement
    <3> QED
      BY <1>2, <1>3, <2>1, <2>3, <3>1, OneElement
         DEF OneMessage, RollbackIsSound, DisplayIsSound, Sound, PathOf
  <2> QED
    BY <2>2, <2>3
<1>5. CASE HandleLoaded
  <2>1. /\ Arrives("loaded") /\ info' = Parsed /\ loaded' = TRUE /\ inFlight' = FALSE
        /\ UNCHANGED <<model, before, path, connected, socket, cmds>>
    BY <1>5 DEF HandleLoaded, session
  <2>2. evts = <<"loaded">> => socket # "open" \/ overlapped
    BY OneElement DEF AwaitedInv, OneMessage
  <2>3. LinkIsSound'
    <3>1. socket = "open" /\ ~announced => evts' = <<>>
      BY <1>1 DEF AwaitedInv, LinkIsSound
    <3> QED
      BY <1>1, <1>2, <2>1, <3>1 DEF AwaitedInv, LinkIsSound
  <2>4. ASSUME ~overlapped' PROVE OneMessage' /\ RollbackIsSound' /\ DisplayIsSound'
    <3>1. evts = <<"loaded">> /\ cmds = <<>> /\ evts' = <<>> /\ cmds' = <<>>
      BY <1>3, <2>1, <2>4, OnlyEvent
    <3>2. Found(model) # NoModel /\ path = PathOf(model)
      BY <1>3, <2>4, <3>1 DEF RollbackIsSound, DisplayIsSound
    <3>3. model \in Twins \/ info' = model
      BY <2>1, <3>2, ParsedIsModel
    <3>4. socket = "greeted" => shown = Found(model)
      BY <1>3, <2>4, <3>1 DEF DisplayIsSound
    <3>5. OneMessage' /\ RollbackIsSound'
      BY <1>2, <2>1, <3>1, <3>2, SoundModels, OneElement DEF OneMessage, RollbackIsSound, Sound
    <3>6. DisplayIsSound'
      BY <1>2, <2>1, <3>1, <3>2, <3>3, <3>4, OneElement DEF DisplayIsSound, Found
    <3> QED
      BY <3>5, <3>6
  <2> QED
    BY <2>3, <2>4
<1>6. CASE HandleFailed
  <2>1. /\ Arrives("failed") /\ loaded' = FALSE /\ inFlight' = FALSE
        /\ (inFlight /\ model' = before) \/ (~inFlight /\ model' = model)
        /\ UNCHANGED <<before, connected, socket, cmds>>
    BY <1>6 DEF HandleFailed, RolledBack, session
  <2>2. LinkIsSound'
    <3>1. socket = "open" /\ ~announced => evts' = <<>>
      BY <1>1 DEF AwaitedInv, LinkIsSound
    <3> QED
      BY <1>1, <1>2, <2>1, <3>1 DEF AwaitedInv, LinkIsSound
  <2>3. ASSUME ~overlapped' PROVE OneMessage' /\ RollbackIsSound' /\ DisplayIsSound'
    <3>1. cmds' = <<>> /\ evts' = <<>>
      BY <1>3, <2>1, <2>3, OnlyEvent
    <3> QED
      BY <1>2, <1>3, <2>1, <2>3, <3>1, OneElement
         DEF OneMessage, RollbackIsSound, DisplayIsSound, Sound
  <2> QED
    BY <2>2, <2>3
<1> QED
  BY <1>4, <1>5, <1>6 DEF Handle

\* The renderer answers the only command, about the configured model.
LEMMA AwaitedRendererLoads ==
    ASSUME AwaitedInv, RendererLoads
    PROVE LinkIsSound' /\ (~overlapped' => OneMessage' /\ RollbackIsSound' /\ DisplayIsSound')
<1>1. /\ alive /\ socket \in {"open", "greeted"} /\ announced /\ cmds # <<>>
      /\ cmds' = Tail(cmds)
      /\ UNCHANGED <<config, display, session, socket, alive, announced, history>>
  BY DEF RendererLoads, Live
<1>2. \/ /\ Found(Head(cmds)) # NoModel
         /\ shown' = Found(Head(cmds)) /\ evts' = Append(evts, "loaded")
      \/ /\ Found(Head(cmds)) = NoModel
         /\ shown' = shown /\ evts' = Append(evts, "failed")
  BY DEF RendererLoads
<1>3. LinkIsSound'
  BY <1>1 DEF AwaitedInv, LinkIsSound, session
<1>4. ASSUME ~overlapped' PROVE OneMessage' /\ RollbackIsSound' /\ DisplayIsSound'
  <2>1. ~overlapped /\ OneMessage /\ RollbackIsSound /\ DisplayIsSound
    BY <1>1, <1>4 DEF AwaitedInv, history
  <2>2. cmds = <<model>> /\ evts = <<>> /\ socket # "open" /\ path = PathOf(model)
    BY <1>1, <2>1 DEF OneMessage, DisplayIsSound
  <2>3. /\ cmds' = <<>> /\ evts' \in {<<"loaded">>, <<"failed">>}
        /\ evts' = <<"loaded">> => Found(model) # NoModel /\ shown' = Found(model)
    BY <1>1, <1>2, <2>2, OneElement
  <2>4. UNCHANGED <<model, before, path, inFlight, loaded, info, connected, socket, first>>
    BY <1>1 DEF config, display, session, history
  <2>5. OneMessage'
    BY <2>2, <2>3, <2>4 DEF OneMessage
  <2>6. RollbackIsSound'
    BY <2>1, <2>3, <2>4 DEF RollbackIsSound, Sound, Found
  <2>7. DisplayIsSound'
    BY <2>2, <2>3, <2>4, OneElement DEF DisplayIsSound, Found, PathOf
  <2> QED
    BY <2>5, <2>6, <2>7
<1> QED
  BY <1>3, <1>4

\* The ends of the link come and go: what was on it is lost.
LEMMA AwaitedLifecycle ==
    ASSUME AwaitedInv,
           Launch \/ Stop \/ Exit \/ Connect \/ Announce \/ FrameSeesDown \/ Disconnect
    PROVE LinkIsSound' /\ (~overlapped' => OneMessage' /\ RollbackIsSound' /\ DisplayIsSound')
<1>1. UNCHANGED <<config, history, info>>
  BY DEF Launch, Stop, Exit, Connect, Announce, FrameSeesDown, Disconnect, SocketGone, display
<1>2. LinkIsSound /\ UNCHANGED <<model, before, path, inFlight, first, overlapped, info>>
  BY <1>1 DEF AwaitedInv, config, history
<1>3. ~overlapped' => OneMessage /\ RollbackIsSound /\ DisplayIsSound
  BY <1>2 DEF AwaitedInv
<1>4. CASE Launch
  <2>1. ~alive /\ alive' = TRUE /\ UNCHANGED <<display, connected, link, announced>>
    BY <1>4 DEF Launch
  <2>2. socket \notin {"open", "greeted"}
    BY <1>2, <2>1 DEF LinkIsSound
  <2> QED
    BY <1>2, <1>3, <2>1, <2>2
       DEF LinkIsSound, OneMessage, RollbackIsSound, DisplayIsSound, link, display, Found,
           Sound, PathOf
<1>5. CASE Stop
  BY <1>2, <1>3, <1>5
     DEF Stop, LinkIsSound, OneMessage, RollbackIsSound, DisplayIsSound, link, renderer, Found,
         Sound, PathOf
<1>6. CASE Exit
  <2>1. /\ alive' = FALSE /\ socket' \in {"none", "dead"} /\ cmds' = <<>> /\ evts' = evts
        /\ socket = "none" <=> socket' = "none"
        /\ connected' => connected
    BY <1>6 DEF Exit
  <2>2. LinkIsSound'
    BY <1>2, <2>1 DEF LinkIsSound
  <2>3. ~overlapped' => OneMessage'
    BY <1>2, <1>3, <2>1 DEF OneMessage
  <2> QED
    BY <1>2, <1>3, <2>1, <2>2, <2>3 DEF RollbackIsSound, DisplayIsSound, Found, Sound, PathOf
<1>7. CASE Connect \/ Disconnect
  <2>1. /\ cmds' = <<>> /\ evts' = <<>> /\ socket' \in {"open", "none"}
        /\ socket' = "open" => alive' /\ alive
        /\ connected' => socket' # "none"
    BY <1>7 DEF Connect, Disconnect, SocketGone, Emptied, renderer
  <2> QED
    BY <1>2, <1>3, <2>1, OneElement
       DEF LinkIsSound, OneMessage, RollbackIsSound, DisplayIsSound, Sound
<1>8. CASE Announce
  <2>1. /\ alive /\ socket \in {"open", "greeted"} /\ ~announced /\ announced' = TRUE
        /\ evts' = Append(evts, "ready")
        /\ UNCHANGED <<loaded, connected, socket, cmds, alive, shown>>
    BY <1>8 DEF Announce, Live, display, session
  <2>2. evts = <<>> /\ socket = "open"
    BY <1>2, <2>1 DEF LinkIsSound
  <2>3. evts' = <<"ready">>
    BY <2>1, <2>2, OneElement
  <2>4. "ready" # "loaded"
    OBVIOUS
  <2> QED
    BY <1>2, <1>3, <2>1, <2>2, <2>3, <2>4, OneElement
       DEF LinkIsSound, OneMessage, RollbackIsSound, DisplayIsSound, Sound, PathOf
<1>9. CASE FrameSeesDown
  <2>1. /\ alive /\ socket \notin {"open", "greeted"}
        /\ UNCHANGED <<display, session, link, alive, shown>>
    BY <1>9 DEF FrameSeesDown, Live
  <2> QED
    BY <1>2, <1>3, <2>1
       DEF LinkIsSound, OneMessage, RollbackIsSound, DisplayIsSound, Sound, PathOf, Found,
           link, display, session
<1> QED
  BY <1>4, <1>5, <1>6, <1>7, <1>8, <1>9

LEMMA AwaitedStep == AwaitedInv /\ [MSwNext]_vars => AwaitedInv'
<1> SUFFICES ASSUME AwaitedInv, [MSwNext]_vars PROVE AwaitedInv'
  OBVIOUS
<1>1. MSwInv'
  BY MSwInvStep DEF AwaitedInv
<1>2. LinkIsSound' /\ (~overlapped' => OneMessage' /\ RollbackIsSound' /\ DisplayIsSound')
  <2>1. CASE \E m \in Models : LoadModel(m)
    BY <2>1, AwaitedLoadModel
  <2>2. CASE HandleReady \/ HandleLoaded \/ HandleFailed
    BY <2>2, AwaitedHandle DEF Handle
  <2>3. CASE RendererLoads
    BY <2>3, AwaitedRendererLoads
  <2>4. CASE Launch \/ Stop \/ Exit \/ Connect \/ Announce \/ FrameSeesDown \/ Disconnect
    BY <2>4, AwaitedLifecycle
  <2>5. CASE UNCHANGED vars
    BY <2>5
       DEF vars, config, display, session, link, renderer, history, AwaitedInv, LinkIsSound,
           OneMessage, RollbackIsSound, DisplayIsSound, Sound, PathOf, Found
  <2> QED
    BY <2>1, <2>2, <2>3, <2>4, <2>5 DEF MSwNext
<1> QED
  BY <1>1, <1>2 DEF AwaitedInv

\* As long as the user awaits each verdict, the link carries one message about
\* the configured model, a failure goes back to a model the renderer takes,
\* and path, metadata and picture are of one model.
THEOREM AwaitedInvariance == MSwSpec => []AwaitedInv
BY AwaitedInitially, AwaitedStep, PTL DEF MSwSpec

\* The configuration never keeps a model the renderer rejected, unless it was
\* configured so in the beginning.
THEOREM RejectedIsUndoneHolds == MSwSpec => []RejectedIsUndone
<1>1. AwaitedInv => RejectedIsUndone
  BY DEF AwaitedInv, MSwInv, QuietIsDecided, RollbackIsSound, RejectedIsUndone
<1> QED
  BY <1>1, AwaitedInvariance, PTL

\* A model shown as loaded is the one the renderer draws, and the motions and
\* hit areas are its own.
THEOREM LoadedIsShownHolds == MSwSpec => []LoadedIsShown
<1>1. AwaitedInv => LoadedIsShown
  <2> SUFFICES ASSUME AwaitedInv, ~overlapped, Quiet, loaded, model \notin Twins
               PROVE shown = model /\ info = model
    BY DEF LoadedIsShown
  <2>1. Found(model) # NoModel /\ shown = Found(model) /\ info = model
    BY DEF AwaitedInv, DisplayIsSound, Quiet
  <2> QED
    BY <2>1, SoundModels
<1> QED
  BY <1>1, AwaitedInvariance, PTL
=============================================================================
