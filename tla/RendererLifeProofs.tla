------------------------ MODULE RendererLifeProofs ------------------------
(***************************************************************************)
(* The life of a renderer process, seen from the panel that starts, stops  *)
(* and restarts it and from what it creates and destroys in between.       *)
(*                                                                         *)
(* ProcessManager and InstanceSession, for every number of retries and     *)
(* every bound.  PMInv is inductive for every owner that starts as         *)
(* ProcessManager allows, and the stop machine keeps StopContract.  The    *)
(* session drives it as it requires, so PMInv carries over; with it ISInv  *)
(* is inductive; DeleteIsFinal and the refinement of ManagedSession        *)
(* follow.                                                                 *)
(*                                                                         *)
(* GraphicsObjects, for any number of frames in flight, of ring slots,     *)
(* models and textures.  The plans of the functions are known by what they *)
(* are put together from: each holds steps of its phase only, the ring is  *)
(* checked before it is used, a swapchain goes right after its views, and  *)
(* Release goes up one rank after the other.  GraphicsInv says so of what  *)
(* is left of a plan, and a step keeps it.                                 *)
(***************************************************************************)
EXTENDS InstanceSession, GraphicsObjects, TLAPS


-----------------------------------------------------------------------------
(* ProcessManager: the invariant of the stop machine.                      *)

\* Bringing the definitions that only name variables or values into view.
USE DEF ProcStates, Windows, IsRunning

\* The initial state satisfies the inductive invariant.
LEMMA PMInvInit == PMInit => PMInv
<1> SUFFICES ASSUME PMInit PROVE PMInv
  OBVIOUS
<1>1. posted \in Seq(BOOLEAN)
  BY DEF PMInit
<1>2. elapsed \in Windows
  BY DEF PMInit
<1>3. PMTypeOK
  BY <1>1, <1>2, Zenon DEF PMInit, PMTypeOK
<1>4. QED
  BY <1>3, Zenon DEF PMInit, PMInv, KillBelongsToCycle, StopInFlightIsManual

\* Finishing a stop cycle, from a state in which the mark and the flags are
\* well typed, clears what the invariant constrains and posts a Boolean.
LEMMA FinishStopEffect ==
    ASSUME PMInv, NEW clean \in BOOLEAN, FinishStop(clean)
    PROVE  /\ posted' \in Seq(BOOLEAN)
           /\ ~stopInFlight' /\ stopInFlight' \in BOOLEAN
           /\ ~killIssued' /\ killIssued' \in BOOLEAN
<1>1. posted' \in Seq(BOOLEAN)
  BY DEF FinishStop, PMInv, PMTypeOK
<1>2. QED
  BY <1>1, Zenon DEF FinishStop

\* Launching only moves the process state.
LEMMA LaunchEffect ==
    ASSUME PMInv, OwnerStarts
    PROVE  proc' \in ProcStates
BY DEF OwnerStarts, StartRenderer, LaunchOutcomes, PMInv, PMTypeOK

\* Every step of the process and of the stop machine keeps the invariant.
LEMMA PMInvStep == PMInv /\ [PMNext]_pmVars => PMInv'
<1> SUFFICES ASSUME PMInv, [PMNext]_pmVars
             PROVE  PMInv'
  OBVIOUS
<1> USE DEF PMInv, PMTypeOK, KillBelongsToCycle, StopInFlightIsManual
<1>1. CASE Launch
  BY <1>1, LaunchEffect DEF Launch, stopVars
<1>2. CASE Started
  BY <1>2 DEF Started, stopVars
<1>3. CASE Finished
  <2>1. CASE stopInFlight
    BY <1>3, <2>1, FinishStopEffect DEF Finished
  <2>2. CASE ~stopInFlight
    BY <1>3, <2>2 DEF Finished
  <2>3. QED
    BY <2>1, <2>2
<1>4. CASE FailedToStart
  BY <1>4 DEF FailedToStart, stopVars
<1>5. CASE Stop
  <2>1. CASE StopAbsorbed
    BY <2>1 DEF StopAbsorbed, pmVars, stopVars
  <2>2. CASE StopWithoutProcess
    BY <2>2 DEF StopWithoutProcess
  <2>3. CASE StopProcess
    <3>1. elapsed' \in Windows
      BY <2>3 DEF StopProcess
    <3>2. QED
      BY <2>3, <3>1, Zenon DEF StopProcess
  <2>4. QED
    BY <1>5, <2>1, <2>2, <2>3 DEF Stop
<1>6. CASE WindowPasses
  BY <1>6 DEF WindowPasses
<1>7. CASE StopPollTick
  <2>1. CASE TickObservesExit
    BY <2>1, FinishStopEffect DEF TickObservesExit
  <2>2. CASE TickKills
    BY <2>2 DEF TickKills
  <2>3. CASE TickAbandons
    BY <2>3, FinishStopEffect DEF TickAbandons
  <2>4. QED
    BY <1>7, <2>1, <2>2, <2>3 DEF StopPollTick
<1>8. CASE DeliverStopFinished
  <2>1. posted' \in Seq(BOOLEAN)
    BY <1>8 DEF DeliverStopFinished, EmitStopFinished
  <2>2. proc' \in ProcStates
    BY <1>8, LaunchEffect DEF DeliverStopFinished
  <2>3. QED
    BY <1>8, <2>1, <2>2 DEF DeliverStopFinished, EmitStopFinished
<1>9. CASE UNCHANGED pmVars
  BY <1>9 DEF pmVars, stopVars
<1>10. QED
  BY <1>1, <1>2, <1>3, <1>4, <1>5, <1>6, <1>7, <1>8, <1>9 DEF PMNext

\* PMInv holds in every reachable state.
THEOREM PMInvariance == PMSpec => []PMInv
<1>1. PMSpec => PMSafety
  BY DEF PMSpec
<1>2. PMSafety => []PMInv
  BY PMInvInit, PMInvStep, PTL DEF PMSafety
<1>3. QED
  BY <1>1, <1>2, PTL

\* The force-kill mark never outlives its stop cycle, nor comes before the
\* grace window is over.
THEOREM KillBelongsToCycleHolds == PMSpec => []KillBelongsToCycle
<1>1. PMInv => KillBelongsToCycle
  BY DEF PMInv
<1>2. QED
  BY <1>1, PMInvariance, PTL

\* While a stop is in flight, exits are reported as user-initiated.
THEOREM StopInFlightIsManualHolds == PMSpec => []StopInFlightIsManual
<1>1. PMInv => StopInFlightIsManual
  BY DEF PMInv
<1>2. QED
  BY <1>1, PMInvariance, PTL

-----------------------------------------------------------------------------
(* The refinement of StopContract, safety part.                            *)

\* The initial state maps to the contract's initial state.
LEMMA ContractInit == PMInit => Contract!SCInit
BY DEF PMInit, Contract!SCInit

\* Every step maps to a step of the contract or to a stutter.
LEMMA ContractStep ==
    PMInv /\ [PMNext]_pmVars => [Contract!SCNext]_Contract!scVars
<1> SUFFICES ASSUME PMInv, [PMNext]_pmVars
             PROVE  [Contract!SCNext]_Contract!scVars
  OBVIOUS
<1> USE DEF Contract!SCNext, Contract!scVars, PMInv, PMTypeOK
<1>1. CASE Launch
  BY <1>1 DEF Launch, OwnerStarts, StartRenderer, LaunchOutcomes, stopVars,
              Contract!Born, Contract!Birth
<1>2. CASE Started
  BY <1>2 DEF Started, stopVars
<1>3. CASE Finished
  <2>1. CASE stopInFlight
    BY <1>3, <2>1, Zenon DEF Finished, FinishStop, Contract!Settle
  <2>2. CASE ~stopInFlight
    BY <1>3, <2>2 DEF Finished, Contract!Gone
  <2>3. QED
    BY <2>1, <2>2
<1>4. CASE FailedToStart
  BY <1>4 DEF FailedToStart, stopVars, Contract!Gone
<1>5. CASE Stop
  BY <1>5 DEF Stop, StopAbsorbed, StopWithoutProcess, StopProcess,
              pmVars, stopVars, Contract!StopLive, Contract!StopDead
<1>6. CASE WindowPasses
  BY <1>6 DEF WindowPasses
<1>7. CASE StopPollTick
  <2>1. CASE TickObservesExit
    BY <2>1 DEF TickObservesExit, FinishStop, Contract!Settle
  <2>2. CASE TickKills
    BY <2>2 DEF TickKills
  <2>3. CASE TickAbandons
    BY <2>3 DEF TickAbandons, FinishStop, Contract!Settle
  <2>4. QED
    BY <1>7, <2>1, <2>2, <2>3 DEF StopPollTick
<1>8. CASE DeliverStopFinished
  BY <1>8 DEF DeliverStopFinished, EmitStopFinished, OwnerStarts, StartRenderer,
              LaunchOutcomes, Contract!Deliver, Contract!Birth
<1>9. CASE UNCHANGED pmVars
  BY <1>9 DEF pmVars, stopVars
<1>10. QED
  BY <1>1, <1>2, <1>3, <1>4, <1>5, <1>6, <1>7, <1>8, <1>9 DEF PMNext

\* The stop machine only ever does what the stop contract allows: one verdict
\* per accepted stop, clean only for a process that is gone, in order.
THEOREM KeepsStopContract == PMSpec => Contract!SCSafety
<1>1. PMSpec => PMSafety
  BY DEF PMSpec
<1>2. PMSafety => Contract!SCSafety
  BY PMInvInit, PMInvStep, ContractInit, ContractStep, PTL
     DEF PMSafety, Contract!SCSafety
<1>3. QED
  BY <1>1, <1>2, PTL

HIDE DEF ProcStates, Windows, IsRunning

-----------------------------------------------------------------------------
(* Every step of the session is a ProcessManager step or a stutter.        *)

\* start() launches only with no stop in flight.
LEMMA StartBodyDrives ==
    ASSUME NEW stopping, NEW timers, NEW queued,
           StartBody(stopping, timers, queued)
    PROVE  proc' = proc \/ OwnerStarts
BY DEF StartBody, StartReturnsEarly, StartLaunches, OwnerStarts

\* Every step of the session is one of ProcessManager as its owner may drive it.
LEMMA SessionStepDrives == [ISNext]_isVars => [PMNext]_pmVars
<1> SUFFICES ASSUME [ISNext]_isVars
             PROVE  [PMNext]_pmVars
  OBVIOUS
<1> USE DEF pmVars, PMNext
<1>1. CASE UserStart
  BY <1>1, StartBodyDrives DEF UserStart, Launch
<1>2. CASE UserStop \/ UserRestart \/ UserDelete
  BY <1>2 DEF UserStop, UserRestart, UserDelete, StopBody
<1>3. CASE ProcessStarted \/ TimePasses \/ PollTick
  BY <1>3 DEF ProcessStarted, TimePasses, PollTick
<1>4. CASE (\E badExit \in BOOLEAN : ProcessExits(badExit)) \/ ProcessFailsToStart
  BY <1>4 DEF ProcessExits, ProcessFailsToStart
<1>5. CASE RetryFires
  BY <1>5, StartBodyDrives DEF RetryFires, Launch
<1>6. CASE StopFinished
  BY <1>6, StartBodyDrives DEF StopFinished, DeliverStopFinished
<1>7. CASE RendererDials \/ ConnectionAccepted \/ ConnectionRejected
  BY <1>7 DEF RendererDials, ConnectionAccepted, ConnectionRejected, WsFrame
<1>8. CASE RendererSendsReady \/ RendererSendsLoaded
  BY <1>8 DEF RendererSendsReady, RendererSendsLoaded, RendererSends, WsFrame
<1>9. CASE ReadyArrives \/ ModelLoadedArrives \/ SocketDisconnected \/ ReadyTimeout
  BY <1>9 DEF ReadyArrives, ModelLoadedArrives, SocketDisconnected, ReadyTimeout,
              DropSocket, WsFrame
<1>10. CASE UNCHANGED isVars
  BY <1>10 DEF isVars
<1>11. QED
  BY <1>1, <1>2, <1>3, <1>4, <1>5, <1>6, <1>7, <1>8, <1>9, <1>10 DEF ISNext

\* The session is a faithful owner of its ProcessManager.
THEOREM SessionDrivesProcessManager == ISSpec => DrivesProcessManager
<1>1. ISInit => PMInit
  BY DEF ISInit
<1>2. ISSpec => ISSafety
  BY DEF ISSpec
<1>3. ISSafety => PMSafety
  BY <1>1, SessionStepDrives, PTL DEF ISSafety, PMSafety
<1>4. QED
  BY <1>2, <1>3, PTL DEF DrivesProcessManager

-----------------------------------------------------------------------------
(* The inductive invariant.                                                *)

\* Its parts that concern the session alone, by topic.
SessionTypes ==
    /\ status \in Statuses
    /\ connected \in BOOLEAN /\ modelLoaded \in BOOLEAN
    /\ userStopping \in BOOLEAN /\ startQueued \in BOOLEAN
    /\ deletePending \in BOOLEAN
    /\ monitoring \in BOOLEAN /\ idling \in BOOLEAN

RestartTypes == attempts \in 0 .. MaxAttempts /\ armed \in Nat

WsTypes ==
    /\ tokenHeld \in BOOLEAN
    /\ dialing \subseteq TokenKinds
    /\ conn \in Peers
    /\ wire \in Stages

\* The type invariant, by topic.
LEMMA ISTypeParts ==
    ISTypeOK <=> PMTypeOK /\ SessionTypes /\ RestartTypes /\ WsTypes
BY Zenon DEF ISTypeOK, SessionTypes, RestartTypes, WsTypes

\* The initial state satisfies the inductive invariant.
LEMMA ISInvInit == ISInit => ISInv
<1> SUFFICES ASSUME ISInit PROVE ISInv
  OBVIOUS
<1>1. PMInv
  BY PMInvInit DEF ISInit
<1>2. SessionTypes
  BY DEF ISInit, SessionTypes, Statuses
<1>3. RestartTypes
  BY MaxAttemptsAssumption DEF ISInit, RestartTypes
<1>4. WsTypes
  BY DEF ISInit, WsTypes, Peers, Stages
<1>5. ISTypeOK
  BY <1>1, <1>2, <1>3, <1>4, ISTypeParts DEF PMInv
<1>6. SlotInv /\ DoomedParksNothing /\ QueuedStartBacked /\ ConnectedHasSocket
  BY Zenon DEF ISInit, SlotInv, DoomedParksNothing, QueuedStartBacked, ConnectedHasSocket
<1>7. StoppedRendererIsDoomed /\ StoppedIsNotPolled
  BY Zenon DEF ISInit, PMInit, IsRunning, StoppedRendererIsDoomed, StoppedIsNotPolled
<1>8. QED
  BY <1>1, <1>5, <1>6, <1>7, Zenon DEF ISInv

\* The exited() slot keeps the ladder in range and can only disconnect.
LEMMA ExitedSlotEffect ==
    ASSUME RestartTypes, connected \in BOOLEAN, modelLoaded \in BOOLEAN,
           NEW crashed, NEW stopping, NEW timers \in Nat,
           ExitedSlot(crashed, stopping, timers)
    PROVE  /\ RestartTypes'
           /\ connected' \in BOOLEAN /\ modelLoaded' \in BOOLEAN
           /\ connected' => connected
<1>1. RestartTypes'
  BY MaxAttemptsAssumption DEF ExitedSlot, ScheduleRestart, RestartTypes
<1>2. QED
  BY <1>1, Zenon DEF ExitedSlot

\* start(), by whichever path, keeps every type, disconnects at most, parks a
\* start only behind a stop in flight, and leaves "stopped" or does nothing.
LEMMA StartBodyEffect ==
    ASSUME SessionTypes, RestartTypes, WsTypes,
           NEW stopping, NEW timers \in Nat, NEW queued \in BOOLEAN,
           StartBody(stopping, timers, queued)
    PROVE  /\ status' \in Statuses
           /\ connected' \in BOOLEAN /\ modelLoaded' \in BOOLEAN
           /\ startQueued' \in BOOLEAN
           /\ RestartTypes'
           /\ tokenHeld' \in BOOLEAN /\ dialing' \subseteq TokenKinds
           /\ conn' \in Peers
           /\ connected' => connected
           /\ conn' = "none" <=> conn = "none"
           /\ startQueued' => queued \/ (stopInFlight /\ ~deletePending)
           /\ status' = "stopped" => status = "stopped" /\ proc' = proc
           /\ deletePending => proc' = proc
<1> USE DEF SessionTypes, WsTypes
<1>1. CASE StartReturnsEarly(timers, queued)
  <2>1. RestartTypes'
    BY <1>1 DEF StartReturnsEarly, RestartTypes
  <2>2. status' \in Statuses
    BY <1>1, Zenon DEF StartReturnsEarly, Statuses
  <2>3. startQueued' \in BOOLEAN
    BY <1>1, Zenon DEF StartReturnsEarly
  <2>4. startQueued' => queued \/ (stopInFlight /\ ~deletePending)
    BY <1>1, Zenon DEF StartReturnsEarly
  <2>5. status' = "stopped" => status = "stopped"
    BY <1>1 DEF StartReturnsEarly
  <2>6. QED
    BY <1>1, <2>1, <2>2, <2>3, <2>4, <2>5, Zenon DEF StartReturnsEarly
<1>2. CASE ~deletePending /\ ~stopInFlight /\ StartLaunches(stopping, timers, queued)
  <2>1. PICK outcome \in LaunchOutcomes :
          /\ tokenHeld' = (outcome = "starting")
          /\ dialing' = {"stale" : d \in dialing}
          /\ conn' = IF outcome = "starting" /\ conn = "process" THEN "former" ELSE conn
          /\ IF outcome = "refused"
             THEN ExitedSlot(TRUE, stopping, timers)
             ELSE UNCHANGED <<connected, modelLoaded, attempts>> /\ armed' = timers
          /\ status' = "connecting"
          /\ startQueued' = queued
    BY <1>2, Zenon DEF StartLaunches
  <2>2. /\ RestartTypes'
        /\ connected' \in BOOLEAN /\ modelLoaded' \in BOOLEAN
        /\ connected' => connected
    <3>1. CASE outcome = "refused"
      BY <2>1, <3>1, ExitedSlotEffect
    <3>2. CASE outcome # "refused"
      BY <2>1, <3>2 DEF RestartTypes
    <3>3. QED
      BY <3>1, <3>2
  <2>3. /\ tokenHeld' \in BOOLEAN
        /\ dialing' \subseteq TokenKinds
        /\ conn' \in Peers
        /\ conn' = "none" <=> conn = "none"
    BY <2>1 DEF TokenKinds, Peers
  <2>4. status' \in Statuses /\ status' # "stopped"
    BY <2>1 DEF Statuses
  <2>5. QED
    BY <1>2, <2>1, <2>2, <2>3, <2>4, Zenon
<1>3. QED
  BY <1>1, <1>2 DEF StartBody

\* The conjuncts of ISInv that are the session's own.
SessionInv ==
    /\ SessionTypes /\ RestartTypes /\ WsTypes
    /\ SlotInv /\ DoomedParksNothing
    /\ QueuedStartBacked /\ ConnectedHasSocket
    /\ StoppedRendererIsDoomed /\ StoppedIsNotPolled

\* The invariant, split into ProcessManager's part and the session's.
LEMMA ISInvParts == ISInv <=> PMInv /\ SessionInv
BY ISTypeParts, Zenon DEF ISInv, PMInv, SessionInv

\* A step that is start(): by the user, by a retry timer, or for a parked
\* start whose completion is being delivered.
LEMMA StartStep ==
    ASSUME PMInv, SessionInv,
           NEW stopping, NEW timers \in Nat, NEW queued \in BOOLEAN,
           StartBody(stopping, timers, queued), StartFrame,
           queued => startQueued /\ posted' = posted,
           userStopping' \in BOOLEAN,
           UNCHANGED <<stopInFlight, manuallyStopping>>
    PROVE  SessionInv'
<1> USE DEF SessionInv
<1>1. /\ status' \in Statuses
      /\ connected' \in BOOLEAN /\ modelLoaded' \in BOOLEAN
      /\ startQueued' \in BOOLEAN
      /\ RestartTypes'
      /\ tokenHeld' \in BOOLEAN /\ dialing' \subseteq TokenKinds
      /\ conn' \in Peers
      /\ connected' => connected
      /\ conn' = "none" <=> conn = "none"
      /\ startQueued' => queued \/ (stopInFlight /\ ~deletePending)
      /\ status' = "stopped" => status = "stopped" /\ proc' = proc
  BY StartBodyEffect, Zenon
<1>2. SessionTypes' /\ WsTypes'
  BY <1>1, Zenon DEF SessionTypes, WsTypes, StartFrame
<1>3. SlotInv' /\ ConnectedHasSocket'
  BY <1>1, Zenon DEF SlotInv, ConnectedHasSocket, StartFrame
<1>4. DoomedParksNothing' /\ QueuedStartBacked'
  BY <1>1, Zenon DEF DoomedParksNothing, QueuedStartBacked, StartFrame
<1>5. StoppedRendererIsDoomed' /\ StoppedIsNotPolled'
  BY <1>1, Zenon DEF StoppedRendererIsDoomed, StoppedIsNotPolled, StartFrame, IsRunning
<1>6. QED
  BY <1>1, <1>2, <1>3, <1>4, <1>5, Zenon

\* A queue with a completion appended is not empty.
LEMMA AppendedIsNotEmpty ==
    ASSUME NEW seq \in Seq(BOOLEAN), NEW clean \in BOOLEAN
    PROVE  Append(seq, clean) # <<>>
OBVIOUS

\* stop() leaves a completion coming and any live process marked as stopping.
LEMMA StopEffect ==
    ASSUME PMInv, Stop
    PROVE  /\ stopInFlight' \/ posted' # <<>>
           /\ IsRunning' => manuallyStopping'
<1> USE DEF PMInv, PMTypeOK, StopInFlightIsManual, IsRunning
<1>1. CASE StopAbsorbed
  BY <1>1, Zenon DEF StopAbsorbed, pmVars, stopVars
<1>2. CASE StopWithoutProcess
  <2>1. posted \in Seq(BOOLEAN) /\ posted' = Append(posted, TRUE) /\ ~IsRunning'
    BY <1>2, Zenon DEF StopWithoutProcess
  <2>2. QED
    BY <2>1, AppendedIsNotEmpty, Zenon
<1>3. CASE StopProcess
  BY <1>3, Zenon DEF StopProcess
<1>4. QED
  BY <1>1, <1>2, <1>3, Zenon DEF Stop

\* The part every user operation that stops shares.
LEMMA StopStep ==
    ASSUME PMInv, SessionInv, StopBody,
           startQueued' \in BOOLEAN, deletePending' \in BOOLEAN,
           deletePending' => ~startQueued'
    PROVE  SessionInv'
<1> USE DEF SessionInv, StopBody
<1>1. /\ stopInFlight' \/ posted' # <<>>
      /\ IsRunning' => manuallyStopping'
  BY StopEffect
<1>2. SessionTypes'
  BY Zenon DEF SessionTypes, Statuses
<1>3. RestartTypes' /\ WsTypes'
  BY Zenon DEF RestartTypes, restartVars, WsTypes, wsVars
<1>4. SlotInv' /\ ConnectedHasSocket' /\ DoomedParksNothing'
  BY Zenon DEF SlotInv, ConnectedHasSocket, DoomedParksNothing, wsVars
<1>5. QueuedStartBacked' /\ StoppedRendererIsDoomed' /\ StoppedIsNotPolled'
  BY <1>1, Zenon DEF QueuedStartBacked, StoppedRendererIsDoomed, StoppedIsNotPolled
<1>6. QED
  BY <1>2, <1>3, <1>4, <1>5, Zenon

\* A completed or abandoned stop cycle leaves a verdict in the queue.
LEMMA FinishStopPosts ==
    ASSUME PMInv, NEW clean \in BOOLEAN, FinishStop(clean)
    PROVE  posted' # <<>>
BY DEF FinishStop, PMInv, PMTypeOK

\* Events of the process and of the stop machine alone.
LEMMA ProcessEventStep ==
    ASSUME PMInv, SessionInv, ProcessStarted \/ TimePasses \/ PollTick
    PROVE  SessionInv'
<1> USE DEF SessionInv
<1>1. PMEventFrame
  BY Zenon DEF ProcessStarted, TimePasses, PollTick
<1>2. /\ startQueued => stopInFlight' \/ posted' # <<>>
      /\ IsRunning' => IsRunning
      /\ manuallyStopping' = manuallyStopping
  <2> USE DEF QueuedStartBacked, IsRunning
  <2>1. CASE ProcessStarted
    BY <2>1 DEF ProcessStarted, Started, stopVars
  <2>2. CASE TimePasses
    BY <2>2 DEF TimePasses, WindowPasses
  <2>3. CASE PollTick
    <3>1. CASE TickObservesExit
      BY <3>1, FinishStopPosts DEF TickObservesExit, PMInv, PMTypeOK
    <3>2. CASE TickKills
      BY <3>2 DEF TickKills
    <3>3. CASE TickAbandons
      BY <3>3, FinishStopPosts DEF TickAbandons
    <3>4. QED
      BY <2>3, <3>1, <3>2, <3>3 DEF PollTick, StopPollTick
  <2>4. QED
    BY <2>1, <2>2, <2>3
<1>3. SessionTypes' /\ RestartTypes' /\ WsTypes'
  BY <1>1, Zenon DEF PMEventFrame, sessionVars, restartVars, wsVars,
                     SessionTypes, RestartTypes, WsTypes
<1>4. SlotInv' /\ ConnectedHasSocket' /\ DoomedParksNothing' /\ StoppedIsNotPolled'
  BY <1>1, Zenon DEF PMEventFrame, sessionVars, wsVars,
                     SlotInv, ConnectedHasSocket, DoomedParksNothing, StoppedIsNotPolled
<1>5. QueuedStartBacked' /\ StoppedRendererIsDoomed'
  BY <1>1, <1>2, Zenon DEF PMEventFrame, sessionVars,
                           QueuedStartBacked, StoppedRendererIsDoomed
<1>6. QED
  BY <1>3, <1>4, <1>5, Zenon

\* The process is gone, by exit or by failing to start.
LEMMA ExitStepKeeps ==
    ASSUME PMInv, SessionInv,
           (\E badExit \in BOOLEAN : ProcessExits(badExit)) \/ ProcessFailsToStart
    PROVE  SessionInv'
<1> USE DEF SessionInv
<1>1. PICK crashed : ExitedSlot(crashed, userStopping, armed)
  BY Zenon DEF ProcessExits, ProcessFailsToStart
<1>2. status' = StatusAfterExit(userStopping) /\ ExitFrame
  BY Zenon DEF ProcessExits, ProcessFailsToStart
<1>3. /\ startQueued => stopInFlight' \/ posted' # <<>>
      /\ ~IsRunning'
  <2>1. CASE \E badExit \in BOOLEAN : ProcessExits(badExit)
    <3>1. Finished
      BY <2>1 DEF ProcessExits
    <3>2. CASE stopInFlight
      BY <3>1, <3>2, FinishStopPosts DEF Finished, IsRunning, PMInv, PMTypeOK
    <3>3. CASE ~stopInFlight
      BY <3>1, <3>3 DEF Finished, IsRunning, QueuedStartBacked
    <3>4. QED
      BY <3>2, <3>3
  <2>2. CASE ProcessFailsToStart
    BY <2>2 DEF ProcessFailsToStart, FailedToStart, stopVars, IsRunning, QueuedStartBacked
  <2>3. QED
    BY <2>1, <2>2
<1>4. /\ RestartTypes'
      /\ connected' \in BOOLEAN /\ modelLoaded' \in BOOLEAN
      /\ connected' => connected
  <2>1. connected \in BOOLEAN /\ modelLoaded \in BOOLEAN /\ armed \in Nat
    BY Zenon DEF SessionTypes, RestartTypes
  <2>2. QED
    BY <1>1, <2>1, ExitedSlotEffect, Zenon
<1>5. status' \in Statuses /\ (status' = "stopped" => status = "stopped")
  BY <1>2 DEF StatusAfterExit, SessionTypes, Statuses
<1>6. SessionTypes' /\ WsTypes'
  BY <1>2, <1>4, <1>5, Zenon DEF ExitFrame, wsVars, SessionTypes, WsTypes
<1>7. SlotInv' /\ ConnectedHasSocket' /\ DoomedParksNothing'
  BY <1>2, <1>4, Zenon DEF ExitFrame, wsVars, SlotInv, ConnectedHasSocket,
                           DoomedParksNothing
<1>8. QueuedStartBacked' /\ StoppedRendererIsDoomed' /\ StoppedIsNotPolled'
  BY <1>2, <1>3, <1>5, Zenon DEF ExitFrame, QueuedStartBacked,
                           StoppedRendererIsDoomed, StoppedIsNotPolled
<1>9. QED
  BY <1>4, <1>6, <1>7, <1>8, Zenon

\* Traffic on the instance's socket.
LEMMA SocketStep ==
    ASSUME PMInv, SessionInv,
           \/ RendererDials \/ ConnectionAccepted \/ ConnectionRejected
           \/ RendererSendsReady \/ RendererSendsLoaded
           \/ ReadyArrives \/ ModelLoadedArrives
           \/ SocketDisconnected \/ ReadyTimeout
    PROVE  SessionInv'
<1> USE DEF SessionInv
<1>1. CASE RendererDials
  <2>1. dialing' \subseteq TokenKinds
    BY <1>1 DEF RendererDials, TokenKinds, WsTypes
  <2>2. SessionTypes' /\ RestartTypes' /\ WsTypes'
    BY <1>1, <2>1, Zenon DEF RendererDials, sessionVars, restartVars,
                             SessionTypes, RestartTypes, WsTypes
  <2>3. SlotInv' /\ ConnectedHasSocket' /\ DoomedParksNothing' /\ QueuedStartBacked'
    BY <1>1, Zenon DEF RendererDials, sessionVars, pmVars, stopVars, SlotInv,
                       ConnectedHasSocket, DoomedParksNothing, QueuedStartBacked
  <2>4. StoppedRendererIsDoomed' /\ StoppedIsNotPolled'
    BY <1>1, Zenon DEF RendererDials, sessionVars, pmVars, stopVars, IsRunning,
                       StoppedRendererIsDoomed, StoppedIsNotPolled
  <2>5. QED
    BY <2>2, <2>3, <2>4, Zenon
<1>2. CASE \/ ConnectionAccepted \/ ConnectionRejected
           \/ RendererSendsReady \/ RendererSendsLoaded
           \/ ReadyArrives \/ ModelLoadedArrives
           \/ SocketDisconnected \/ ReadyTimeout
  <2> USE DEF ConnectionAccepted, ConnectionRejected, RendererSendsReady,
              RendererSendsLoaded, RendererSends, ReadyArrives,
              ModelLoadedArrives, SocketDisconnected, ReadyTimeout, DropSocket
  <2>1. WsFrame
    BY <1>2, Zenon
  <2>2. /\ status' \in Statuses
        /\ status' = "stopped" => status = "stopped" /\ monitoring' = monitoring
    BY <1>2 DEF SessionTypes, Statuses
  <2>3. /\ connected' \in BOOLEAN /\ modelLoaded' \in BOOLEAN
        /\ monitoring' \in BOOLEAN /\ idling' \in BOOLEAN
    BY <1>2, HasIdleMotionsAssumption, Zenon DEF SessionTypes
  <2>4. RestartTypes'
    BY <1>2, <2>1, MaxAttemptsAssumption DEF RestartTypes, WsFrame
  <2>5. /\ dialing' \subseteq TokenKinds
        /\ conn' \in Peers
        /\ wire' \in Stages
        /\ SlotInv'
    BY <1>2 DEF WsTypes, Peers, Stages, SlotInv
  <2>6. ConnectedHasSocket'
    BY <1>2 DEF SlotInv, ConnectedHasSocket
  <2> HIDE DEF ConnectionAccepted, ConnectionRejected, RendererSendsReady,
               RendererSendsLoaded, RendererSends, ReadyArrives,
               ModelLoadedArrives, SocketDisconnected, ReadyTimeout, DropSocket
  <2>7. SessionTypes' /\ WsTypes'
    BY <2>1, <2>2, <2>3, <2>5, Zenon DEF SessionTypes, WsTypes, WsFrame
  <2>8. DoomedParksNothing' /\ QueuedStartBacked'
    BY <2>1, Zenon DEF WsFrame, pmVars, stopVars, DoomedParksNothing, QueuedStartBacked
  <2>9. StoppedRendererIsDoomed'
    BY <2>1, <2>2, Zenon DEF WsFrame, pmVars, stopVars, IsRunning,
                             StoppedRendererIsDoomed
  <2>10. StoppedIsNotPolled'
    BY <2>2, Zenon DEF StoppedIsNotPolled
  <2>11. QED
    BY <2>4, <2>5, <2>6, <2>7, <2>8, <2>9, <2>10, Zenon
<1>3. QED
  BY <1>1, <1>2, Zenon

\* Every step keeps ISInv.
LEMMA ISInvStep == ISInv /\ [ISNext]_isVars => ISInv'
<1> SUFFICES ASSUME ISInv, [ISNext]_isVars
             PROVE  ISInv'
  OBVIOUS
<1>1. PMInv /\ SessionInv
  BY ISInvParts, Zenon
<1>2. PMInv'
  BY <1>1, SessionStepDrives, PMInvStep, Zenon
<1>3. /\ armed \in Nat /\ startQueued \in BOOLEAN /\ userStopping \in BOOLEAN
      /\ deletePending \in BOOLEAN
  BY <1>1, Zenon DEF SessionInv, SessionTypes, RestartTypes
<1>4. SessionInv'
  <2>1. CASE UserStart
    BY <1>1, <1>3, <2>1, StartStep, Zenon DEF UserStart, stopVars
  <2>2. CASE RetryFires
    <3>1. armed - 1 \in Nat
      <4>1. armed > 0
        BY <2>2, Zenon DEF RetryFires
      <4>2. QED
        BY <1>3, <4>1
    <3>2. QED
      BY <1>1, <1>3, <2>2, <3>1, StartStep, Zenon DEF RetryFires, stopVars
  <2>3. CASE StopFinished
    <3>1. CASE startQueued
      <4>1. /\ StartBody(FALSE, armed, FALSE) /\ StartFrame
            /\ userStopping' = FALSE
            /\ UNCHANGED <<stopInFlight, manuallyStopping>>
        BY <2>3, <3>1, Zenon DEF StopFinished, EmitStopFinished
      <4>2. QED
        BY <1>1, <1>3, <4>1, StartStep, Zenon
    <3>2. CASE ~startQueued
      BY <1>1, <2>3, <3>2, Zenon
         DEF StopFinished, EmitStopFinished, SessionInv, sessionVars, restartVars,
             wsVars, SessionTypes, RestartTypes, WsTypes, SlotInv, IsRunning,
             DoomedParksNothing, QueuedStartBacked, ConnectedHasSocket,
             StoppedRendererIsDoomed, StoppedIsNotPolled
    <3>3. QED
      BY <3>1, <3>2
  <2>4. CASE UserStop
    BY <1>1, <1>3, <2>4, StopStep, Zenon DEF UserStop, SessionInv, DoomedParksNothing
  <2>5. CASE UserRestart
    BY <1>1, <1>3, <2>5, StopStep, Zenon DEF UserRestart
  <2>6. CASE UserDelete
    BY <1>1, <2>6, StopStep, Zenon DEF UserDelete
  <2>7. CASE ProcessStarted \/ TimePasses \/ PollTick
    BY <1>1, <2>7, ProcessEventStep
  <2>8. CASE (\E badExit \in BOOLEAN : ProcessExits(badExit)) \/ ProcessFailsToStart
    BY <1>1, <2>8, ExitStepKeeps
  <2>9. CASE \/ RendererDials \/ ConnectionAccepted \/ ConnectionRejected
             \/ RendererSendsReady \/ RendererSendsLoaded
             \/ ReadyArrives \/ ModelLoadedArrives
             \/ SocketDisconnected \/ ReadyTimeout
    BY <1>1, <2>9, SocketStep
  <2>10. CASE UNCHANGED isVars
    BY <1>1, <2>10, Zenon
       DEF isVars, pmVars, stopVars, SessionInv, sessionVars, restartVars,
           wsVars, SessionTypes, RestartTypes, WsTypes, SlotInv, IsRunning,
           DoomedParksNothing, QueuedStartBacked, ConnectedHasSocket,
           StoppedRendererIsDoomed, StoppedIsNotPolled
  <2>11. QED
    BY <2>1, <2>2, <2>3, <2>4, <2>5, <2>6, <2>7, <2>8, <2>9, <2>10, Zenon DEF ISNext
<1>5. QED
  BY <1>2, <1>4, Zenon DEF ISInv, PMInv, SessionInv, ISTypeOK, SessionTypes,
                           RestartTypes, WsTypes

\* ISInv holds in every reachable state.
THEOREM ISInvariance == ISSpec => []ISInv
<1>1. ISSpec => ISSafety
  BY DEF ISSpec
<1>2. ISSafety => []ISInv
  BY ISInvInit, ISInvStep, PTL DEF ISSafety
<1>3. QED
  BY <1>1, <1>2, PTL

\* The session's variables keep their types.
THEOREM ISTypesHold == ISSpec => []ISTypeOK
<1>1. ISInv => ISTypeOK
  BY Zenon DEF ISInv
<1>2. QED
  BY <1>1, ISInvariance, PTL

\* A parked start always has a completion coming that will execute it.
THEOREM QueuedStartBackedHolds == ISSpec => []QueuedStartBacked
<1>1. ISInv => QueuedStartBacked
  BY Zenon DEF ISInv
<1>2. QED
  BY <1>1, ISInvariance, PTL

\* The session says it is connected only while the server holds its socket.
THEOREM ConnectedHasSocketHolds == ISSpec => []ConnectedHasSocket
<1>1. ISInv => ConnectedHasSocket
  BY Zenon DEF ISInv
<1>2. QED
  BY <1>1, ISInvariance, PTL

\* A renderer that outlives stop() is never taken for a crash when it exits.
THEOREM StoppedRendererIsDoomedHolds == ISSpec => []StoppedRendererIsDoomed
<1>1. ISInv => StoppedRendererIsDoomed
  BY Zenon DEF ISInv
<1>2. QED
  BY <1>1, ISInvariance, PTL

\* A stopped session does not poll the monitor.
THEOREM StoppedIsNotPolledHolds == ISSpec => []StoppedIsNotPolled
<1>1. ISInv => StoppedIsNotPolled
  BY Zenon DEF ISInv
<1>2. QED
  BY <1>1, ISInvariance, PTL

-----------------------------------------------------------------------------
(* A pending delete is final.                                              *)

\* The launch guard and the early return of start(), and stop() which never
\* launches, leave a doomed session dead and unparked.
LEMMA DeleteIsFinalStep ==
    ASSUME ISInv, [ISNext]_isVars, deletePending
    PROVE  deletePending' /\ (~IsRunning => ~IsRunning') /\ ~startQueued'
<1>1. PMInv /\ SessionInv
  BY ISInvParts, Zenon
<1>2. ~startQueued /\ armed \in Nat
  BY <1>1, Zenon DEF SessionInv, DoomedParksNothing, RestartTypes
<1>3. CASE UserStart \/ RetryFires
  <2>1. StartReturnsEarly(armed, startQueued) \/ StartReturnsEarly(armed - 1, startQueued)
    BY <1>3, Zenon DEF UserStart, RetryFires, StartBody
  <2>2. proc' = proc /\ startQueued' = startQueued
    BY <2>1, Zenon DEF StartReturnsEarly
  <2>3. deletePending' = deletePending
    BY <1>3, Zenon DEF UserStart, RetryFires, StartFrame
  <2>4. QED
    BY <1>2, <2>2, <2>3, Zenon DEF IsRunning
<1>4. CASE UserStop \/ UserRestart \/ UserDelete
  <2>1. StopBody /\ UNCHANGED <<startQueued, deletePending>>
    BY <1>4, Zenon DEF UserStop, UserRestart, UserDelete
  <2>2. proc' = proc
    BY <2>1, Zenon DEF StopBody, Stop, StopAbsorbed, StopWithoutProcess,
                       StopProcess, pmVars
  <2>3. QED
    BY <1>2, <2>1, <2>2, Zenon DEF IsRunning
<1>5. CASE ProcessStarted \/ TimePasses \/ PollTick
  <2>1. PMEventFrame
    BY <1>5, Zenon DEF ProcessStarted, TimePasses, PollTick
  <2>2. IsRunning' => IsRunning
    BY <1>5 DEF ProcessStarted, Started, TimePasses, WindowPasses, PollTick,
                StopPollTick, TickObservesExit, TickKills, TickAbandons, IsRunning
  <2>3. QED
    BY <1>2, <2>1, <2>2, Zenon DEF PMEventFrame, sessionVars
<1>6. CASE (\E badExit \in BOOLEAN : ProcessExits(badExit)) \/ ProcessFailsToStart
  <2>1. ExitFrame /\ proc' = "NotRunning"
    BY <1>6, Zenon DEF ProcessExits, ProcessFailsToStart, Finished, FailedToStart
  <2>2. QED
    BY <1>2, <2>1, Zenon DEF ExitFrame, IsRunning
<1>7. CASE StopFinished
  BY <1>2, <1>7, Zenon DEF StopFinished, sessionVars, IsRunning
<1>8. CASE RendererDials
  BY <1>2, <1>8, Zenon DEF RendererDials, pmVars, sessionVars, IsRunning
<1>9. CASE \/ ConnectionAccepted \/ ConnectionRejected
           \/ RendererSendsReady \/ RendererSendsLoaded
           \/ ReadyArrives \/ ModelLoadedArrives
           \/ SocketDisconnected \/ ReadyTimeout
  <2>1. WsFrame
    BY <1>9, Zenon DEF ConnectionAccepted, ConnectionRejected, RendererSendsReady,
              RendererSendsLoaded, RendererSends, ReadyArrives,
              ModelLoadedArrives, SocketDisconnected, ReadyTimeout, DropSocket
  <2>2. QED
    BY <1>2, <2>1, Zenon DEF WsFrame, pmVars, IsRunning
<1>10. CASE UNCHANGED isVars
  BY <1>2, <1>10, Zenon DEF isVars, pmVars, sessionVars, IsRunning
<1>11. QED
  BY <1>3, <1>4, <1>5, <1>6, <1>7, <1>8, <1>9, <1>10, Zenon DEF ISNext

\* Once a delete is pending nothing launches a renderer again.
THEOREM DeleteIsFinalHolds == ISSpec => DeleteIsFinal
<1>1. ISInv /\ [ISNext]_isVars
        => [deletePending => /\ deletePending'
                             /\ ~IsRunning => ~IsRunning'
                             /\ ~startQueued']_isVars
  BY DeleteIsFinalStep, Zenon
<1>2. ISSpec => [][ISNext]_isVars
  BY PTL DEF ISSpec, ISSafety
<1>3. QED
  BY <1>1, <1>2, ISInvariance, PTL DEF DeleteIsFinal

-----------------------------------------------------------------------------
(* InstanceSession implements ManagedSession, the contract InstanceManager  *)
(* is built on: every step of the session is one of the contract's calls or *)
(* events, or leaves what the manager sees unchanged.                       *)


\* What the manager sees of a session (the refinement mapping of Managed).
View(lives, stopping, settled, queued, doomed, retry) ==
    [alive |-> lives, stopping |-> stopping, settled |-> settled,
     queued |-> queued, doomed |-> doomed, armed |-> retry]

Seen == View(IsRunning, stopInFlight, Len(posted), startQueued, deletePending, armed > 0)

\* The mapped specification, with the mapping named.
LEMMA MappedNext ==
    ASSUME \/ Seen' \in Managed!Starts(Seen) \/ Seen' \in Managed!Stops(Seen)
           \/ Seen' \in Managed!Restarts(Seen) \/ Seen' \in Managed!Dooms(Seen)
           \/ Seen' \in Managed!Exits(Seen) \/ Seen' \in Managed!Settles(Seen)
           \/ Seen' \in Managed!Retries(Seen) \/ Seen' \in Managed!Completes(Seen)
    PROVE Managed!MSNext
BY DEF Managed!MSNext, Seen, View

Records == [alive : BOOLEAN, stopping : BOOLEAN, settled : Nat,
            queued : BOOLEAN, doomed : BOOLEAN, armed : BOOLEAN]

\* A record with the fields of the update that parks a start is that update.
LEMMA Queueing ==
    ASSUME NEW t \in Records, NEW u \in Records,
           u.alive = t.alive, u.stopping = t.stopping, u.settled = t.settled,
           u.queued = TRUE, u.doomed = t.doomed, u.armed = t.armed
    PROVE u = [t EXCEPT !.queued = TRUE]
BY DEF Records

\* A record with the fields of the update that dooms is that update.
LEMMA Dooming ==
    ASSUME NEW t \in Records, NEW u \in Records,
           u.alive = t.alive, u.stopping = t.stopping, u.settled = t.settled,
           u.queued = FALSE, u.doomed = TRUE, u.armed = t.armed
    PROVE u = [t EXCEPT !.doomed = TRUE, !.queued = FALSE]
BY DEF Records

\* A record with the fields of the update that takes the process away is that update.
LEMMA Dying ==
    ASSUME NEW t \in Records, NEW u \in Records,
           u.alive = FALSE, u.stopping = t.stopping, u.settled = t.settled,
           u.queued = t.queued, u.doomed = t.doomed, u.armed = t.armed
    PROVE u = [t EXCEPT !.alive = FALSE]
BY DEF Records

\* A record with the fields of the update that arms a retry is that update.
LEMMA Arming ==
    ASSUME NEW t \in Records, NEW u \in Records,
           u.alive = t.alive, u.stopping = t.stopping, u.settled = t.settled,
           u.queued = t.queued, u.doomed = t.doomed, u.armed = TRUE
    PROVE u = [t EXCEPT !.armed = TRUE]
BY DEF Records

\* A record with the fields of the update that settles a stop is that update.
LEMMA Settling ==
    ASSUME NEW t \in Records, NEW u \in Records,
           u.alive = t.alive, u.stopping = FALSE, u.settled = t.settled + 1,
           u.queued = t.queued, u.doomed = t.doomed, u.armed = t.armed
    PROVE u = [t EXCEPT !.stopping = FALSE, !.settled = @ + 1]
BY DEF Records

\* A record with the fields of the update that delivers a completion is that update.
LEMMA Delivering ==
    ASSUME NEW t \in Records, NEW u \in Records,
           u.alive = t.alive, u.stopping = t.stopping, u.settled = t.settled - 1,
           u.queued = FALSE, u.doomed = t.doomed, u.armed = t.armed
    PROVE u = [t EXCEPT !.settled = @ - 1, !.queued = FALSE]
BY DEF Records

\* start() as the contract has it, on the fields it may change.
LEMMA StartsView ==
    ASSUME NEW a \in BOOLEAN, NEW st \in BOOLEAN, NEW n, NEW q \in BOOLEAN,
           NEW d \in BOOLEAN, NEW r \in BOOLEAN,
           NEW a2 \in BOOLEAN, NEW q2 \in BOOLEAN, NEW r2 \in BOOLEAN,
           \/ d /\ a2 = a /\ q2 = q /\ r2 = r
           \/ ~d /\ st /\ a2 = a /\ q2 = TRUE /\ r2 = r
           \/ ~d /\ ~st /\ q2 = q /\ a2 = a /\ r2 = r
           \/ ~d /\ ~st /\ ~a /\ q2 = q /\ a2 = TRUE /\ r2 = r
           \/ ~d /\ ~st /\ ~a /\ q2 = q /\ a2 = a /\ r2 = TRUE
    PROVE View(a2, st, n, q2, d, r2) \in Managed!Starts(View(a, st, n, q, d, r))
BY DEF View, Managed!Starts

\* stop(): absorbed, begun, or settled at once.
LEMMA StopsView ==
    ASSUME NEW a \in BOOLEAN, NEW st \in BOOLEAN, NEW n \in Nat, NEW q, NEW d, NEW r,
           NEW st2, NEW n2,
           \/ st /\ st2 = st /\ n2 = n
           \/ ~st /\ a /\ n # MaxPosted /\ st2 = TRUE /\ n2 = n
           \/ ~st /\ ~a /\ n # MaxPosted /\ st2 = st /\ n2 = n + 1
    PROVE View(a, st2, n2, q, d, r) \in Managed!Stops(View(a, st, n, q, d, r))
BY DEF View, Managed!Stops

\* restart(): a stop, and a start parked.
LEMMA RestartsView ==
    ASSUME NEW a \in BOOLEAN, NEW st \in BOOLEAN, NEW n \in Nat,
           NEW q \in BOOLEAN, NEW r \in BOOLEAN, NEW st2 \in BOOLEAN, NEW n2 \in Nat,
           View(a, st2, n2, q, FALSE, r) \in Managed!Stops(View(a, st, n, q, FALSE, r))
    PROVE View(a, st2, n2, TRUE, FALSE, r)
            \in Managed!Restarts(View(a, st, n, q, FALSE, r))
<1> DEFINE t == View(a, st2, n2, q, FALSE, r)
<1> DEFINE u == View(a, st2, n2, TRUE, FALSE, r)
<1>1. u = [t EXCEPT !.queued = TRUE]
  <2>1. /\ t \in Records /\ u \in Records
        /\ t.alive = a /\ t.stopping = st2 /\ t.settled = n2
        /\ t.doomed = FALSE /\ t.armed = r
        /\ u.alive = a /\ u.stopping = st2 /\ u.settled = n2 /\ u.queued = TRUE
        /\ u.doomed = FALSE /\ u.armed = r
    BY DEF View, Records
  <2> HIDE DEF t, u
  <2> QED
    BY <2>1, Queueing
<1>2. ~View(a, st, n, q, FALSE, r).doomed
  BY DEF View
<1> QED
  BY <1>1, <1>2 DEF Managed!Restarts

\* The doomed stop of a delete.
LEMMA DoomsView ==
    ASSUME NEW a \in BOOLEAN, NEW st \in BOOLEAN, NEW n \in Nat,
           NEW q \in BOOLEAN, NEW d \in BOOLEAN, NEW r \in BOOLEAN,
           NEW st2 \in BOOLEAN, NEW n2 \in Nat,
           View(a, st2, n2, q, d, r) \in Managed!Stops(View(a, st, n, q, d, r))
    PROVE View(a, st2, n2, FALSE, TRUE, r) \in Managed!Dooms(View(a, st, n, q, d, r))
<1> DEFINE t == View(a, st2, n2, q, d, r)
<1> DEFINE u == View(a, st2, n2, FALSE, TRUE, r)
<1>1. u = [t EXCEPT !.doomed = TRUE, !.queued = FALSE]
  <2>1. /\ t \in Records /\ u \in Records
        /\ t.alive = a /\ t.stopping = st2 /\ t.settled = n2 /\ t.armed = r
        /\ u.alive = a /\ u.stopping = st2 /\ u.settled = n2 /\ u.queued = FALSE
        /\ u.doomed = TRUE /\ u.armed = r
    BY DEF View, Records
  <2> HIDE DEF t, u
  <2> QED
    BY <2>1, Dooming
<1> QED
  BY <1>1 DEF Managed!Dooms

\* An exit leaves the stop to the poll, or settles it; a crash may arm.
LEMMA ExitsView ==
    ASSUME NEW st \in BOOLEAN, NEW n \in Nat,
           NEW q \in BOOLEAN, NEW d \in BOOLEAN, NEW r \in BOOLEAN,
           NEW st2 \in BOOLEAN, NEW n2 \in Nat, NEW r2 \in BOOLEAN,
           \/ st2 = st /\ n2 = n /\ (r2 = r \/ r2 = TRUE)
           \/ st /\ st2 = FALSE /\ n2 = n + 1 /\ r2 = r
    PROVE View(FALSE, st2, n2, q, d, r2)
            \in Managed!Exits(View(TRUE, st, n, q, d, r))
<1> DEFINE s == View(TRUE, st, n, q, d, r)
           gone == [s EXCEPT !.alive = FALSE]
<1>1. s \in Records /\ s.alive /\ s.stopping = st /\ s.settled = n
      /\ s.queued = q /\ s.doomed = d /\ s.armed = r
  BY DEF View, Records
<1>2. gone = View(FALSE, st, n, q, d, r)
  <2> DEFINE u == View(FALSE, st, n, q, d, r)
  <2>1. u \in Records /\ u.alive = FALSE /\ u.stopping = st /\ u.settled = n
        /\ u.queued = q /\ u.doomed = d /\ u.armed = r
    BY DEF View, Records
  <2> HIDE DEF s, u
  <2> QED
    BY <1>1, <2>1, Dying DEF u
<1>3. gone \in Records /\ gone.alive = FALSE /\ gone.stopping = st /\ gone.settled = n
      /\ gone.queued = q /\ gone.doomed = d /\ gone.armed = r
  BY <1>2 DEF View, Records
<1> HIDE DEF gone
<1>4. [gone EXCEPT !.armed = TRUE] = View(FALSE, st, n, q, d, TRUE)
  <2> DEFINE u == View(FALSE, st, n, q, d, TRUE)
  <2>1. u \in Records /\ u.alive = FALSE /\ u.stopping = st /\ u.settled = n
        /\ u.queued = q /\ u.doomed = d /\ u.armed = TRUE
    BY DEF View, Records
  <2> HIDE DEF u
  <2> QED
    BY <1>3, <2>1, Arming DEF u
<1>5. [gone EXCEPT !.stopping = FALSE, !.settled = @ + 1]
        = View(FALSE, FALSE, n + 1, q, d, r)
  <2> DEFINE u == View(FALSE, FALSE, n + 1, q, d, r)
  <2>1. u \in Records /\ u.alive = FALSE /\ u.stopping = FALSE /\ u.settled = n + 1
        /\ u.queued = q /\ u.doomed = d /\ u.armed = r
    BY DEF View, Records
  <2> HIDE DEF u
  <2> QED
    BY <1>3, <2>1, Settling DEF u
<1>6. Managed!Exits(s)
        = {gone, [gone EXCEPT !.armed = TRUE]} \cup
          IF s.stopping
          THEN {[gone EXCEPT !.stopping = FALSE, !.settled = @ + 1]}
          ELSE {}
  BY <1>1 DEF Managed!Exits, gone
<1> HIDE DEF s
<1> QED
  BY <1>1, <1>2, <1>4, <1>5, <1>6 DEF s

\* The poll settles a stop in flight.
LEMMA SettlesView ==
    ASSUME NEW a \in BOOLEAN, NEW n \in Nat,
           NEW q \in BOOLEAN, NEW d \in BOOLEAN, NEW r \in BOOLEAN
    PROVE View(a, FALSE, n + 1, q, d, r)
            \in Managed!Settles(View(a, TRUE, n, q, d, r))
<1> DEFINE s == View(a, TRUE, n, q, d, r)
<1>1. s \in Records /\ s.alive = a /\ s.stopping /\ s.settled = n
      /\ s.queued = q /\ s.doomed = d /\ s.armed = r
  BY DEF View, Records
<1>2. Managed!Settles(s) = {[s EXCEPT !.stopping = FALSE, !.settled = @ + 1]}
  BY <1>1 DEF Managed!Settles
<1> DEFINE u == View(a, FALSE, n + 1, q, d, r)
<1>3. u = [s EXCEPT !.stopping = FALSE, !.settled = @ + 1]
  <2>1. u \in Records /\ u.alive = a /\ u.stopping = FALSE /\ u.settled = n + 1
        /\ u.queued = q /\ u.doomed = d /\ u.armed = r
    BY DEF View, Records
  <2> HIDE DEF s, u
  <2> QED
    BY <1>1, <2>1, Settling
<1> QED
  BY <1>2, <1>3

\* A retry is a start with one timer less.
LEMMA RetriesView ==
    ASSUME NEW a, NEW st, NEW n, NEW q, NEW d, NEW more \in BOOLEAN, NEW t,
           t \in Managed!Starts(View(a, st, n, q, d, more))
    PROVE t \in Managed!Retries(View(a, st, n, q, d, TRUE))
<1> DEFINE s == View(a, st, n, q, d, TRUE)
<1>1. View(a, st, n, q, d, more) = [s EXCEPT !.armed = more]
  BY DEF View
<1>2. s.armed
  BY DEF View
<1>3. t \in UNION {Managed!Starts([s EXCEPT !.armed = m]) : m \in BOOLEAN}
  BY <1>1
<1> QED
  BY <1>2, <1>3 DEF Managed!Retries

\* A completion is delivered, and a parked start executed.
LEMMA CompletesView ==
    ASSUME NEW a \in BOOLEAN, NEW st \in BOOLEAN, NEW n \in Nat \ {0},
           NEW q \in BOOLEAN, NEW d \in BOOLEAN, NEW r \in BOOLEAN, NEW t,
           IF q
           THEN t \in Managed!Starts(View(a, st, n - 1, FALSE, d, r))
           ELSE t = View(a, st, n - 1, q, d, r)
    PROVE t \in Managed!Completes(View(a, st, n, q, d, r))
<1> DEFINE s == View(a, st, n, q, d, r)
<1> DEFINE u == View(a, st, n - 1, FALSE, d, r)
<1>1. u = [s EXCEPT !.settled = @ - 1, !.queued = FALSE]
  <2>1. s \in Records /\ s.alive = a /\ s.stopping = st /\ s.settled = n
        /\ s.doomed = d /\ s.armed = r
    BY DEF View, Records
  <2>2. u \in Records /\ u.alive = a /\ u.stopping = st /\ u.settled = n - 1
        /\ u.queued = FALSE /\ u.doomed = d /\ u.armed = r
    BY DEF View, Records
  <2> HIDE DEF s, u
  <2> QED
    BY <2>1, <2>2, Delivering
<1>2. s.settled = n /\ s.queued = q
  BY DEF View
<1>3. CASE q
  BY <1>1, <1>2, <1>3 DEF Managed!Completes
<1>4. CASE ~q
  BY <1>1, <1>2, <1>4 DEF Managed!Completes
<1> QED
  BY <1>3, <1>4

-----------------------------------------------------------------------------
(* The steps of the session.                                               *)

\* The exited() slot leaves the retry timers as they are, or arms one.
LEMMA ExitedSlotArms ==
    ASSUME NEW crashed, NEW stopping, NEW timers \in Nat,
           ExitedSlot(crashed, stopping, timers)
    PROVE armed' = timers \/ armed' = timers + 1
BY DEF ExitedSlot, ScheduleRestart

\* The body of start() is the contract's start, whatever the completions due.
LEMMA StartBodyView ==
    ASSUME NEW stopping, NEW timers \in Nat, NEW queued \in BOOLEAN, NEW n,
           PMTypeOK, stopInFlight \in BOOLEAN, deletePending \in BOOLEAN,
           StartBody(stopping, timers, queued)
    PROVE View(IsRunning', stopInFlight, n, startQueued', deletePending, armed' > 0)
            \in Managed!Starts(View(IsRunning, stopInFlight, n, queued,
                                   deletePending, timers > 0))
<1> DEFINE Goal(a2, q2, r2) ==
        View(a2, stopInFlight, n, q2, deletePending, r2)
            \in Managed!Starts(View(IsRunning, stopInFlight, n, queued,
                                   deletePending, timers > 0))
<1>0. IsRunning \in BOOLEAN /\ IsRunning' \in BOOLEAN /\ (timers > 0) \in BOOLEAN
  BY DEF IsRunning
<1>1. CASE StartReturnsEarly(timers, queued)
  <2>1. IsRunning' = IsRunning /\ armed' = timers
    BY <1>1 DEF StartReturnsEarly, IsRunning
  <2>2. \/ deletePending /\ startQueued' = queued
        \/ ~deletePending /\ stopInFlight /\ startQueued' = TRUE
        \/ ~deletePending /\ ~stopInFlight /\ startQueued' = queued
    BY <1>1 DEF StartReturnsEarly
  <2>3. Goal(IsRunning, startQueued', timers > 0)
    BY <1>0, <2>2, StartsView
  <2> QED
    BY <2>1, <2>3
<1>2. CASE ~deletePending /\ ~stopInFlight /\ StartLaunches(stopping, timers, queued)
  <2>1. startQueued' = queued /\ (armed' = timers \/ armed' = timers + 1)
    BY <1>2, ExitedSlotArms DEF StartLaunches
  <2>2. \/ IsRunning' = IsRunning /\ armed' = timers
        \/ ~IsRunning /\ IsRunning' /\ armed' = timers
        \/ ~IsRunning /\ IsRunning' = IsRunning /\ armed' = timers + 1
    BY <1>2, <2>1 DEF StartLaunches, StartRenderer, LaunchOutcomes, IsRunning
  <2>3. CASE IsRunning' = IsRunning /\ armed' = timers
    BY <1>0, <1>2, <2>1, <2>3, StartsView
  <2>4. CASE ~IsRunning /\ IsRunning' /\ armed' = timers
    BY <1>0, <1>2, <2>1, <2>4, StartsView
  <2>5. CASE ~IsRunning /\ IsRunning' = IsRunning /\ armed' = timers + 1
    <3>1. (armed' > 0) = TRUE
      BY <2>5
    <3>2. Goal(IsRunning, startQueued', TRUE)
      BY <1>0, <1>2, <2>1, <2>5, StartsView
    <3> QED
      BY <2>5, <3>1, <3>2
  <2> QED
    BY <2>2, <2>3, <2>4, <2>5
<1> QED
  BY <1>1, <1>2 DEF StartBody

\* What the invariant says of the types the manager's view is made of.
LEMMA SeenTypes ==
    ASSUME ISInv
    PROVE /\ PMTypeOK
          /\ stopInFlight \in BOOLEAN /\ startQueued \in BOOLEAN
          /\ deletePending \in BOOLEAN /\ armed \in Nat /\ attempts \in Nat
          /\ posted \in Seq(BOOLEAN) /\ Len(posted) \in Nat
          /\ stopInFlight => manuallyStopping
          /\ IsRunning \in BOOLEAN /\ (armed > 0) \in BOOLEAN
BY DEF ISInv, ISTypeOK, PMInv, PMTypeOK, StopInFlightIsManual, IsRunning

\* stop(), whatever the caller then parks or dooms.
LEMMA StopSeen ==
    ASSUME ISInv, Stop
    PROVE /\ View(IsRunning, stopInFlight', Len(posted'), startQueued, deletePending, armed > 0)
                \in Managed!Stops(Seen)
          /\ IsRunning' = IsRunning
          /\ stopInFlight' \in BOOLEAN /\ Len(posted') \in Nat
<1>1. CASE StopAbsorbed
  BY <1>1, SeenTypes, StopsView DEF StopAbsorbed, pmVars, stopVars, Seen, IsRunning
<1>2. CASE StopWithoutProcess
  <2>1. Len(posted') = Len(posted) + 1 /\ Len(posted) # MaxPosted
    BY <1>2, SeenTypes, MaxPostedAssumption DEF StopWithoutProcess
  <2>2. ~stopInFlight /\ ~IsRunning /\ stopInFlight' = stopInFlight /\ proc' = proc
    BY <1>2 DEF StopWithoutProcess
  <2>3. Len(posted') \in Nat
    BY <2>1, SeenTypes
  <2>4. View(IsRunning, stopInFlight', Len(posted'), startQueued, deletePending, armed > 0)
            \in Managed!Stops(Seen)
    <3> HIDE DEF IsRunning
    <3> QED
      BY <2>1, <2>2, SeenTypes, StopsView DEF Seen
  <2> QED
    BY <2>2, <2>3, <2>4, SeenTypes DEF IsRunning
<1>3. CASE StopProcess
  <2>1. Len(posted) # MaxPosted /\ posted' = posted
    BY <1>3, SeenTypes, MaxPostedAssumption DEF StopProcess
  <2>2. ~stopInFlight /\ IsRunning /\ stopInFlight' = TRUE /\ proc' = proc
    BY <1>3 DEF StopProcess
  <2> QED
    BY <2>1, <2>2, SeenTypes, StopsView DEF Seen, IsRunning
<1> QED
  BY <1>1, <1>2, <1>3 DEF Stop

\* The user's and the plugins' operations are calls of the contract.
LEMMA CallsSeen ==
    ASSUME ISInv, UserStart \/ UserStop \/ UserRestart \/ UserDelete
    PROVE Managed!MSNext
<1>1. CASE UserStart
  <2>1. /\ StartBody(userStopping, armed, startQueued)
        /\ deletePending' = deletePending /\ stopInFlight' = stopInFlight
        /\ posted' = posted
    BY <1>1 DEF UserStart, StartFrame, stopVars
  <2>2. Seen' \in Managed!Starts(Seen)
    BY <2>1, SeenTypes, StartBodyView DEF Seen
  <2> QED
    BY <2>2, MappedNext
<1>2. CASE UserStop
  <2>1. Stop /\ UNCHANGED <<startQueued, deletePending, armed>>
    BY <1>2 DEF UserStop, StopBody, restartVars
  <2>2. Seen' \in Managed!Stops(Seen)
    BY <2>1, StopSeen DEF Seen
  <2> QED
    BY <2>2, MappedNext
<1>3. CASE UserRestart
  <2>1. /\ Stop /\ ~deletePending /\ startQueued' = TRUE
        /\ UNCHANGED <<deletePending, armed>>
    BY <1>3 DEF UserRestart, StopBody, restartVars
  <2>2. deletePending = FALSE
    BY <2>1, SeenTypes
  <2>3. Seen' \in Managed!Restarts(Seen)
    BY <2>1, <2>2, StopSeen, SeenTypes, RestartsView DEF Seen
  <2> QED
    BY <2>3, MappedNext
<1>4. CASE UserDelete
  <2>1. /\ Stop /\ startQueued' = FALSE /\ deletePending' = TRUE
        /\ UNCHANGED armed
    BY <1>4 DEF UserDelete, StopBody, restartVars
  <2>2. Seen' \in Managed!Dooms(Seen)
    BY <2>1, StopSeen, SeenTypes, DoomsView DEF Seen
  <2> QED
    BY <2>2, MappedNext
<1> QED
  BY <1>1, <1>2, <1>3, <1>4

\* The process's exits are exits of the contract.
LEMMA ExitsSeen ==
    ASSUME ISInv, (\E badExit \in BOOLEAN : ProcessExits(badExit)) \/ ProcessFailsToStart
    PROVE Managed!MSNext
<1>1. UNCHANGED <<startQueued, deletePending>>
  BY DEF ProcessExits, ProcessFailsToStart, ExitFrame
<1>2. IsRunning = TRUE /\ IsRunning' = FALSE
  BY DEF ProcessExits, ProcessFailsToStart, Finished, FailedToStart, IsRunning
<1>3. /\ stopInFlight' \in BOOLEAN /\ Len(posted') \in Nat
      /\ (armed' > 0) \in BOOLEAN
      /\ \/ /\ stopInFlight' = stopInFlight /\ Len(posted') = Len(posted)
            /\ (armed' > 0) = (armed > 0) \/ (armed' > 0) = TRUE
         \/ /\ stopInFlight /\ stopInFlight' = FALSE
            /\ Len(posted') = Len(posted) + 1 /\ (armed' > 0) = (armed > 0)
  <2>1. CASE ProcessFailsToStart
    <3>1. UNCHANGED stopVars /\ (armed' = armed \/ armed' = armed + 1)
      BY <2>1, SeenTypes, ExitedSlotArms DEF ProcessFailsToStart, FailedToStart
    <3> QED
      BY <3>1, SeenTypes DEF stopVars
  <2>2. CASE \E badExit \in BOOLEAN : ProcessExits(badExit)
    <3>1. PICK badExit \in BOOLEAN : ProcessExits(badExit)
      BY <2>2
    <3>2. armed' = armed \/ armed' = armed + 1
      BY <3>1, SeenTypes, ExitedSlotArms DEF ProcessExits
    <3>3. CASE stopInFlight
      <4>1. stopInFlight' = FALSE /\ posted' = Append(posted, ~killIssued)
        BY <3>1, <3>3 DEF ProcessExits, Finished, FinishStop
      <4>2. (~killIssued) \in BOOLEAN
        OBVIOUS
      <4>3. Len(posted') = Len(posted) + 1
        BY <4>1, <4>2, SeenTypes
      <4>4. armed' = armed
        BY <3>1, <3>3, SeenTypes DEF ProcessExits, ExitedSlot, Crashed
      <4>5. stopInFlight' \in BOOLEAN /\ Len(posted') \in Nat
        <5>1. Len(posted) \in Nat
          BY SeenTypes
        <5>2. Len(posted') \in Nat
          BY <4>3, <5>1
        <5>3. stopInFlight' \in BOOLEAN
          BY <4>1
        <5> QED
          BY <5>2, <5>3
      <4>6. (armed' > 0) \in BOOLEAN /\ (armed' > 0) = (armed > 0)
        BY <4>4, SeenTypes
      <4> QED
        BY <3>3, <4>1, <4>3, <4>5, <4>6
    <3>4. CASE ~stopInFlight
      <4>1. UNCHANGED <<stopInFlight, posted>>
        BY <3>1, <3>4 DEF ProcessExits, Finished
      <4> QED
        BY <3>2, <4>1, SeenTypes
    <3> QED
      BY <3>3, <3>4
  <2> QED
    BY <2>1, <2>2
<1>4. Seen' \in Managed!Exits(Seen)
  BY <1>1, <1>2, <1>3, SeenTypes, ExitsView DEF Seen
<1> QED
  BY <1>4, MappedNext

\* The poll tick settles the stop, or is not seen.
LEMMA PollSeen ==
    ASSUME ISInv, PollTick
    PROVE Managed!MSNext \/ Seen' = Seen
<1>1. UNCHANGED <<startQueued, deletePending, armed>> /\ StopPollTick
  BY DEF PollTick, PMEventFrame, sessionVars, restartVars
<1>2. CASE TickKills
  BY <1>1, <1>2 DEF TickKills, Seen, IsRunning
<1>3. CASE TickObservesExit \/ TickAbandons
  <2>1. PICK clean \in BOOLEAN : FinishStop(clean)
    BY <1>3, Zenon DEF TickObservesExit, TickAbandons
  <2>2. stopInFlight = TRUE /\ stopInFlight' = FALSE /\ proc' = proc
    BY <1>3, <2>1, SeenTypes DEF TickObservesExit, TickAbandons, FinishStop
  <2>3. Len(posted') = Len(posted) + 1
    BY <2>1, SeenTypes DEF FinishStop
  <2>4. Seen' \in Managed!Settles(Seen)
    BY <1>1, <2>2, <2>3, SeenTypes, SettlesView DEF Seen, IsRunning
  <2> QED
    BY <2>4, MappedNext
<1> QED
  BY <1>1, <1>2, <1>3 DEF StopPollTick

\* A retry timer is a retry of the contract.
LEMMA RetrySeen ==
    ASSUME ISInv, RetryFires PROVE Managed!MSNext
<1>1. /\ StartBody(userStopping, armed - 1, startQueued)
      /\ deletePending' = deletePending /\ stopInFlight' = stopInFlight
      /\ posted' = posted /\ armed > 0
  BY DEF RetryFires, StartFrame, stopVars
<1>2. armed - 1 \in Nat /\ (armed > 0) = TRUE
  BY <1>1, SeenTypes
<1>3. Seen' \in Managed!Starts(View(IsRunning, stopInFlight, Len(posted), startQueued,
                                     deletePending, armed - 1 > 0))
  BY <1>1, <1>2, SeenTypes, StartBodyView DEF Seen
<1>4. (armed - 1 > 0) \in BOOLEAN
  BY <1>2
<1>5. Seen' \in Managed!Retries(View(IsRunning, stopInFlight, Len(posted), startQueued,
                                      deletePending, TRUE))
  BY <1>3, <1>4, RetriesView
<1>6. Seen' \in Managed!Retries(Seen)
  BY <1>2, <1>5 DEF Seen
<1> QED
  BY <1>6, MappedNext

\* The delivery of a completion is one of the contract.
LEMMA StopFinishedSeen ==
    ASSUME ISInv, StopFinished PROVE Managed!MSNext
<1>1. EmitStopFinished
  BY DEF StopFinished
<1>2. Len(posted) \in Nat \ {0} /\ Len(posted') = Len(posted) - 1
  BY <1>1, SeenTypes DEF EmitStopFinished
<1>3. stopInFlight' = stopInFlight
  BY <1>1 DEF EmitStopFinished
<1>4. CASE startQueued
  <2>1. StartBody(FALSE, armed, FALSE) /\ deletePending' = deletePending
    BY <1>4 DEF StopFinished, StartFrame
  <2>2. Seen' \in Managed!Starts(View(IsRunning, stopInFlight, Len(posted) - 1, FALSE,
                                       deletePending, armed > 0))
    BY <1>2, <1>3, <2>1, SeenTypes, StartBodyView DEF Seen
  <2>3. Seen' \in Managed!Completes(Seen)
    BY <1>2, <1>4, <2>2, SeenTypes, CompletesView DEF Seen
  <2> QED
    BY <2>3, MappedNext
<1>5. CASE ~startQueued
  <2>1. UNCHANGED <<proc, startQueued, deletePending, armed>>
    BY <1>5 DEF StopFinished, sessionVars, restartVars
  <2>2. Seen' = View(IsRunning, stopInFlight, Len(posted) - 1, startQueued,
                     deletePending, armed > 0)
    BY <1>2, <1>3, <2>1 DEF Seen, IsRunning
  <2>3. Seen' \in Managed!Completes(Seen)
    BY <1>2, <1>5, <2>2, SeenTypes, CompletesView DEF Seen
  <2> QED
    BY <2>3, MappedNext
<1> QED
  BY <1>4, <1>5

\* Every step of the session is a step of the contract or is not seen.
LEMMA SessionStepSeen ==
    ASSUME ISInv, [ISNext]_isVars
    PROVE Managed!MSNext \/ Seen' = Seen
<1>1. CASE UserStart \/ UserStop \/ UserRestart \/ UserDelete
  BY <1>1, CallsSeen
<1>2. CASE ProcessStarted \/ TimePasses
  BY <1>2 DEF ProcessStarted, TimePasses, Started, WindowPasses, PMEventFrame,
              sessionVars, restartVars, stopVars, Seen, IsRunning
<1>3. CASE PollTick
  BY <1>3, PollSeen
<1>4. CASE (\E badExit \in BOOLEAN : ProcessExits(badExit)) \/ ProcessFailsToStart
  BY <1>4, ExitsSeen
<1>5. CASE RetryFires
  BY <1>5, RetrySeen
<1>6. CASE StopFinished
  BY <1>6, StopFinishedSeen
<1>7. CASE RendererDials
  BY <1>7 DEF RendererDials, pmVars, stopVars, sessionVars, restartVars, Seen, IsRunning
<1>8. CASE ConnectionAccepted \/ ConnectionRejected
           \/ RendererSendsReady \/ RendererSendsLoaded
           \/ ReadyArrives \/ ModelLoadedArrives
           \/ SocketDisconnected \/ ReadyTimeout
  <2>1. WsFrame
    BY <1>8 DEF ConnectionAccepted, ConnectionRejected, RendererSendsReady,
                RendererSendsLoaded, RendererSends, ReadyArrives, ModelLoadedArrives,
                SocketDisconnected, ReadyTimeout, DropSocket
  <2> QED
    BY <2>1 DEF WsFrame, pmVars, stopVars, Seen, IsRunning
<1>9. CASE UNCHANGED isVars
  BY <1>9 DEF isVars, pmVars, stopVars, sessionVars, restartVars, Seen, IsRunning
<1> QED
  BY <1>1, <1>2, <1>3, <1>4, <1>5, <1>6, <1>7, <1>8, <1>9 DEF ISNext

\* A fresh session is the contract's idle one.
LEMMA SessionInitSeen == ISInit => Managed!MSInit
<1> SUFFICES ASSUME ISInit PROVE Managed!MSInit
  OBVIOUS
<1>1. IsRunning = FALSE /\ stopInFlight = FALSE /\ Len(posted) = 0
  BY DEF ISInit, PMInit, IsRunning
<1>2. startQueued = FALSE /\ deletePending = FALSE /\ (armed > 0) = FALSE
  BY DEF ISInit
<1> QED
  BY <1>1, <1>2, Zenon DEF Managed!MSInit, Managed!Idle

\* The session implements the contract its manager is built on.
THEOREM SessionIsManaged == ISSpec => IsManagedSession
<1>1. ISInv /\ [ISNext]_isVars
        => [Managed!MSNext]_[alive |-> IsRunning, stopping |-> stopInFlight,
                             settled |-> Len(posted), queued |-> startQueued,
                             doomed |-> deletePending, armed |-> armed > 0]
  BY SessionStepSeen DEF Seen, View
<1>2. ISSpec => ISInit /\ [][ISNext]_isVars
  BY DEF ISSpec, ISSafety
<1> QED
  BY <1>1, <1>2, SessionInitSeen, ISInvariance, PTL DEF IsManagedSession, Managed!MSSafety

-----------------------------------------------------------------------------
(* GraphicsObjects *)

(***************************************************************************)
(* The objects.                                                            *)
(***************************************************************************)

Fixed == {Instance, Surface, Device, Views, Swapchain, Pool, Renderer, Messenger}
Memories == {Memory(r) : r \in RingSlots}

LEMMA HandleKinds ==
    Handles \subseteq Fixed \cup Syncs \cup Tails \cup Buffers \cup Memories \cup Images
BY DEF Handles, Drawn, Fixed, Memories

LEMMA ParentOf ==
    ASSUME NEW o \in Handles
    PROVE  /\ Parent(o) \in {Instance, Swapchain, Pool, Device}
           /\ Parent(o) = Swapchain => o = Views
           /\ Parent(o) = Pool => o \in Tails
           /\ Parent(o) = Instance => o \in {Instance, Messenger, Surface, Device}
           /\ o \in {Instance, Messenger, Surface, Device} => Parent(o) = Instance
           /\ o = Views => Parent(o) = Swapchain
           /\ o \in Tails => Parent(o) = Pool
<1>1. CASE o \in Fixed
  BY <1>1 DEF Fixed, Parent, Tails, Tail_, Instance, Surface, Device, Views, Swapchain, Pool, Renderer, Messenger
<1>2. CASE o \in Syncs \cup Tails \cup Buffers \cup Memories \cup Images
  BY <1>2 DEF Parent, Tails, Tail_, Syncs, Sync, Buffers, Buffer, Memories, Memory, Images, Image,
       Instance, Surface, Device, Views, Swapchain, Pool, Messenger
<1> QED BY <1>1, <1>2, HandleKinds

(* What Release does to an object comes before what it does to its parent. *)
LEMMA EndsFirst ==
    ASSUME NEW o \in Handles, o # Instance
    PROVE  /\ Rank(End(o)) < Rank(Do("destroy", Parent(o)))
           /\ End(o) # Do("destroy", Parent(o))
<1>1. CASE o \in Fixed
  BY <1>1 DEF Fixed, Parent, Tails, Tail_, Images, Image, Rank, End, Do,
       Instance, Surface, Device, Views, Swapchain, Pool, Renderer, Messenger
<1>2. CASE o \in Syncs \cup Buffers \cup Memories
  <2>1. o \notin Images /\ o \notin Tails /\ o # Renderer /\ Parent(o) = Device
    BY <1>2 DEF Parent, Tails, Tail_, Syncs, Sync, Buffers, Buffer, Memories, Memory, Images, Image, Renderer
  <2>2. Rank(End(o)) \in {5, 6}
    BY <1>2, <2>1 DEF Rank, End, Do, Syncs, Sync, Buffers, Buffer, Memories, Memory
  <2>3. Rank(Do("destroy", Device)) = 10
    BY DEF Rank, Do, Device
  <2> QED BY <2>1, <2>2, <2>3
<1>3. CASE o \in Tails
  BY <1>3 DEF Parent, Tails, Tail_, Images, Image, Rank, End, Do, Pool
<1>4. CASE o \in Images
  BY <1>4 DEF Parent, Images, Image, Rank, End, Do, Device
<1> QED BY <1>1, <1>2, <1>3, <1>4, HandleKinds

(***************************************************************************)
(* Sequences of steps.                                                     *)
(***************************************************************************)

LEMMA TailFacts ==
    ASSUME NEW S, NEW q \in Seq(S), q # <<>>
    PROVE  /\ Len(q) \in Nat \ {0} /\ DOMAIN q = 1 .. Len(q) /\ 1 \in DOMAIN q
           /\ Head(q) = q[1] /\ Head(q) \in S
           /\ Tail(q) \in Seq(S) /\ Len(Tail(q)) = Len(q) - 1 /\ DOMAIN Tail(q) = 1 .. Len(q) - 1
           /\ \A k \in DOMAIN Tail(q) : k \in Nat /\ k + 1 \in DOMAIN q /\ Tail(q)[k] = q[k + 1]
           /\ \A k \in DOMAIN q : k = 1 \/ (k - 1 \in DOMAIN Tail(q) /\ Tail(q)[k - 1] = q[k])
<1>1. Len(q) \in Nat \ {0} /\ DOMAIN q = 1 .. Len(q)
  OBVIOUS
<1>2. Head(q) = q[1] /\ Head(q) \in S /\ Tail(q) \in Seq(S) /\ Len(Tail(q)) = Len(q) - 1
  BY <1>1
<1>3. DOMAIN Tail(q) = 1 .. Len(q) - 1
  BY <1>2
<1>4. \A k \in 1 .. Len(q) - 1 : Tail(q)[k] = q[k + 1]
  BY <1>1
<1>5. \A k \in 1 .. Len(q) : k # 1 => k - 1 \in 1 .. Len(q) - 1 /\ (k - 1) + 1 = k
  BY <1>1
<1>6. \A k \in 1 .. Len(q) - 1 : k \in Nat /\ k + 1 \in 1 .. Len(q)
  BY <1>1
<1> QED BY <1>1, <1>2, <1>3, <1>4, <1>5, <1>6

LEMMA TailSet ==
    ASSUME NEW S, NEW q \in Seq(S), q # <<>>
    PROVE  /\ ToSet(Tail(q)) \subseteq ToSet(q) /\ Head(q) \in ToSet(q)
           /\ \A s \in ToSet(q) : s = Head(q) \/ s \in ToSet(Tail(q))
<1>1. \A k \in DOMAIN Tail(q) : k + 1 \in DOMAIN q /\ Tail(q)[k] = q[k + 1]
  BY TailFacts
<1>2. \A k \in DOMAIN q : k = 1 \/ (k - 1 \in DOMAIN Tail(q) /\ Tail(q)[k - 1] = q[k])
  BY TailFacts
<1>3. Head(q) = q[1] /\ 1 \in DOMAIN q
  BY TailFacts
<1>4. ToSet(Tail(q)) \subseteq ToSet(q)
  BY <1>1 DEF ToSet
<1>5. Head(q) \in ToSet(q)
  BY <1>3 DEF ToSet
<1>6. \A s \in ToSet(q) : s = Head(q) \/ s \in ToSet(Tail(q))
  BY <1>2, <1>3 DEF ToSet
<1> QED BY <1>4, <1>5, <1>6

LEMMA ConcatFacts ==
    ASSUME NEW S, NEW a \in Seq(S), NEW b \in Seq(S)
    PROVE  /\ a \o b \in Seq(S) /\ Len(a) \in Nat /\ Len(b) \in Nat /\ Len(a \o b) = Len(a) + Len(b)
           /\ DOMAIN a = 1 .. Len(a) /\ DOMAIN b = 1 .. Len(b) /\ DOMAIN (a \o b) = 1 .. Len(a) + Len(b)
           /\ \A k \in DOMAIN a : (a \o b)[k] = a[k]
           /\ \A k \in DOMAIN b : (a \o b)[Len(a) + k] = b[k]
           /\ \A k \in DOMAIN (a \o b) : k \in DOMAIN a \/ (k - Len(a) \in DOMAIN b /\ Len(a) + (k - Len(a)) = k)
<1>1. a \o b \in Seq(S) /\ Len(a) \in Nat /\ Len(b) \in Nat /\ Len(a \o b) = Len(a) + Len(b)
  OBVIOUS
<1>2. DOMAIN a = 1 .. Len(a) /\ DOMAIN b = 1 .. Len(b) /\ DOMAIN (a \o b) = 1 .. Len(a) + Len(b)
  BY <1>1
<1>3. \A k \in 1 .. Len(a) : (a \o b)[k] = a[k]
  BY <1>1
<1>4. \A k \in 1 .. Len(b) : (a \o b)[Len(a) + k] = b[k]
  BY <1>1
<1>5. \A k \in 1 .. Len(a) + Len(b) :
          k \in 1 .. Len(a) \/ (k - Len(a) \in 1 .. Len(b) /\ Len(a) + (k - Len(a)) = k)
  BY <1>1
<1> QED BY <1>1, <1>2, <1>3, <1>4, <1>5

LEMMA ConcatSet ==
    ASSUME NEW S, NEW a \in Seq(S), NEW b \in Seq(S)
    PROVE  ToSet(a \o b) = ToSet(a) \cup ToSet(b)
<1>1. \A k \in DOMAIN b : Len(a) + k \in DOMAIN (a \o b)
  BY ConcatFacts
<1>2. \A k \in DOMAIN a : k \in DOMAIN (a \o b)
  BY ConcatFacts
<1> QED BY <1>1, <1>2, ConcatFacts DEF ToSet

LEMMA SeqMonotone ==
    ASSUME NEW S, NEW T, S \subseteq T, NEW q \in Seq(S) PROVE q \in Seq(T)
OBVIOUS

LEMMA ElementOf == ASSUME NEW S, NEW q \in Seq(S) PROVE \A k \in DOMAIN q : q[k] \in S
OBVIOUS

LEMMA RowIsSequence ==
    ASSUME NEW S, NEW n \in Nat, NEW f, f = [i \in 1 .. n |-> f[i]], \A i \in 1 .. n : f[i] \in S
    PROVE  f \in Seq(S)
<1>1. f \in [1 .. n -> S]
  OBVIOUS
<1> QED BY <1>1

(* The two steps of a pass of a for loop.                                  *)
LEMMA Passes ==
    ASSUME NEW n \in Nat
    PROVE  /\ \A i \in 1 .. 2 * n : IF i % 2 = 1 THEN (i + 1) \div 2 \in 1 .. n ELSE i \div 2 \in 1 .. n
           /\ \A r \in 1 .. n : /\ 2 * r - 1 \in 1 .. 2 * n /\ (2 * r - 1) % 2 = 1
                              /\ ((2 * r - 1) + 1) \div 2 = r
                              /\ 2 * r \in 1 .. 2 * n /\ (2 * r) % 2 # 1 /\ (2 * r) \div 2 = r
OBVIOUS

(***************************************************************************)
(* The plans.                                                              *)
(***************************************************************************)

Adjacent(q) == \A k \in DOMAIN q : q[k] = Do("destroy", Swapchain) =>
                  k # 1 /\ q[k - 1] = Do("destroy", Views)

LEMMA AdjacentConcat ==
    ASSUME NEW S, NEW a \in Seq(S), NEW b \in Seq(S), Adjacent(a), Adjacent(b)
    PROVE  Adjacent(a \o b)
<1> SUFFICES ASSUME NEW k \in DOMAIN (a \o b), (a \o b)[k] = Do("destroy", Swapchain)
             PROVE  k # 1 /\ (a \o b)[k - 1] = Do("destroy", Views)
  BY DEF Adjacent
<1>1. CASE k \in DOMAIN a
  <2>1. a[k] = Do("destroy", Swapchain)
    BY <1>1, ConcatFacts
  <2>2. k # 1 /\ a[k - 1] = Do("destroy", Views)
    BY <2>1, <1>1 DEF Adjacent
  <2>3. k - 1 \in DOMAIN a
    BY <2>2, <1>1, ConcatFacts
  <2> QED BY <2>2, <2>3, ConcatFacts
<1>2. CASE k - Len(a) \in DOMAIN b /\ Len(a) + (k - Len(a)) = k
  <2> DEFINE j == k - Len(a)
  <2>1. b[j] = Do("destroy", Swapchain)
    BY <1>2, ConcatFacts
  <2>2. j # 1 /\ b[j - 1] = Do("destroy", Views)
    BY <2>1, <1>2 DEF Adjacent
  <2>3. j - 1 \in DOMAIN b /\ Len(a) + (j - 1) = k - 1 /\ k # 1
    BY <2>2, <1>2, ConcatFacts
  <2> QED BY <2>2, <2>3, ConcatFacts
<1> QED BY <1>1, <1>2, ConcatFacts

Within(q, low, high) == \A k \in DOMAIN q : Rank(q[k]) \in low .. high

LEMMA OrderConcat ==
    ASSUME NEW S, NEW a \in Seq(S), NEW b \in Seq(S), InOrder(a), InOrder(b),
           NEW low \in Nat, NEW middle \in Nat, NEW high \in Nat, low <= middle, middle <= high,
           Within(a, low, middle), Within(b, middle, high)
    PROVE  InOrder(a \o b) /\ Within(a \o b, low, high)
<1>1. \A k \in DOMAIN a : Rank((a \o b)[k]) \in low .. middle
  BY ConcatFacts DEF Within
<1>2. \A k \in DOMAIN b : Rank((a \o b)[Len(a) + k]) \in middle .. high
  BY ConcatFacts DEF Within
<1>3. Within(a \o b, low, high)
  <2> SUFFICES ASSUME NEW k \in DOMAIN (a \o b) PROVE Rank((a \o b)[k]) \in low .. high
    BY DEF Within
  <2>1. CASE k \in DOMAIN a
    BY <2>1, <1>1
  <2>2. CASE k - Len(a) \in DOMAIN b /\ Len(a) + (k - Len(a)) = k
    BY <2>2, <1>2
  <2> QED BY <2>1, <2>2, ConcatFacts
<1>4. InOrder(a \o b)
  <2> SUFFICES ASSUME NEW j \in DOMAIN (a \o b), NEW k \in DOMAIN (a \o b), j < k
               PROVE  Rank((a \o b)[j]) <= Rank((a \o b)[k])
    BY DEF InOrder
  <2>1. CASE k \in DOMAIN a
    <3>1. j \in DOMAIN a
      BY <2>1, ConcatFacts
    <3> QED BY <3>1, <2>1, ConcatFacts DEF InOrder
  <2>2. CASE k - Len(a) \in DOMAIN b /\ Len(a) + (k - Len(a)) = k
    <3>1. CASE j \in DOMAIN a
      <4>1. Rank((a \o b)[k]) \in middle .. high
        BY <2>2, <1>2
      <4> QED BY <3>1, <4>1, <1>1
    <3>2. CASE j - Len(a) \in DOMAIN b /\ Len(a) + (j - Len(a)) = j
      <4>1. Rank(b[j - Len(a)]) <= Rank(b[k - Len(a)])
        <5>1. j - Len(a) < k - Len(a)
          BY ConcatFacts
        <5> QED BY <5>1, <2>2, <3>2 DEF InOrder
      <4>2. (a \o b)[j] = b[j - Len(a)] /\ (a \o b)[k] = b[k - Len(a)]
        BY <2>2, <3>2, ConcatFacts
      <4> QED BY <4>1, <4>2
    <3> QED BY <3>1, <3>2, ConcatFacts
  <2> QED BY <2>1, <2>2, ConcatFacts
<1> QED BY <1>3, <1>4

LEMMA TwoSteps == ASSUME NEW S, NEW a \in S, NEW b \in S PROVE <<a>> \o <<b>> = <<a, b>>
<1>1. <<a>> \in Seq(S) /\ <<b>> \in Seq(S) /\ Len(<<a>>) = 1 /\ Len(<<b>>) = 1
  OBVIOUS
<1> DEFINE q == <<a>> \o <<b>>
<1>2. q \in Seq(S) /\ Len(q) = 2 /\ q[1] = a /\ q[2] = b
  BY <1>1
<1> HIDE DEF q
<1>3. q = <<q[1], q[2]>>
  BY <1>2
<1> QED BY <1>2, <1>3 DEF q

LEMMA ThreeSteps ==
    ASSUME NEW S, NEW a \in S, NEW b \in S, NEW c \in S PROVE <<a>> \o <<b>> \o <<c>> = <<a, b, c>>
<1> DEFINE q == <<a, b>> \o <<c>>
<1>1. <<a, b>> \in Seq(S) /\ <<c>> \in Seq(S) /\ Len(<<a, b>>) = 2 /\ Len(<<c>>) = 1
  OBVIOUS
<1>2. q \in Seq(S) /\ Len(q) = 3 /\ q[1] = a /\ q[2] = b /\ q[3] = c
  BY <1>1
<1> HIDE DEF q
<1>3. q = <<q[1], q[2], q[3]>>
  BY <1>2
<1> QED BY <1>2, <1>3, TwoSteps DEF q

(* A model is loaded without destroying anything but its renderer.         *)
LEMMA LoadModelSteps ==
    ASSUME NEW m \in Models
    PROVE  /\ LoadModel(m) = <<Do("wait", Device), Do("unmodel", Device), Do("assets", m)>>
           /\ LoadModel(m) \in Seq(LoadSteps)
<1>1. /\ Do("wait", Device) \in LoadSteps /\ Do("unmodel", Device) \in LoadSteps
      /\ Do("assets", m) \in LoadSteps
  BY DEF LoadSteps, Doing
<1>2. LoadModel(m) = <<Do("wait", Device), Do("unmodel", Device), Do("assets", m)>>
  BY <1>1, ThreeSteps DEF LoadModel, WaitIdle, ReleaseAllModel, LoadAssets, Step
<1> QED BY <1>1, <1>2

LEMMA TextureSteps ==
    ASSUME NEW m \in Models
    PROVE  /\ SetupTextures(m) \in Seq(Doing("texture", Files))
           /\ CreateRenderer \o SetupTextures(m) \in Seq(Doing("create", {Renderer}) \cup Doing("texture", Files))
<1>1. TexturesOf[m] \in Seq(Files)
  BY GraphicsAssumption
<1>2. SetupTextures(m) \in Seq(Doing("texture", Files))
  BY <1>1 DEF SetupTextures, ForEach, Doing
<1>3. CreateRenderer \in Seq(Doing("create", {Renderer}))
  BY DEF CreateRenderer, Create, Step, Doing
<1>4. /\ CreateRenderer \in Seq(Doing("create", {Renderer}) \cup Doing("texture", Files))
      /\ SetupTextures(m) \in Seq(Doing("create", {Renderer}) \cup Doing("texture", Files))
  BY <1>2, <1>3, SeqMonotone
<1> QED BY <1>2, <1>4

LEMMA SyncPlans ==
           /\ CreateSyncObjects \in Seq(Doing("create", Syncs \cup Tails))
           /\ DestroySyncObjects \in Seq(Doing("destroy", Syncs) \cup Doing("forget", {Pool}))
           /\ InOrder(DestroySyncObjects) /\ Within(DestroySyncObjects, 6, 7)
           /\ Doing("destroy", Syncs) \cup {Do("forget", Pool)} \subseteq ToSet(DestroySyncObjects)
<1>n. kFramesInFlight \in Nat
  BY LimitsAssumption
<1>1. CreateSyncObjects \in Seq(Doing("create", Syncs \cup Tails))
  <2>1. \A i \in 1 .. 2 * kFramesInFlight :
            (IF i % 2 = 1 THEN Do("create", Sync((i + 1) \div 2)) ELSE Do("create", Tail_(i \div 2)))
                \in Doing("create", Syncs \cup Tails)
    BY <1>n, Passes DEF Syncs, Tails, FrameSlots, Doing
  <2>2. 2 * kFramesInFlight \in Nat
    BY <1>n
  <2>3. /\ CreateSyncObjects = [i \in 1 .. 2 * kFramesInFlight |-> CreateSyncObjects[i]]
        /\ \A i \in 1 .. 2 * kFramesInFlight : CreateSyncObjects[i] =
              (IF i % 2 = 1 THEN Do("create", Sync((i + 1) \div 2)) ELSE Do("create", Tail_(i \div 2)))
    BY DEF CreateSyncObjects, ForEach2
  <2> QED BY <2>1, <2>2, <2>3, RowIsSequence
<1> DEFINE all == ForEach(kFramesInFlight, LAMBDA f : Do("destroy", Sync(f)))
<1>2. /\ all \in Seq(Doing("destroy", Syncs)) /\ DOMAIN all = FrameSlots
      /\ \A f \in FrameSlots : all[f] = Do("destroy", Sync(f))
  BY <1>n DEF ForEach, Syncs, FrameSlots, Doing
<1>3. Step("forget", Pool) \in Seq(Doing("forget", {Pool}))
  BY DEF Step, Doing
<1> HIDE DEF all
<1>4. DestroySyncObjects = all \o Step("forget", Pool)
  BY DEF DestroySyncObjects, all
<1>5. /\ all \in Seq(Doing("destroy", Syncs) \cup Doing("forget", {Pool}))
      /\ Step("forget", Pool) \in Seq(Doing("destroy", Syncs) \cup Doing("forget", {Pool}))
  BY <1>2, <1>3, SeqMonotone
<1>6. DestroySyncObjects \in Seq(Doing("destroy", Syncs) \cup Doing("forget", {Pool}))
  BY <1>4, <1>5
<1>7. \A f \in FrameSlots : Rank(all[f]) = 6
  BY <1>2 DEF Rank, Do, Sync
<1>8. InOrder(all) /\ Within(all, 6, 6)
  BY <1>2, <1>7 DEF InOrder, Within
<1>9. InOrder(Step("forget", Pool)) /\ Within(Step("forget", Pool), 6, 7)
  BY DEF InOrder, Within, Step, Rank, Do
<1>10. InOrder(DestroySyncObjects) /\ Within(DestroySyncObjects, 6, 7)
  BY <1>4, <1>5, <1>8, <1>9, OrderConcat
<1>11. ToSet(DestroySyncObjects) = ToSet(all) \cup ToSet(Step("forget", Pool))
  BY <1>4, <1>5, ConcatSet
<1>12. Do("forget", Pool) \in ToSet(Step("forget", Pool))
  BY DEF Step, ToSet
<1>13. Doing("destroy", Syncs) \subseteq ToSet(all)
  BY <1>2 DEF Doing, Syncs, ToSet
<1> QED BY <1>1, <1>6, <1>10, <1>11, <1>12, <1>13

LEMMA RingPlans ==
           /\ CreateReadbackRing \in Seq(Doing("create", Buffers \cup Memories))
           /\ DestroyReadbackRing \in Seq(Doing("destroy", Buffers \cup Memories))
           /\ InOrder(DestroyReadbackRing) /\ Within(DestroyReadbackRing, 5, 5)
           /\ Doing("destroy", Buffers \cup Memories) \subseteq ToSet(DestroyReadbackRing)
<1>n. kReadbackRingSize \in Nat /\ 2 * kReadbackRingSize \in Nat
  BY LimitsAssumption
<1>1. CreateReadbackRing \in Seq(Doing("create", Buffers \cup Memories))
  <2>1. \A i \in 1 .. 2 * kReadbackRingSize :
            (IF i % 2 = 1 THEN Do("create", Buffer((i + 1) \div 2)) ELSE Do("create", Memory(i \div 2)))
                \in Doing("create", Buffers \cup Memories)
    BY <1>n, Passes DEF Buffers, Memories, RingSlots, Doing
  <2>3. /\ CreateReadbackRing = [i \in 1 .. 2 * kReadbackRingSize |-> CreateReadbackRing[i]]
        /\ \A i \in 1 .. 2 * kReadbackRingSize : CreateReadbackRing[i] =
              (IF i % 2 = 1 THEN Do("create", Buffer((i + 1) \div 2)) ELSE Do("create", Memory(i \div 2)))
    BY DEF CreateReadbackRing, ForEach2
  <2> QED BY <2>1, <2>3, <1>n, RowIsSequence
<1>2. \A i \in 1 .. 2 * kReadbackRingSize :
          (IF i % 2 = 1 THEN Do("destroy", Buffer((i + 1) \div 2)) ELSE Do("destroy", Memory(i \div 2)))
              \in Doing("destroy", Buffers \cup Memories)
  BY <1>n, Passes DEF Buffers, Memories, RingSlots, Doing
<1>3. /\ DOMAIN DestroyReadbackRing = 1 .. 2 * kReadbackRingSize
      /\ \A i \in 1 .. 2 * kReadbackRingSize : DestroyReadbackRing[i] =
             (IF i % 2 = 1 THEN Do("destroy", Buffer((i + 1) \div 2)) ELSE Do("destroy", Memory(i \div 2)))
      /\ DestroyReadbackRing = [i \in 1 .. 2 * kReadbackRingSize |-> DestroyReadbackRing[i]]
  BY DEF DestroyReadbackRing, ForEach2
<1>4. DestroyReadbackRing \in Seq(Doing("destroy", Buffers \cup Memories))
  BY <1>2, <1>3, <1>n, RowIsSequence
<1>5. \A s \in Doing("destroy", Buffers \cup Memories) : Rank(s) = 5
  BY DEF Doing, Buffers, Memories, Buffer, Memory, Rank, Do
<1>6. \A i \in DOMAIN DestroyReadbackRing : Rank(DestroyReadbackRing[i]) = 5
  BY <1>2, <1>3, <1>5
<1>7. InOrder(DestroyReadbackRing) /\ Within(DestroyReadbackRing, 5, 5)
  BY <1>6 DEF InOrder, Within
<1>8. \A r \in RingSlots : /\ Do("destroy", Buffer(r)) \in ToSet(DestroyReadbackRing)
                     /\ Do("destroy", Memory(r)) \in ToSet(DestroyReadbackRing)
  <2> SUFFICES ASSUME NEW r \in RingSlots
               PROVE  /\ Do("destroy", Buffer(r)) \in ToSet(DestroyReadbackRing)
                      /\ Do("destroy", Memory(r)) \in ToSet(DestroyReadbackRing)
    OBVIOUS
  <2>1. /\ 2 * r - 1 \in 1 .. 2 * kReadbackRingSize /\ (2 * r - 1) % 2 = 1 /\ ((2 * r - 1) + 1) \div 2 = r
        /\ 2 * r \in 1 .. 2 * kReadbackRingSize /\ (2 * r) % 2 # 1 /\ (2 * r) \div 2 = r
    BY <1>n, Passes DEF RingSlots
  <2>2. DestroyReadbackRing[2 * r - 1] = Do("destroy", Buffer(r))
    BY <2>1, <1>3
  <2>3. DestroyReadbackRing[2 * r] = Do("destroy", Memory(r))
    BY <2>1, <1>3
  <2> QED BY <2>1, <2>2, <2>3, <1>3 DEF ToSet
<1>9. Doing("destroy", Buffers \cup Memories) \subseteq ToSet(DestroyReadbackRing)
  BY <1>8 DEF Doing, Buffers, Memories
<1> QED BY <1>1, <1>4, <1>7, <1>9

(* A part of Release: its steps, their order, and what it does.            *)
Part(q, low, high, done) ==
    q \in Seq(LeaveSteps) /\ InOrder(q) /\ Within(q, low, high) /\ done \subseteq ToSet(q)

LEMMA PartOfOne ==
    ASSUME NEW do, NEW what, Do(do, what) \in LeaveSteps, NEW n \in Nat, Rank(Do(do, what)) = n
    PROVE  Part(Step(do, what), n, n, {Do(do, what)})
<1> DEFINE s == Do(do, what)
<1>1. s \in LeaveSteps /\ Rank(s) = n /\ Step(do, what) = <<s>>
  BY DEF Step
<1> HIDE DEF s
<1>2. <<s>> \in Seq(LeaveSteps) /\ DOMAIN <<s>> = {1} /\ <<s>>[1] = s
  BY <1>1
<1>3. InOrder(<<s>>) /\ Within(<<s>>, n, n) /\ {s} \subseteq ToSet(<<s>>)
  BY <1>1, <1>2 DEF InOrder, Within, ToSet
<1>4. Part(<<s>>, n, n, {s})
  BY <1>2, <1>3 DEF Part
<1> QED BY <1>1, <1>4 DEF s

LEMMA PartOfTwo ==
    ASSUME NEW a, NEW b, NEW A, NEW B, NEW low \in Nat, NEW m \in Nat, NEW n \in Nat, NEW high \in Nat,
           low <= m, m <= n, n <= high, Part(a, low, m, A), Part(b, n, high, B)
    PROVE  Part(a \o b, low, high, A \cup B)
<1>1. a \in Seq(LeaveSteps) /\ b \in Seq(LeaveSteps) /\ a \o b \in Seq(LeaveSteps)
  BY DEF Part
<1>2. Within(a, low, n)
  BY DEF Part, Within
<1>3. InOrder(a) /\ InOrder(b) /\ Within(b, n, high) /\ low <= n
  BY DEF Part
<1>4. InOrder(a \o b) /\ Within(a \o b, low, high)
  BY <1>1, <1>2, <1>3, OrderConcat
<1>5. A \cup B \subseteq ToSet(a \o b)
  BY <1>1, ConcatSet DEF Part
<1> QED BY <1>1, <1>4, <1>5 DEF Part

Ended ==
    {Do("unmodel", Device), Do("untexture", Device), Do("wait", Device), Do("destroy", Views),
     Do("destroy", Swapchain)} \cup Doing("destroy", Buffers \cup Memories) \cup Doing("destroy", Syncs)
    \cup {Do("forget", Pool)} \cup (IF ValidationLayers THEN {Do("destroy", Messenger)} ELSE {})
    \cup {Do("destroy", Pool), Do("destroy", Device), Do("destroy", Surface), Do("destroy", Instance)}

LEMMA ReleaseParts ==
           \E q : Part(q, 0, 12, Ended) /\ Release = q \o Step("end", Instance)
<1> DEFINE rest == Handles \ (Images \cup Tails \cup {Renderer})
<1>0. /\ {Views, Swapchain, Pool, Device, Surface, Instance} \subseteq rest /\ Syncs \subseteq rest
      /\ Buffers \cup Memories \subseteq rest /\ (ValidationLayers => Messenger \in rest)
  BY DEF Handles, Drawn, Images, Image, Tails, Tail_, Renderer, Views, Swapchain, Pool, Device, Surface,
         Instance, Syncs, Sync, Buffers, Buffer, Memories, Memory, Messenger
<1>1. \A o \in rest : Do("destroy", o) \in LeaveSteps
  BY DEF LeaveSteps, Doing
<1> HIDE DEF rest
<1>2. /\ Do("unmodel", Device) \in LeaveSteps /\ Do("untexture", Device) \in LeaveSteps
      /\ Do("wait", Device) \in LeaveSteps /\ Do("forget", Pool) \in LeaveSteps
  BY DEF LeaveSteps, Doing
<1>3. Part(ReleaseAllModel, 0, 0, {Do("unmodel", Device)})
  BY <1>2, PartOfOne DEF ReleaseAllModel, Rank, Do
<1>4. Part(Step("untexture", Device), 1, 1, {Do("untexture", Device)})
  BY <1>2, PartOfOne DEF Rank, Do
<1>5. Part(WaitIdle, 2, 2, {Do("wait", Device)})
  BY <1>2, PartOfOne DEF WaitIdle, Rank, Do
<1>6. /\ Rank(Do("destroy", Views)) = 3 /\ Rank(Do("destroy", Swapchain)) = 4
      /\ Rank(Do("destroy", Messenger)) = 8 /\ Rank(Do("destroy", Pool)) = 9
      /\ Rank(Do("destroy", Device)) = 10 /\ Rank(Do("destroy", Surface)) = 11
      /\ Rank(Do("destroy", Instance)) = 12
  BY DEF Rank, Do, Views, Swapchain, Messenger, Pool, Device, Surface, Instance
<1>7. /\ Part(Destroy(Views), 3, 3, {Do("destroy", Views)})
      /\ Part(Destroy(Swapchain), 4, 4, {Do("destroy", Swapchain)})
      /\ Part(Destroy(Pool), 9, 9, {Do("destroy", Pool)})
      /\ Part(Destroy(Device), 10, 10, {Do("destroy", Device)})
      /\ Part(Destroy(Surface), 11, 11, {Do("destroy", Surface)})
      /\ Part(Destroy(Instance), 12, 12, {Do("destroy", Instance)})
  BY <1>0, <1>1, <1>6, PartOfOne DEF Destroy
<1>8. Part(CleanupSwapchain, 3, 4, {Do("destroy", Views)} \cup {Do("destroy", Swapchain)})
  BY <1>7, PartOfTwo DEF CleanupSwapchain
<1>9. Part(DestroyReadbackRing, 5, 5, Doing("destroy", Buffers \cup Memories))
  <2>1. Doing("destroy", Buffers \cup Memories) \subseteq LeaveSteps
    BY <1>0, <1>1 DEF Doing
  <2> QED BY <2>1, RingPlans, SeqMonotone DEF Part
<1>10. Part(DestroySyncObjects, 6, 7, Doing("destroy", Syncs) \cup {Do("forget", Pool)})
  <2>1. Doing("destroy", Syncs) \cup Doing("forget", {Pool}) \subseteq LeaveSteps
    BY <1>0, <1>1, <1>2 DEF Doing
  <2> QED BY <2>1, SyncPlans, SeqMonotone DEF Part
<1> DEFINE messenger == IF ValidationLayers THEN Destroy(Messenger) ELSE <<>>
           gone == IF ValidationLayers THEN {Do("destroy", Messenger)} ELSE {}
<1>11. Part(messenger, 8, 8, gone)
  <2>1. CASE ValidationLayers
    BY <2>1, <1>0, <1>1, <1>6, PartOfOne DEF Destroy
  <2>2. CASE ~ValidationLayers
    BY <2>2 DEF Part, InOrder, Within
  <2> QED BY <2>1, <2>2
<1> DEFINE b1 == WaitIdle \o CleanupSwapchain
           b2 == b1 \o DestroyReadbackRing
           b3 == b2 \o DestroySyncObjects
           b4 == b3 \o messenger
           b5 == b4 \o Destroy(Pool)
           b6 == b5 \o Destroy(Device)
           b7 == b6 \o Destroy(Surface)
           b8 == b7 \o Destroy(Instance)
           e1 == {Do("wait", Device)} \cup ({Do("destroy", Views)} \cup {Do("destroy", Swapchain)})
           e2 == e1 \cup Doing("destroy", Buffers \cup Memories)
           e3 == e2 \cup (Doing("destroy", Syncs) \cup {Do("forget", Pool)})
           e4 == e3 \cup gone
           e5 == e4 \cup {Do("destroy", Pool)}
           e6 == e5 \cup {Do("destroy", Device)}
           e7 == e6 \cup {Do("destroy", Surface)}
           e8 == e7 \cup {Do("destroy", Instance)}
           h1 == ReleaseAllModel \o Step("untexture", Device)
           f1 == {Do("unmodel", Device)} \cup {Do("untexture", Device)}
<1> HIDE DEF messenger, gone
<1>21. Part(b1, 2, 4, e1)
  BY <1>5, <1>8, PartOfTwo
<1> HIDE DEF b1, e1
<1>22. Part(b2, 2, 5, e2)
  BY <1>21, <1>9, PartOfTwo
<1> HIDE DEF b2, e2
<1>23. Part(b3, 2, 7, e3)
  BY <1>22, <1>10, PartOfTwo
<1> HIDE DEF b3, e3
<1>24. Part(b4, 2, 8, e4)
  BY <1>23, <1>11, PartOfTwo
<1> HIDE DEF b4, e4
<1>25. Part(b5, 2, 9, e5)
  BY <1>24, <1>7, PartOfTwo
<1> HIDE DEF b5, e5
<1>26. Part(b6, 2, 10, e6)
  BY <1>25, <1>7, PartOfTwo
<1> HIDE DEF b6, e6
<1>27. Part(b7, 2, 11, e7)
  BY <1>26, <1>7, PartOfTwo
<1> HIDE DEF b7, e7
<1>28. Part(b8, 2, 12, e8)
  BY <1>27, <1>7, PartOfTwo
<1> HIDE DEF b8, e8
<1>29. Part(h1, 0, 1, f1)
  BY <1>3, <1>4, PartOfTwo
<1> HIDE DEF h1, f1
<1>30. Part(h1 \o b8, 0, 12, f1 \cup e8)
  BY <1>28, <1>29, PartOfTwo
<1>31. f1 \cup e8 = Ended
  BY DEF f1, e8, e7, e6, e5, e4, e3, e2, e1, gone, Ended
<1>32. Release = (h1 \o b8) \o Step("end", Instance)
  BY DEF Release, ReleaseGraphics, h1, b8, b7, b6, b5, b4, b3, b2, b1, messenger
<1> QED BY <1>30, <1>31, <1>32

EndIsLast(q) == \A k \in DOMAIN q : q[k].do \in {"begin", "end"} => k = Len(q)

LEMMA EndLast ==
    ASSUME NEW S, NEW q \in Seq(S), NEW s \in S, \A k \in DOMAIN q : q[k].do \notin {"begin", "end"}
    PROVE  EndIsLast(q \o <<s>>)
<1>1. <<s>> \in Seq(S) /\ Len(<<s>>) = 1 /\ DOMAIN <<s>> = {1}
  OBVIOUS
<1> SUFFICES ASSUME NEW k \in DOMAIN (q \o <<s>>), (q \o <<s>>)[k].do \in {"begin", "end"}
             PROVE  k = Len(q \o <<s>>)
  BY DEF EndIsLast
<1>2. k \notin DOMAIN q
  BY <1>1, ConcatFacts
<1> QED BY <1>1, <1>2, ConcatFacts

LEMMA ReleasePlan ==
           /\ Release \in Seq(LeaveSteps) /\ InOrder(Release) /\ EndIsLast(Release)
           /\ \A o \in Handles : End(o) \in ToSet(Release)
           /\ {Do("destroy", Pool), Do("unmodel", Device), Do("wait", Device)} \subseteq ToSet(Release)
<1>1. PICK q : Part(q, 0, 12, Ended) /\ Release = q \o Step("end", Instance)
  BY ReleaseParts
<1>2. Do("end", Instance) \in LeaveSteps /\ Rank(Do("end", Instance)) = 13
  BY DEF LeaveSteps, Doing, Rank, Do
<1>3. Part(Step("end", Instance), 13, 13, {Do("end", Instance)})
  BY <1>2, PartOfOne
<1>4. Part(Release, 0, 13, Ended \cup {Do("end", Instance)})
  BY <1>1, <1>3, PartOfTwo
<1>5. EndIsLast(Release)
  <2>1. \A k \in DOMAIN q : Rank(q[k]) \in 0 .. 12 /\ q[k] \in LeaveSteps
    BY <1>1 DEF Part, Within
  <2>2. \A s \in LeaveSteps : s.do = "end" => Rank(s) = 13
    BY DEF LeaveSteps, Doing, Do, Rank
  <2>3. \A s \in LeaveSteps : s.do # "begin"
    BY DEF LeaveSteps, Doing, Do
  <2>4. \A k \in DOMAIN q : q[k].do \notin {"begin", "end"}
    BY <2>1, <2>2, <2>3
  <2>5. q \in Seq(LeaveSteps)
    BY <1>1 DEF Part
  <2> QED BY <1>1, <1>2, <2>4, <2>5, EndLast DEF Step
<1>6. \A o \in Handles : End(o) \in Ended
  <2> SUFFICES ASSUME NEW o \in Handles PROVE End(o) \in Ended
    OBVIOUS
  <2>1. CASE o \in Images \cup Tails \cup {Renderer}
    BY <2>1 DEF End, Ended, Images, Image, Tails, Tail_, Renderer
  <2>2. CASE o \notin Images \cup Tails \cup {Renderer}
    <3>1. End(o) = Do("destroy", o)
      BY <2>2 DEF End
    <3>2. o = Messenger => ValidationLayers
      BY DEF Handles, Drawn, Images, Image, Tails, Tail_, Renderer, Views, Swapchain, Pool, Device, Surface,
         Instance, Syncs, Sync, Buffers, Buffer, Memories, Memory, Messenger
    <3>3. o \in {Instance, Surface, Device, Views, Swapchain, Pool, Messenger} \cup Syncs \cup Buffers \cup Memories
      BY <2>2, HandleKinds DEF Fixed
    <3> QED BY <3>1, <3>2, <3>3 DEF Ended, Doing
  <2> QED BY <2>1, <2>2
<1>7. {Do("destroy", Pool), Do("unmodel", Device), Do("wait", Device)} \subseteq Ended
  BY DEF Ended
<1> QED BY <1>4, <1>5, <1>6, <1>7 DEF Part

(* A recreated swapchain.                                                  *)
Recreation == Doing("wait", {Device}) \cup Doing("destroy", Syncs \cup {Views, Swapchain})
    \cup Doing("forget", {Pool}) \cup Doing("create", Syncs \cup Tails \cup {Views, Swapchain})
    \cup Doing("upload", {Pool})

LEMMA NoneIsAdjacent ==
    ASSUME NEW q, \A k \in DOMAIN q : q[k] # Do("destroy", Swapchain) PROVE Adjacent(q)
BY DEF Adjacent

LEMMA RecreatePlan ==
           /\ RebuildSwapchain \in Seq(Recreation) /\ Adjacent(RebuildSwapchain)
           /\ RebuildSwapchain # <<>> /\ Head(RebuildSwapchain) = Do("wait", Device)
<1> DEFINE T == CleanupSwapchain
           C == CreateSwapchain
           U == TransitionSwapchainLayouts
<1>1. /\ WaitIdle \in Seq(Recreation) /\ \A k \in DOMAIN WaitIdle : WaitIdle[k] # Do("destroy", Swapchain)
  BY DEF WaitIdle, Step, Recreation, Doing, Do
<1>2. /\ DestroySyncObjects \in Seq(Recreation)
      /\ \A k \in DOMAIN DestroySyncObjects : DestroySyncObjects[k] # Do("destroy", Swapchain)
  <2>1. Doing("destroy", Syncs) \cup Doing("forget", {Pool}) \subseteq Recreation
    BY DEF Recreation, Doing
  <2>2. Do("destroy", Swapchain) \notin Doing("destroy", Syncs) \cup Doing("forget", {Pool})
    <3>1. \A t \in Doing("destroy", Syncs) : t.what[1] = "sync"
      BY DEF Doing, Do, Syncs, Sync
    <3>2. \A t \in Doing("forget", {Pool}) : t.do = "forget"
      BY DEF Doing, Do
    <3>3. Do("destroy", Swapchain).what[1] = "swapchain" /\ Do("destroy", Swapchain).do = "destroy"
      BY DEF Do, Swapchain
    <3> QED BY <3>1, <3>2, <3>3
  <2>3. DestroySyncObjects \in Seq(Doing("destroy", Syncs) \cup Doing("forget", {Pool}))
    BY SyncPlans
  <2>4. DestroySyncObjects \in Seq(Recreation)
    BY <2>1, <2>3, SeqMonotone
  <2>5. \A k \in DOMAIN DestroySyncObjects :
            DestroySyncObjects[k] \in Doing("destroy", Syncs) \cup Doing("forget", {Pool})
    BY <2>3, ElementOf
  <2> QED BY <2>2, <2>4, <2>5
<1>3. /\ CreateSyncObjects \in Seq(Recreation)
      /\ \A k \in DOMAIN CreateSyncObjects : CreateSyncObjects[k] # Do("destroy", Swapchain)
  <2>1. Doing("create", Syncs \cup Tails) \subseteq Recreation
    BY DEF Recreation, Doing
  <2>2. Do("destroy", Swapchain) \notin Doing("create", Syncs \cup Tails)
    BY DEF Doing, Do
  <2>3. CreateSyncObjects \in Seq(Doing("create", Syncs \cup Tails))
    BY SyncPlans
  <2> QED BY <2>1, <2>2, <2>3, SeqMonotone
<1>4. T \in Seq(Recreation) /\ Adjacent(T)
  <2>1. Do("destroy", Views) \in Recreation /\ Do("destroy", Swapchain) \in Recreation
    BY DEF Recreation, Doing
  <2>2. T = <<Do("destroy", Views), Do("destroy", Swapchain)>>
    BY <2>1, TwoSteps DEF CleanupSwapchain, Destroy, Step
  <2>3. Do("destroy", Views) # Do("destroy", Swapchain)
    BY DEF Do, Views, Swapchain
  <2> QED BY <2>1, <2>2, <2>3 DEF Adjacent
<1>5. C \in Seq(Recreation) /\ \A k \in DOMAIN C : C[k] # Do("destroy", Swapchain)
  <2>1. Do("create", Swapchain) \in Recreation /\ Do("create", Views) \in Recreation
    BY DEF Recreation, Doing
  <2>2. C = <<Do("create", Swapchain), Do("create", Views)>>
    BY <2>1, TwoSteps DEF CreateSwapchain, Create, Step
  <2>3. Do("destroy", Swapchain) # Do("create", Swapchain) /\ Do("destroy", Swapchain) # Do("create", Views)
    BY DEF Do
  <2> QED BY <2>1, <2>2, <2>3
<1>6. U \in Seq(Recreation) /\ \A k \in DOMAIN U : U[k] # Do("destroy", Swapchain)
  BY DEF TransitionSwapchainLayouts, Step, Recreation, Doing, Do
<1> HIDE DEF T, C, U
<1> DEFINE a1 == WaitIdle \o DestroySyncObjects
           a2 == a1 \o T
           a3 == a2 \o C
           a4 == a3 \o U
           a5 == a4 \o CreateSyncObjects
<1>11. a1 \in Seq(Recreation) /\ Adjacent(a1)
  BY <1>1, <1>2, AdjacentConcat, NoneIsAdjacent, ConcatFacts
<1>21. a1 # <<>> /\ a1[1] = Do("wait", Device)
  <2>1. Len(WaitIdle) = 1 /\ WaitIdle[1] = Do("wait", Device) /\ 1 \in DOMAIN WaitIdle
    BY DEF WaitIdle, Step
  <2>2. Len(a1) # 0 /\ a1[1] = WaitIdle[1]
    BY <1>1, <1>2, <2>1, ConcatFacts
  <2> QED BY <2>1, <2>2
<1>31. Len(a1) \in Nat \ {0}
  BY <1>11, <1>21
<1> HIDE DEF a1
<1>12. a2 \in Seq(Recreation) /\ Adjacent(a2) /\ Len(a2) \in Nat \ {0} /\ a2[1] = Do("wait", Device)
  BY <1>11, <1>4, <1>21, <1>31, AdjacentConcat, ConcatFacts
<1> HIDE DEF a2
<1>13. a3 \in Seq(Recreation) /\ Adjacent(a3) /\ Len(a3) \in Nat \ {0} /\ a3[1] = Do("wait", Device)
  BY <1>12, <1>5, AdjacentConcat, NoneIsAdjacent, ConcatFacts
<1> HIDE DEF a3
<1>14. a4 \in Seq(Recreation) /\ Adjacent(a4) /\ Len(a4) \in Nat \ {0} /\ a4[1] = Do("wait", Device)
  BY <1>13, <1>6, AdjacentConcat, NoneIsAdjacent, ConcatFacts
<1> HIDE DEF a4
<1>15. a5 \in Seq(Recreation) /\ Adjacent(a5) /\ Len(a5) \in Nat \ {0} /\ a5[1] = Do("wait", Device)
  BY <1>14, <1>3, AdjacentConcat, NoneIsAdjacent, ConcatFacts
<1>16. RebuildSwapchain = a5
  BY DEF RebuildSwapchain, a4, a3, a2, a1, T, C, U
<1> HIDE DEF a5
<1>17. a5 # <<>> /\ Head(a5) = a5[1]
  BY <1>15
<1> QED BY <1>15, <1>16, <1>17

(* The start.                                                              *)
CheckFirst(q) ==
    \A j, k \in DOMAIN q : q[j].do = "check" /\ TouchesRing(q[k]) => k <= j
HasCheck(q) == \E k \in DOMAIN q : q[k].do = "check"

LEMMA CheckConcat ==
    ASSUME NEW S, NEW a \in Seq(S), NEW b \in Seq(S), CheckFirst(a), HasCheck(a),
           \A k \in DOMAIN b : ~TouchesRing(b[k])
    PROVE  CheckFirst(a \o b) /\ HasCheck(a \o b)
<1>1. \A k \in DOMAIN b : b[k].do # "check"
  BY DEF TouchesRing
<1>2. \A k \in DOMAIN (a \o b) : TouchesRing((a \o b)[k]) => k \in DOMAIN a /\ (a \o b)[k] = a[k]
  BY ConcatFacts
<1>3. \A k \in DOMAIN (a \o b) : (a \o b)[k].do = "check" => k \in DOMAIN a /\ (a \o b)[k] = a[k]
  BY <1>1, ConcatFacts
<1>4. CheckFirst(a \o b)
  BY <1>2, <1>3 DEF CheckFirst
<1>5. HasCheck(a \o b)
  BY ConcatFacts DEF HasCheck
<1> QED BY <1>4, <1>5

EarlySteps == Doing("create", Handles \ Images) \cup Doing("pick", {Instance})
RestSteps == LoadSteps \cup Doing("upload", {Pool}) \cup Doing("create", Syncs \cup Tails)

LEMMA StepKinds ==
    /\ EarlySteps \subseteq BootSteps /\ RestSteps \subseteq BootSteps
    /\ Do("check", Device) \in BootSteps /\ Do("begin", Device) \in BootSteps
    /\ \A s \in EarlySteps : s.do \notin {"check", "begin", "end"}
    /\ \A s \in RestSteps : ~TouchesRing(s) /\ s.do \notin {"begin", "end"}
<1>1. EarlySteps \subseteq BootSteps
  BY DEF EarlySteps, BootSteps
<1>2. Syncs \cup Tails \subseteq Handles \ Images
  BY DEF Handles, Drawn, Syncs, Sync, Tails, Tail_, Images, Image
<1>3. RestSteps \subseteq BootSteps
  BY <1>2 DEF RestSteps, BootSteps, Doing
<1>4. Do("check", Device) \in BootSteps /\ Do("begin", Device) \in BootSteps
  BY DEF BootSteps, Doing
<1>5. \A s \in EarlySteps : s.do \notin {"check", "begin", "end"}
  BY DEF EarlySteps, Doing, Do
<1>6. \A s \in LoadSteps : ~TouchesRing(s) /\ s.do \notin {"begin", "end"}
  <2>1. \A s \in LoadSteps : s.do = "create" => s.what[1] = "renderer"
    BY DEF LoadSteps, Doing, Do, Renderer
  <2>2. \A s \in LoadSteps : s.do \notin {"begin", "end", "check"}
    BY DEF LoadSteps, Doing, Do
  <2> QED BY <2>1, <2>2 DEF TouchesRing
<1>7. \A s \in Doing("upload", {Pool}) \cup Doing("create", Syncs \cup Tails) :
          ~TouchesRing(s) /\ s.do \notin {"begin", "end"}
  BY DEF TouchesRing, Doing, Do, Syncs, Sync, Tails, Tail_
<1> QED BY <1>1, <1>3, <1>4, <1>5, <1>6, <1>7 DEF RestSteps

LEMMA EarlyPlan ==
           \E q \in Seq(EarlySteps) : InitializeGraphics =
               ((q \o Step("check", Device)) \o TransitionSwapchainLayouts) \o CreateSyncObjects
<1>1. \A o \in {Instance, Surface, Device, Swapchain, Views, Pool} \cup Buffers \cup Memories :
          Do("create", o) \in EarlySteps
  <2>1. {Instance, Surface, Device, Swapchain, Views, Pool} \cup Buffers \cup Memories \subseteq Handles \ Images
    BY DEF Handles, Drawn, Images, Image, Views, Swapchain, Pool, Device, Surface,
           Instance, Buffers, Buffer, Memories, Memory
  <2> QED BY <2>1 DEF EarlySteps, Doing
<1>2. /\ CreateInstance \in Seq(EarlySteps) /\ CreateSurface \in Seq(EarlySteps)
      /\ CreateLogicalDevice \in Seq(EarlySteps) /\ CreateCommandPool \in Seq(EarlySteps)
      /\ Create(Swapchain) \in Seq(EarlySteps) /\ Create(Views) \in Seq(EarlySteps)
  BY <1>1 DEF CreateInstance, CreateSurface, CreateLogicalDevice, CreateCommandPool, Create, Step
<1>3. CreateSwapchain \in Seq(EarlySteps)
  BY <1>2 DEF CreateSwapchain
<1>4. PickPhysicalDevice \in Seq(EarlySteps)
  <2>1. Do("pick", Instance) \in EarlySteps
    BY DEF EarlySteps, Doing
  <2> QED BY <2>1 DEF PickPhysicalDevice, Step
<1>5. SetupDebugMessenger \in Seq(EarlySteps)
  <2>1. ValidationLayers => Do("create", Messenger) \in EarlySteps
    BY DEF EarlySteps, Doing, Handles, Messenger, Images, Image
  <2> QED BY <2>1 DEF SetupDebugMessenger, Create, Step
<1>6. CreateReadbackRing \in Seq(EarlySteps)
  <2>1. Doing("create", Buffers \cup Memories) \subseteq EarlySteps
    BY <1>1 DEF Doing
  <2> QED BY <2>1, RingPlans, SeqMonotone
<1> DEFINE q == CreateInstance \o SetupDebugMessenger \o CreateSurface \o PickPhysicalDevice
                \o CreateLogicalDevice \o CreateSwapchain \o CreateCommandPool \o CreateReadbackRing
<1>7. q \in Seq(EarlySteps)
  <2> HIDE DEF EarlySteps
  <2>1. CreateInstance \o SetupDebugMessenger \o CreateSurface \o PickPhysicalDevice \in Seq(EarlySteps)
    BY <1>2, <1>4, <1>5
  <2> DEFINE q1 == CreateInstance \o SetupDebugMessenger \o CreateSurface \o PickPhysicalDevice
  <2> HIDE DEF q1
  <2>2. q1 \o CreateLogicalDevice \o CreateSwapchain \o CreateCommandPool \o CreateReadbackRing \in Seq(EarlySteps)
    BY <2>1, <1>2, <1>3, <1>6 DEF q1
  <2> QED BY <2>2 DEF q1
<1> QED BY <1>7 DEF InitializeGraphics

LEMMA InitializePlan ==
           /\ Initialize \in Seq(BootSteps) /\ CheckFirst(Initialize) /\ HasCheck(Initialize)
           /\ EndIsLast(Initialize)
<1>1. PICK q \in Seq(EarlySteps) : InitializeGraphics =
               ((q \o Step("check", Device)) \o TransitionSwapchainLayouts) \o CreateSyncObjects
  BY EarlyPlan
<1> DEFINE s == Do("check", Device)
           U == TransitionSwapchainLayouts
           S == CreateSyncObjects
           L == LoadModel(Startup)
           g1 == q \o <<s>>
           g2 == g1 \o U
           g3 == g2 \o S
           g4 == g3 \o L
<1>2. Initialize = g4 \o <<Do("begin", Device)>>
  BY <1>1 DEF Initialize, Step
<1>3. /\ U \in Seq(RestSteps) /\ S \in Seq(RestSteps) /\ L \in Seq(RestSteps)
  <2>1. /\ Doing("upload", {Pool}) \subseteq RestSteps /\ Doing("create", Syncs \cup Tails) \subseteq RestSteps
        /\ LoadSteps \subseteq RestSteps /\ Do("upload", Pool) \in RestSteps
    BY DEF RestSteps, Doing
  <2>2. U \in Seq(RestSteps)
    BY <2>1 DEF TransitionSwapchainLayouts, Step
  <2>3. S \in Seq(RestSteps)
    BY <2>1, SyncPlans, SeqMonotone
  <2>4. L \in Seq(RestSteps)
    <3>1. Startup \in Models
      BY GraphicsAssumption
    <3> QED BY <3>1, <2>1, LoadModelSteps, SeqMonotone
  <2> QED BY <2>2, <2>3, <2>4
<1> DEFINE Some == BootSteps \ {Do("begin", Device)}
<1>4. /\ EarlySteps \subseteq Some /\ RestSteps \subseteq Some /\ s \in Some /\ Some \subseteq BootSteps
      /\ \A t \in Some : t.do \notin {"begin", "end"}
  <2>1. Do("begin", Device).do = "begin" /\ s.do = "check"
    BY DEF Do
  <2>2. \A t \in BootSteps : t.do \in {"begin", "end"} => t = Do("begin", Device)
    <3>1. \A t \in LoadSteps : t.do \notin {"begin", "end"}
      BY StepKinds DEF RestSteps
    <3>2. \A t \in Doing("create", Handles \ Images) \cup Doing("pick", {Instance})
                \cup Doing("check", {Device}) \cup Doing("upload", {Pool}) : t.do \notin {"begin", "end"}
      BY DEF Doing, Do
    <3> QED BY <3>1, <3>2 DEF BootSteps, Doing
  <2> QED BY <2>1, <2>2, StepKinds
<1>5. /\ q \in Seq(Some) /\ U \in Seq(Some) /\ S \in Seq(Some) /\ L \in Seq(Some) /\ <<s>> \in Seq(Some)
  BY <1>1, <1>3, <1>4, SeqMonotone
<1>6. /\ \A k \in DOMAIN q : q[k].do # "check"
      /\ \A k \in DOMAIN U : ~TouchesRing(U[k])
      /\ \A k \in DOMAIN S : ~TouchesRing(S[k])
      /\ \A k \in DOMAIN L : ~TouchesRing(L[k])
  BY <1>1, <1>3, StepKinds, ElementOf
<1> HIDE DEF Some, U, S, L
<1>7. g1 \in Seq(Some) /\ CheckFirst(g1) /\ HasCheck(g1)
  <2>1. s.do = "check" /\ Len(<<s>>) = 1 /\ DOMAIN <<s>> = {1} /\ <<s>>[1] = s
    BY DEF Do
  <2>2. \A k \in DOMAIN g1 : g1[k].do = "check" => k = Len(q) + 1
    BY <2>1, <1>5, <1>6, ConcatFacts
  <2>3. \A k \in DOMAIN g1 : k <= Len(q) + 1
    BY <2>1, <1>5, ConcatFacts
  <2>4. Len(q) + 1 \in DOMAIN g1 /\ g1[Len(q) + 1] = s
    BY <2>1, <1>5, ConcatFacts
  <2>5. g1 \in Seq(Some)
    BY <1>5
  <2>6. CheckFirst(g1)
    BY <2>2, <2>3 DEF CheckFirst
  <2>7. HasCheck(g1)
    BY <2>1, <2>4 DEF HasCheck
  <2> QED BY <2>5, <2>6, <2>7
<1> HIDE DEF g1
<1>8. g2 \in Seq(Some) /\ CheckFirst(g2) /\ HasCheck(g2)
  BY <1>5, <1>6, <1>7, CheckConcat, ConcatFacts
<1> HIDE DEF g2
<1>9. g3 \in Seq(Some) /\ CheckFirst(g3) /\ HasCheck(g3)
  BY <1>5, <1>6, <1>8, CheckConcat, ConcatFacts
<1> HIDE DEF g3
<1>10. g4 \in Seq(Some) /\ CheckFirst(g4) /\ HasCheck(g4)
  BY <1>5, <1>6, <1>9, CheckConcat, ConcatFacts
<1> HIDE DEF g4
<1> DEFINE b == Do("begin", Device)
<1>11. g4 \in Seq(BootSteps) /\ b \in BootSteps /\ <<b>> \in Seq(BootSteps)
  <2>1. Some \subseteq BootSteps
    BY <1>4
  <2> QED BY <2>1, <1>10, StepKinds, SeqMonotone
<1>12. \A k \in DOMAIN <<b>> : ~TouchesRing(<<b>>[k])
  BY DEF TouchesRing, Do
<1>13. \A k \in DOMAIN g4 : g4[k].do \notin {"begin", "end"}
  BY <1>4, <1>10, ElementOf
<1> HIDE DEF b
<1>14. CheckFirst(g4 \o <<b>>) /\ HasCheck(g4 \o <<b>>) /\ g4 \o <<b>> \in Seq(BootSteps)
  BY <1>10, <1>11, <1>12, CheckConcat, ConcatFacts
<1>15. EndIsLast(g4 \o <<b>>)
  BY <1>11, <1>13, EndLast
<1> QED BY <1>2, <1>14, <1>15 DEF b

(***************************************************************************)
(* The invariant, one step at a time.                                      *)
(***************************************************************************)

LEMMA Starts == ASSUME GraphicsInit PROVE GraphicsInv
<1> USE DEF GraphicsInit
<1>1. GraphicsTypeOK
  <2>1. plan \in Seq(StepsOf(phase)) /\ EndIsLast(plan)
    BY InitializePlan DEF StepsOf
  <2>2. work \in [FrameSlots -> SUBSET Drawn] /\ slot \in FrameSlots
    BY LimitsAssumption DEF Idle, FrameSlots
  <2>3. cache \in Seq(Files) /\ bound \in Seq(Files) /\ ToSet(cache) = {} /\ alive \subseteq Handles
    BY DEF ToSet
  <2> QED BY <2>1, <2>2, <2>3 DEF GraphicsTypeOK, EndIsLast
<1>2. ObjectsOutliveTheirUse
  BY DEF ObjectsOutliveTheirUse, NothingOutlivesItsParent, InUseIsAlive, SampledIsAlive, Idle
<1>3. RingIsChecked
  BY InitializePlan DEF RingIsChecked, CheckFirst, HasCheck
<1>4. LoopDestroysInOrder /\ ReleaseEndsAll
  BY DEF LoopDestroysInOrder, ReleaseEndsAll
<1> QED BY <1>1, <1>2, <1>3, <1>4 DEF GraphicsInv

(* A step of the plan is taken.                                            *)
Advances == plan # <<>> /\ plan' = Tail(plan) /\ phase' = phase

LEMMA PlanAdvances ==
    ASSUME GraphicsInv, plan # <<>>, plan' = Tail(plan)
    PROVE  /\ plan \in Seq(StepsOf(phase)) /\ plan' \in Seq(StepsOf(phase)) /\ Head(plan) \in StepsOf(phase)
           /\ \A k \in DOMAIN plan' : plan'[k].do \in {"begin", "end"} => k = Len(plan')
           /\ Head(plan).do \in {"begin", "end"} => plan' = <<>>
<1>1. plan \in Seq(StepsOf(phase)) /\ \A k \in DOMAIN plan : plan[k].do \in {"begin", "end"} => k = Len(plan)
  BY DEF GraphicsInv, GraphicsTypeOK
<1>2. plan' \in Seq(StepsOf(phase)) /\ Head(plan) \in StepsOf(phase)
  BY <1>1, TailFacts
<1>3. \A k \in DOMAIN plan' : plan'[k].do \in {"begin", "end"} => k = Len(plan')
  BY <1>1, TailFacts
<1>4. ASSUME Head(plan).do \in {"begin", "end"} PROVE plan' = <<>>
  <2>1. Len(plan) \in Nat \ {0} /\ 1 \in DOMAIN plan /\ Head(plan) = plan[1] /\ Len(plan') = Len(plan) - 1
    BY <1>1, TailFacts
  <2>2. Len(plan') = 0
    BY <1>1, <1>4, <2>1
  <2> QED BY <1>2, <2>2
<1> QED BY <1>1, <1>2, <1>3, <1>4

LEMMA RingAdvances ==
    ASSUME GraphicsInv, Advances, phase = "init" => work' = Idle,
           Head(plan).do = "check" => Buffers \subseteq alive',
           Buffers \subseteq alive /\ ~TouchesRing(Head(plan)) => Buffers \subseteq alive'
    PROVE  RingIsChecked'
<1> SUFFICES ASSUME phase = "init"
             PROVE  /\ \A j, k \in DOMAIN plan' : plan'[j].do = "check" /\ TouchesRing(plan'[k]) => k <= j
                    /\ \/ \E k \in DOMAIN plan' : plan'[k].do = "check"
                       \/ Buffers \subseteq alive' /\ \A k \in DOMAIN plan' : ~TouchesRing(plan'[k])
  BY DEF RingIsChecked, TouchesRing, Advances
<1>0. plan # <<>> /\ plan' = Tail(plan) /\ plan \in Seq(StepsOf(phase))
  BY DEF Advances, GraphicsInv, GraphicsTypeOK
<1>1. \A k \in DOMAIN plan' : k \in Nat /\ k + 1 \in DOMAIN plan /\ plan'[k] = plan[k + 1]
  BY <1>0, TailFacts
<1>2. \A k \in DOMAIN plan : k = 1 \/ (k - 1 \in DOMAIN plan' /\ plan'[k - 1] = plan[k])
  BY <1>0, TailFacts
<1>3. Head(plan) = plan[1] /\ 1 \in DOMAIN plan
  BY <1>0, TailFacts
<1>4. /\ \A j, k \in DOMAIN plan : plan[j].do = "check" /\ TouchesRing(plan[k]) => k <= j
      /\ \/ \E k \in DOMAIN plan : plan[k].do = "check"
         \/ Buffers \subseteq alive /\ \A k \in DOMAIN plan : ~TouchesRing(plan[k])
  BY DEF GraphicsInv, RingIsChecked
<1>5. \A j, k \in DOMAIN plan' : plan'[j].do = "check" /\ TouchesRing(plan'[k]) => k <= j
  <2> SUFFICES ASSUME NEW j \in DOMAIN plan', NEW k \in DOMAIN plan',
                      plan'[j].do = "check", TouchesRing(plan'[k])
               PROVE  k <= j
    OBVIOUS
  <2>1. k + 1 <= j + 1
    BY <1>1, <1>4
  <2> QED BY <2>1, <1>1
<1>6. CASE Head(plan).do = "check"
  <2>1. \A k \in DOMAIN plan' : ~TouchesRing(plan'[k])
    <3> SUFFICES ASSUME NEW k \in DOMAIN plan', TouchesRing(plan'[k]) PROVE FALSE
      OBVIOUS
    <3>1. k + 1 <= 1 /\ k \in Nat /\ k + 1 \in DOMAIN plan
      BY <1>1, <1>3, <1>4, <1>6
    <3>2. DOMAIN plan' = 1 .. Len(plan) - 1 /\ Len(plan) \in Nat
      BY <1>0, TailFacts
    <3> QED BY <3>1, <3>2
  <2> QED BY <2>1, <1>5, <1>6
<1>7. CASE Head(plan).do # "check" /\ \E k \in DOMAIN plan : plan[k].do = "check"
  BY <1>7, <1>2, <1>3, <1>5
<1>8. CASE Buffers \subseteq alive /\ \A k \in DOMAIN plan : ~TouchesRing(plan[k])
  BY <1>8, <1>1, <1>3, <1>5
<1> QED BY <1>4, <1>6, <1>7, <1>8

LEMMA LoopAdvances ==
    ASSUME GraphicsInv, Advances, phase = "loop" => work' \in {work, Idle} /\ Buffers \subseteq alive',
           phase = "loop" /\ Head(plan).do = "wait" => work' = Idle,
           phase = "loop" /\ Head(plan) = Do("destroy", Views) => Views \notin alive'
    PROVE  LoopDestroysInOrder'
<1> SUFFICES ASSUME phase = "loop"
             PROVE  /\ \A k \in DOMAIN plan' : plan'[k].do \in {"destroy", "forget"} =>
                           work' = Idle \/ \E j \in 1 .. k - 1 : plan'[j].do = "wait"
                    /\ \A k \in DOMAIN plan' : plan'[k] = Do("destroy", Swapchain) =>
                           IF k = 1 THEN Views \notin alive' ELSE plan'[k - 1] = Do("destroy", Views)
  BY DEF LoopDestroysInOrder, Advances
<1>0. plan # <<>> /\ plan' = Tail(plan) /\ plan \in Seq(StepsOf(phase))
  BY DEF Advances, GraphicsInv, GraphicsTypeOK
<1>1. \A k \in DOMAIN plan' : k \in Nat /\ k + 1 \in DOMAIN plan /\ plan'[k] = plan[k + 1]
  BY <1>0, TailFacts
<1>2. /\ Head(plan) = plan[1] /\ DOMAIN plan = 1 .. Len(plan) /\ DOMAIN plan' = 1 .. Len(plan) - 1
      /\ Len(plan) \in Nat
  BY <1>0, TailFacts
<1>3. \A k \in DOMAIN plan' : plan'[k].do \in {"destroy", "forget"} =>
           work' = Idle \/ \E j \in 1 .. k - 1 : plan'[j].do = "wait"
  <2> SUFFICES ASSUME NEW k \in DOMAIN plan', plan'[k].do \in {"destroy", "forget"}, work' # Idle
               PROVE  \E j \in 1 .. k - 1 : plan'[j].do = "wait"
    OBVIOUS
  <2>1. work # Idle
    OBVIOUS
  <2>2. PICK j \in 1 .. (k + 1) - 1 : plan[j].do = "wait"
    BY <1>1, <2>1 DEF GraphicsInv, LoopDestroysInOrder
  <2>3. j # 1
    BY <1>2, <2>2
  <2>4. j - 1 \in 1 .. k - 1 /\ j - 1 \in DOMAIN plan' /\ (j - 1) + 1 = j
    BY <1>1, <1>2, <2>2, <2>3
  <2> QED BY <1>1, <2>2, <2>4
<1>4. \A k \in DOMAIN plan' : plan'[k] = Do("destroy", Swapchain) =>
           IF k = 1 THEN Views \notin alive' ELSE plan'[k - 1] = Do("destroy", Views)
  <2> SUFFICES ASSUME NEW k \in DOMAIN plan', plan'[k] = Do("destroy", Swapchain)
               PROVE  IF k = 1 THEN Views \notin alive' ELSE plan'[k - 1] = Do("destroy", Views)
    OBVIOUS
  <2>1. k + 1 # 1 /\ (k + 1) - 1 = k /\ plan[k + 1] = Do("destroy", Swapchain) /\ k + 1 \in DOMAIN plan
    BY <1>1, <1>2
  <2>2. plan[k] = Do("destroy", Views)
    BY <2>1 DEF GraphicsInv, LoopDestroysInOrder
  <2>3. CASE k = 1
    BY <2>2, <2>3, <1>2
  <2>4. CASE k # 1
    <3>1. k - 1 \in DOMAIN plan' /\ (k - 1) + 1 = k
      BY <2>4, <1>1, <1>2
    <3> QED BY <3>1, <2>2, <2>4, <1>1
  <2> QED BY <2>3, <2>4
<1> QED BY <1>3, <1>4

LEMMA RanksAreNumbers == \A s : Rank(s) \in Int
BY DEF Rank

LEMMA ReleaseAdvances ==
    ASSUME GraphicsInv, Advances,
           phase = "leaving" =>
              /\ \A o \in alive' : o \in alive /\ End(o) # Head(plan)
              /\ spare' # 0 => spare # 0 \/ Head(plan) = Do("forget", Pool)
              /\ Head(plan) = Do("destroy", Pool) => spare' = 0
              /\ bound' # <<>> => bound # <<>> /\ Head(plan) # Do("unmodel", Device)
              /\ work' # Idle => work # Idle /\ Head(plan) # Do("wait", Device)
    PROVE  ReleaseEndsAll'
<1> SUFFICES ASSUME phase = "leaving" PROVE ReleaseEndsAll'
  BY DEF ReleaseEndsAll, Advances
<1> DEFINE left == ToSet(plan)
           next == ToSet(plan')
<1>0. plan # <<>> /\ plan' = Tail(plan) /\ plan \in Seq(StepsOf(phase)) /\ phase' = "leaving"
  BY DEF Advances, GraphicsInv, GraphicsTypeOK
<1>1. next \subseteq left /\ \A s \in left : s = Head(plan) \/ s \in next
  BY <1>0, TailSet
<1>2. /\ InOrder(plan) /\ \A o \in alive : End(o) \in left
      /\ (spare # 0 \/ Do("forget", Pool) \in left) => Do("destroy", Pool) \in left
      /\ bound # <<>> => Do("unmodel", Device) \in left
      /\ work # Idle => Do("wait", Device) \in left
  BY DEF GraphicsInv, ReleaseEndsAll
<1>3. \A k \in DOMAIN plan' : k \in Nat /\ k + 1 \in DOMAIN plan /\ plan'[k] = plan[k + 1]
  BY <1>0, TailFacts
<1>4. InOrder(plan')
  <2> SUFFICES ASSUME NEW j \in DOMAIN plan', NEW k \in DOMAIN plan', j < k
               PROVE  Rank(plan'[j]) <= Rank(plan'[k])
    BY DEF InOrder
  <2>1. j + 1 < k + 1
    BY <1>3
  <2> QED BY <2>1, <1>2, <1>3 DEF InOrder
<1>5. \A s \in next : Rank(Head(plan)) <= Rank(s)
  <2> SUFFICES ASSUME NEW k \in DOMAIN plan' PROVE Rank(Head(plan)) <= Rank(plan'[k])
    BY DEF ToSet
  <2>1. 1 < k + 1 /\ Head(plan) = plan[1] /\ 1 \in DOMAIN plan
    <3>1. DOMAIN plan' = 1 .. Len(plan) - 1 /\ Len(plan) \in Nat
      BY <1>0, TailFacts
    <3> QED BY <3>1, <1>0, TailFacts
  <2> QED BY <2>1, <1>2, <1>3 DEF InOrder
<1>6. Rank(Do("forget", Pool)) = 7 /\ Rank(Do("destroy", Pool)) = 9
  BY DEF Rank, Do, Pool
<1> HIDE DEF left, next
<1>7. \A o \in alive' : End(o) \in next
  BY <1>1, <1>2
<1>8. (spare' # 0 \/ Do("forget", Pool) \in next) => Do("destroy", Pool) \in next
  <2> SUFFICES ASSUME spare' # 0 \/ Do("forget", Pool) \in next PROVE Do("destroy", Pool) \in next
    OBVIOUS
  <2>1. spare # 0 \/ Do("forget", Pool) \in left
    <3>1. Head(plan) = Do("forget", Pool) => Do("forget", Pool) \in left
      BY <1>0, TailSet DEF left
    <3> QED BY <3>1, <1>1
  <2>2. Head(plan) # Do("destroy", Pool)
    BY <1>5, <1>6
  <2> QED BY <2>1, <2>2, <1>1, <1>2
<1>9. bound' # <<>> => Do("unmodel", Device) \in next
  BY <1>1, <1>2
<1>10. work' # Idle => Do("wait", Device) \in next
  BY <1>1, <1>2
<1> QED BY <1>0, <1>4, <1>7, <1>8, <1>9, <1>10 DEF ReleaseEndsAll, next, Idle, InOrder

(* What the running function may have for its next step.                   *)
LEMMA StepShapes ==
    ASSUME GraphicsInv, plan # <<>>
    PROVE  LET s == Head(plan)
           IN  /\ phase \in {"init", "loop", "leaving"}
               /\ s.do = "create" =>
                     /\ phase \in {"init", "loop"} /\ s.what \in Handles \ Images
                     /\ phase = "loop" => s.what \in Syncs \cup Tails \cup {Renderer, Views, Swapchain}
               /\ s.do = "destroy" =>
                     /\ s = Do("destroy", s.what) /\ phase \in {"loop", "leaving"}
                     /\ phase = "loop" => s.what \in Syncs \cup {Views, Swapchain}
                     /\ phase = "leaving" => s.what \in Handles \ (Images \cup Tails \cup {Renderer})
               /\ s.do = "forget" => s = Do("forget", Pool) /\ phase \in {"loop", "leaving"}
               /\ s.do = "wait" => s = Do("wait", Device)
               /\ s.do = "upload" => phase \in {"init", "loop"}
               /\ s.do \in {"pick", "check", "begin"} => phase = "init"
               /\ s.do = "unmodel" => s = Do("unmodel", Device)
               /\ s.do = "assets" => phase \in {"init", "loop"} /\ s.what \in Models
               /\ s.do = "texture" => phase \in {"init", "loop"} /\ s.what \in Files
               /\ s.do = "untexture" => s = Do("untexture", Device) /\ phase = "leaving"
               /\ s.do = "end" => phase = "leaving"
<1> DEFINE s == Head(plan)
<1>1. s \in StepsOf(phase)
  BY TailFacts DEF GraphicsInv, GraphicsTypeOK
<1>2. Renderer \in Handles \ Images
  BY DEF Handles, Renderer, Images, Image
<1>3. CASE phase = "init"
  <2>1. s \in BootSteps
    BY <1>1, <1>3 DEF StepsOf
  <2> HIDE DEF s
  <2>2. CASE s \in LoadSteps
    BY <1>2, <1>3, <2>2 DEF LoadSteps, Doing, Do, s
  <2>3. CASE s \notin LoadSteps
    BY <1>2, <1>3, <2>1, <2>3 DEF BootSteps, Doing, Do, s
  <2> QED BY <2>2, <2>3
<1>4. CASE phase = "loop"
  <2>1. s \in LoopSteps
    BY <1>1, <1>4 DEF StepsOf
  <2>0. Syncs \cup Tails \cup {Renderer, Views, Swapchain} \subseteq Handles \ Images
    BY DEF Handles, Drawn, Syncs, Sync, Tails, Tail_, Images, Image, Renderer, Views, Swapchain
  <2> HIDE DEF s
  <2>2. CASE s \in LoadSteps
    BY <1>2, <1>4, <2>2 DEF LoadSteps, Doing, Do, s
  <2>3. CASE s \notin LoadSteps
    BY <2>0, <1>4, <2>1, <2>3 DEF LoopSteps, Doing, Do, s
  <2> QED BY <2>2, <2>3
<1>5. CASE phase = "leaving"
  <2>1. s \in LeaveSteps
    BY <1>1, <1>5 DEF StepsOf
  <2> HIDE DEF s
  <2> QED BY <1>5, <2>1 DEF LeaveSteps, Doing, Do, s
<1>6. phase \in {"init", "loop", "leaving"}
  BY <1>1 DEF StepsOf
<1> QED BY <1>3, <1>4, <1>5, <1>6

LEMMA NotAnImage ==
    ASSUME NEW file
    PROVE  /\ Image(file) \notin Fixed \cup Syncs \cup Tails \cup Buffers \cup Memories
           /\ Parent(Image(file)) = Device
           /\ \A other : Image(other) = Image(file) => other = file
BY DEF Fixed, Syncs, Tails, Buffers, Memories, Sync, Tail_, Buffer, Memory, Image, Parent,
       Instance, Surface, Device, Views, Swapchain, Pool, Renderer, Messenger

LEMMA UndoneIsABuffer ==
    ASSUME NEW o \in Handles
    PROVE  /\ Undone(o) \subseteq Buffers
           /\ o[1] # "memory" => Undone(o) = {}
<1>1. CASE o \in Memories
  BY <1>1 DEF Memories, Memory, Undone, Buffers
<1>2. CASE o \notin Memories
  <2>1. o[1] # "memory"
    BY <1>2, HandleKinds DEF Fixed, Syncs, Tails, Buffers, Images, Sync, Tail_, Buffer, Image,
       Instance, Surface, Device, Views, Swapchain, Pool, Renderer, Messenger
  <2> QED BY <2>1 DEF Undone
<1> QED BY <1>1, <1>2

LEMMA Distinct ==
    /\ \A o \in Buffers : o \notin {Instance, Swapchain, Pool, Device} /\ o \notin Images
    /\ \A o \in Syncs \cup Tails \cup {Renderer, Views} :
           o \notin {Instance, Swapchain, Pool, Device} /\ o \notin Images \cup Buffers
    /\ \A o \in Syncs \cup Tails \cup {Renderer, Views, Swapchain} : o[1] # "memory"
    /\ \A o \in Syncs \cup {Renderer, Views, Swapchain, Pool} : o \notin Tails
    /\ Swapchain \notin Buffers \cup Images
    /\ Drawn \cap (Images \cup {Renderer, Views}) = {}
BY DEF Drawn, Syncs, Tails, Buffers, Images, Sync, Tail_, Buffer, Image,
       Instance, Device, Views, Swapchain, Pool, Renderer

LEMMA CreateKeeps == ASSUME GraphicsInv, CreateStep PROVE GraphicsInv'
<1>0. /\ Advances /\ plan # <<>> /\ plan' = Tail(plan) /\ Head(plan).do = "create"
      /\ UNCHANGED <<phase, spare, work, slot, outOfDate, model, cache, bound>>
  BY DEF CreateStep, Busy, Advances
<1>1. /\ phase \in {"init", "loop"} /\ What \in Handles \ Images
      /\ phase = "loop" => What \in Syncs \cup Tails \cup {Renderer, Views, Swapchain}
  BY <1>0, StepShapes DEF What
<1>2. \/ alive' = alive \cup {What} /\ (What = Instance \/ Parent(What) \in alive)
      \/ alive' = alive \ Undone(What)
      \/ alive' = alive
  BY DEF CreateStep
<1>3. /\ phase = "loop" => What[1] # "memory"
      /\ Undone(What) \subseteq Buffers /\ (What[1] # "memory" => Undone(What) = {})
  BY <1>1, Distinct, UndoneIsABuffer
<1>4. What[1] # "memory" => alive \subseteq alive'
  BY <1>2, <1>3
<1>5. alive \subseteq Handles /\ alive' \subseteq Handles
  BY <1>1, <1>2 DEF GraphicsInv, GraphicsTypeOK
<1>6. GraphicsTypeOK'
  <2>1. \A file \in Files : Image(file) \in alive' <=> file \in ToSet(cache)
    <3>1. \A o \in Images : o \in alive' <=> o \in alive
      BY <1>1, <1>2, <1>3, Distinct
    <3> QED BY <3>1 DEF Images, GraphicsInv, GraphicsTypeOK
  <2> QED BY <1>0, <1>5, <2>1, PlanAdvances DEF GraphicsInv, GraphicsTypeOK
<1>7. ObjectsOutliveTheirUse'
  <2>1. \A o \in alive' : Parent(o) \in alive'
    <3> SUFFICES ASSUME NEW o \in alive' PROVE Parent(o) \in alive'
      OBVIOUS
    <3>1. Parent(o) \in {Instance, Swapchain, Pool, Device}
      BY <1>5, ParentOf
    <3>2. Parent(o) \in alive \/ (o = What /\ What = Instance)
      BY <1>2 DEF GraphicsInv, ObjectsOutliveTheirUse, NothingOutlivesItsParent
    <3>3. CASE Parent(o) \in alive
      BY <3>1, <3>3, <1>2, <1>3, Distinct
    <3>4. CASE o = What /\ What = Instance
      BY <3>4 DEF Parent, Instance
    <3> QED BY <3>2, <3>3, <3>4
  <2>2. \A f \in FrameSlots : work'[f] \subseteq alive'
    <3>1. CASE phase = "init"
      BY <3>1, <1>0 DEF GraphicsInv, RingIsChecked, Idle
    <3>2. CASE phase = "loop"
      BY <3>2, <1>0, <1>3, <1>4 DEF GraphicsInv, ObjectsOutliveTheirUse, InUseIsAlive
    <3> QED BY <3>1, <3>2, <1>1
  <2>3. \A n \in DOMAIN bound : Image(bound[n]) \in alive'
    <3>1. \A n \in DOMAIN bound : Image(bound[n]) \in alive /\ Image(bound[n]) \notin Buffers
      BY NotAnImage DEF GraphicsInv, ObjectsOutliveTheirUse, SampledIsAlive
    <3> QED BY <3>1, <1>2, <1>3
  <2> QED BY <1>0, <1>1, <2>1, <2>2, <2>3
      DEF ObjectsOutliveTheirUse, NothingOutlivesItsParent, InUseIsAlive, SampledIsAlive
<1>8. RingIsChecked'
  <2>1. phase = "init" => work' = Idle
    BY <1>0 DEF GraphicsInv, RingIsChecked
  <2>2. Buffers \subseteq alive /\ ~TouchesRing(Head(plan)) => Buffers \subseteq alive'
    BY <1>0, <1>4 DEF TouchesRing, What
  <2> QED BY <1>0, <2>1, <2>2, RingAdvances
<1>9. LoopDestroysInOrder'
  <2>1. phase = "loop" => work' \in {work, Idle} /\ Buffers \subseteq alive'
    BY <1>0, <1>3, <1>4 DEF GraphicsInv, LoopDestroysInOrder
  <2>2. Head(plan).do # "wait" /\ Head(plan) # Do("destroy", Views)
    BY <1>0 DEF Do
  <2> QED BY <1>0, <2>1, <2>2, LoopAdvances
<1>10. ReleaseEndsAll'
  BY <1>0, <1>1 DEF ReleaseEndsAll
<1> QED BY <1>6, <1>7, <1>8, <1>9, <1>10 DEF GraphicsInv

LEMMA HeadIsFirst ==
    ASSUME GraphicsInv, phase = "leaving", plan # <<>>
    PROVE  \A s \in ToSet(plan) : Rank(Head(plan)) <= Rank(s)
<1>1. InOrder(plan) /\ plan \in Seq(StepsOf(phase))
  BY DEF GraphicsInv, ReleaseEndsAll, GraphicsTypeOK
<1>2. 1 \in DOMAIN plan /\ Head(plan) = plan[1] /\ DOMAIN plan = 1 .. Len(plan)
  BY <1>1, TailFacts
<1> SUFFICES ASSUME NEW k \in DOMAIN plan PROVE Rank(plan[1]) <= Rank(plan[k])
  BY <1>2 DEF ToSet
<1>3. k = 1 \/ 1 < k
  BY <1>2
<1> QED BY <1>1, <1>2, <1>3, RanksAreNumbers DEF InOrder

(* Nothing is submitted any more when something is destroyed.              *)
LEMMA DestroysWhenIdle ==
    ASSUME GraphicsInv, plan # <<>>, Head(plan).do \in {"destroy", "forget"}
    PROVE  work = Idle
<1>1. phase \in {"loop", "leaving"}
  BY StepShapes
<1>2. CASE phase = "loop"
  <2>1. plan \in Seq(StepsOf(phase))
    BY DEF GraphicsInv, GraphicsTypeOK
  <2>2. 1 \in DOMAIN plan /\ Head(plan) = plan[1]
    BY <2>1, TailFacts
  <2>3. work = Idle \/ \E j \in 1 .. 1 - 1 : plan[j].do = "wait"
    BY <2>2, <1>2 DEF GraphicsInv, LoopDestroysInOrder
  <2> QED BY <2>3
<1>3. CASE phase = "leaving"
  <2>1. work # Idle => Do("wait", Device) \in ToSet(plan)
    BY <1>3 DEF GraphicsInv, ReleaseEndsAll
  <2>2. Rank(Do("wait", Device)) = 2
    BY DEF Rank, Do
  <2>3. Rank(Head(plan)) > 2
    <3>1. Head(plan).do \notin {"unmodel", "untexture", "wait", "end"}
      OBVIOUS
    <3> QED BY <3>1 DEF Rank
  <2>4. Do("wait", Device) \in ToSet(plan) => Rank(Head(plan)) <= 2
    BY <1>3, <2>2, HeadIsFirst
  <2>5. Rank(Head(plan)) \in Int
    BY RanksAreNumbers
  <2> QED BY <2>1, <2>3, <2>4, <2>5
<1> QED BY <1>1, <1>2, <1>3

LEMMA DestroyKeeps == ASSUME GraphicsInv, DestroyStep PROVE GraphicsInv'
<1>0. /\ Advances /\ plan # <<>> /\ plan' = Tail(plan) /\ Head(plan).do = "destroy"
      /\ UNCHANGED <<phase, work, slot, outOfDate, model, cache, bound>>
      /\ alive' = alive \ ({What} \cup IF What = Pool THEN Tails ELSE {})
      /\ spare' = IF What = Pool THEN 0 ELSE spare
  BY DEF DestroyStep, Busy, Advances
<1>1. /\ Head(plan) = Do("destroy", What) /\ phase \in {"loop", "leaving"}
      /\ phase = "loop" => What \in Syncs \cup {Views, Swapchain}
      /\ phase = "leaving" => What \in Handles \ (Images \cup Tails \cup {Renderer})
  BY <1>0, StepShapes DEF What
<1>2. work = Idle /\ work' = Idle
  BY <1>0, DestroysWhenIdle
<1>3. alive' \subseteq alive /\ alive \subseteq Handles /\ What \notin alive'
  BY <1>0 DEF GraphicsInv, GraphicsTypeOK
<1>4. phase = "loop" => What # Pool /\ What \notin Buffers \cup Images
  BY <1>1, Distinct DEF Syncs, Sync, Views, Swapchain, Pool
<1>5. Tails \cap Images = {} /\ What \notin Images
  BY <1>1, <1>4, Distinct
<1>6. GraphicsTypeOK'
  <2>1. \A file \in Files : Image(file) \in alive' <=> file \in ToSet(cache)
    <3>1. \A o \in Images : o \in alive' <=> o \in alive
      BY <1>0, <1>5
    <3> QED BY <3>1 DEF Images, GraphicsInv, GraphicsTypeOK
  <2> QED BY <1>0, <1>3, <2>1, PlanAdvances DEF GraphicsInv, GraphicsTypeOK
<1>7. \A o \in alive' : Parent(o) \in alive'
  <2> SUFFICES ASSUME NEW o \in alive' PROVE Parent(o) \in alive'
    OBVIOUS
  <2>1. /\ o \in alive /\ o \in Handles /\ Parent(o) \in alive
        /\ Parent(o) \in {Instance, Swapchain, Pool, Device}
        /\ Parent(o) = Swapchain => o = Views
    BY <1>3, ParentOf DEF GraphicsInv, ObjectsOutliveTheirUse, NothingOutlivesItsParent
  <2>2. Parent(o) \notin Tails
    BY <2>1 DEF Tails, Tail_, Instance, Swapchain, Pool, Device
  <2>3. Parent(o) # What
    <3>1. CASE phase = "loop"
      <4>1. CASE What = Swapchain
        <5>1. plan \in Seq(StepsOf(phase))
          BY DEF GraphicsInv, GraphicsTypeOK
        <5>2. 1 \in DOMAIN plan /\ Head(plan) = plan[1]
          BY <5>1, <1>0, TailFacts
        <5>3. Views \notin alive
          BY <5>2, <1>1, <3>1, <4>1 DEF GraphicsInv, LoopDestroysInOrder
        <5> QED BY <5>3, <2>1, <4>1
      <4>2. CASE What # Swapchain
        BY <4>2, <3>1, <1>1, <2>1, Distinct
      <4> QED BY <4>1, <4>2
    <3>2. CASE phase = "leaving"
      <4> SUFFICES ASSUME Parent(o) = What PROVE FALSE
        OBVIOUS
      <4>1. o # Instance
        BY <1>3 DEF Parent, Instance
      <4>2. Rank(End(o)) < Rank(Head(plan)) /\ End(o) \in ToSet(plan)
        BY <4>1, <2>1, <1>1, <3>2, EndsFirst DEF GraphicsInv, ReleaseEndsAll
      <4> QED BY <4>2, <3>2, <1>0, HeadIsFirst, RanksAreNumbers
    <3> QED BY <3>1, <3>2, <1>1
  <2> QED BY <2>1, <2>2, <2>3, <1>0
<1>8. ObjectsOutliveTheirUse'
  <2>1. \A f \in FrameSlots : work'[f] \subseteq alive'
    BY <1>2 DEF Idle
  <2>2. \A n \in DOMAIN bound : Image(bound[n]) \in alive'
    <3>1. \A n \in DOMAIN bound : Image(bound[n]) \in alive /\ Image(bound[n]) \in Images
      BY DEF GraphicsInv, GraphicsTypeOK, ObjectsOutliveTheirUse, SampledIsAlive, Images
    <3> QED BY <3>1, <1>0, <1>5
  <2> QED BY <1>0, <1>1, <1>7, <2>1, <2>2
      DEF ObjectsOutliveTheirUse, NothingOutlivesItsParent, InUseIsAlive, SampledIsAlive
<1>9. RingIsChecked'
  BY <1>0, <1>1 DEF RingIsChecked
<1>10. LoopDestroysInOrder'
  <2>1. phase = "loop" => work' \in {work, Idle} /\ Buffers \subseteq alive'
    <3>1. phase = "loop" => Buffers \subseteq alive
      BY DEF GraphicsInv, LoopDestroysInOrder
    <3> QED BY <3>1, <1>0, <1>2, <1>4
  <2>2. Head(plan).do # "wait"
    BY <1>0
  <2>3. Head(plan) = Do("destroy", Views) => Views \notin alive'
    <3>1. Head(plan) = Do("destroy", Views) => What = Views
      BY DEF Do, What
    <3> QED BY <3>1, <1>3
  <2> QED BY <1>0, <2>1, <2>2, <2>3, LoopAdvances
<1>11. ReleaseEndsAll'
  <2>1. ASSUME NEW o \in alive' PROVE End(o) # Head(plan)
    <3>1. End(o).do = "destroy" => End(o) = Do("destroy", o)
      BY DEF End, Do
    <3>2. Do("destroy", o).what = o
      BY DEF Do
    <3> QED BY <3>1, <3>2, <1>0, <1>3 DEF What
  <2>2. Head(plan) # Do("forget", Pool) /\ Head(plan) # Do("unmodel", Device) /\ Head(plan) # Do("wait", Device)
    BY <1>0 DEF Do
  <2>3. Head(plan) = Do("destroy", Pool) => spare' = 0
    <3>1. Head(plan) = Do("destroy", Pool) => What = Pool
      BY DEF Do, What
    <3> QED BY <3>1, <1>0
  <2>4. spare' # 0 => spare # 0
    BY <1>0
  <2> QED BY <1>0, <1>2, <1>3, <2>1, <2>2, <2>3, <2>4, ReleaseAdvances
<1> QED BY <1>6, <1>8, <1>9, <1>10, <1>11 DEF GraphicsInv

LEMMA ForgetKeeps == ASSUME GraphicsInv, ForgetStep PROVE GraphicsInv'
<1>0. /\ Advances /\ plan # <<>> /\ plan' = Tail(plan) /\ Head(plan).do = "forget"
      /\ UNCHANGED <<phase, work, slot, outOfDate, model, cache, bound>>
      /\ alive' = alive \ Tails
  BY DEF ForgetStep, Busy, Advances
<1>1. Head(plan) = Do("forget", Pool) /\ phase \in {"loop", "leaving"}
  BY <1>0, StepShapes
<1>2. work = Idle /\ work' = Idle
  BY <1>0, DestroysWhenIdle
<1>3. alive' \subseteq alive /\ alive \subseteq Handles
  BY <1>0 DEF GraphicsInv, GraphicsTypeOK
<1>5. Tails \cap Images = {} /\ Tails \cap Buffers = {}
  BY Distinct
<1>6. GraphicsTypeOK'
  <2>1. \A file \in Files : Image(file) \in alive' <=> file \in ToSet(cache)
    <3>1. \A o \in Images : o \in alive' <=> o \in alive
      BY <1>0, <1>5
    <3> QED BY <3>1 DEF Images, GraphicsInv, GraphicsTypeOK
  <2> QED BY <1>0, <1>3, <2>1, PlanAdvances DEF GraphicsInv, GraphicsTypeOK
<1>7. \A o \in alive' : Parent(o) \in alive'
  <2> SUFFICES ASSUME NEW o \in alive' PROVE Parent(o) \in alive'
    OBVIOUS
  <2>1. /\ Parent(o) \in alive /\ Parent(o) \in {Instance, Swapchain, Pool, Device}
    BY <1>3, ParentOf DEF GraphicsInv, ObjectsOutliveTheirUse, NothingOutlivesItsParent
  <2>2. Parent(o) \notin Tails
    BY <2>1 DEF Tails, Tail_, Instance, Swapchain, Pool, Device
  <2> QED BY <2>1, <2>2, <1>0
<1>8. ObjectsOutliveTheirUse'
  <2>1. \A f \in FrameSlots : work'[f] \subseteq alive'
    BY <1>2 DEF Idle
  <2>2. \A n \in DOMAIN bound : Image(bound[n]) \in alive'
    <3>1. \A n \in DOMAIN bound : Image(bound[n]) \in alive /\ Image(bound[n]) \in Images
      BY DEF GraphicsInv, GraphicsTypeOK, ObjectsOutliveTheirUse, SampledIsAlive, Images
    <3> QED BY <3>1, <1>0, <1>5
  <2> QED BY <1>0, <1>1, <1>7, <2>1, <2>2
      DEF ObjectsOutliveTheirUse, NothingOutlivesItsParent, InUseIsAlive, SampledIsAlive
<1>9. RingIsChecked'
  BY <1>0, <1>1 DEF RingIsChecked
<1>10. LoopDestroysInOrder'
  <2>1. phase = "loop" => work' \in {work, Idle} /\ Buffers \subseteq alive'
    BY <1>0, <1>2, <1>5 DEF GraphicsInv, LoopDestroysInOrder
  <2>2. Head(plan).do # "wait" /\ Head(plan) # Do("destroy", Views)
    BY <1>0 DEF Do
  <2> QED BY <1>0, <2>1, <2>2, LoopAdvances
<1>11. ReleaseEndsAll'
  <2>1. ASSUME NEW o \in alive' PROVE End(o) # Head(plan)
    <3>1. o \notin Tails
      BY <1>0
    <3>2. End(o).do # "forget"
      BY <3>1 DEF End, Do
    <3> QED BY <3>2, <1>0
  <2>2. Head(plan) # Do("destroy", Pool) /\ Head(plan) # Do("unmodel", Device) /\ Head(plan) # Do("wait", Device)
    BY <1>0 DEF Do
  <2> QED BY <1>0, <1>1, <1>2, <1>3, <2>1, <2>2, ReleaseAdvances
<1> QED BY <1>6, <1>8, <1>9, <1>10, <1>11 DEF GraphicsInv

(* A step that destroys and submits nothing.                               *)
LEMMA HarmlessKeeps ==
    ASSUME GraphicsInv, Advances, UNCHANGED <<spare, slot, outOfDate>>,
           work' = work \/ work' = Idle, alive \subseteq alive' \/ phase = "leaving",
           GraphicsTypeOK', \A o \in alive' : Parent(o) \in alive',
           \A f \in FrameSlots : work[f] \subseteq alive', SampledIsAlive',
           Head(plan).do = "check" => Buffers \subseteq alive',
           Head(plan).do = "wait" => work' = Idle,
           Head(plan).do # "destroy", Head(plan).do # "forget",
           phase = "leaving" =>
              /\ \A o \in alive' : o \in alive /\ End(o) # Head(plan)
              /\ bound' # <<>> => bound # <<>> /\ Head(plan).do # "unmodel"
    PROVE  GraphicsInv'
<1>0. plan # <<>> /\ plan' = Tail(plan) /\ phase' = phase /\ phase \in {"init", "loop", "leaving"}
  BY StepShapes DEF Advances
<1>1. ObjectsOutliveTheirUse'
  <2>1. \A f \in FrameSlots : work'[f] \subseteq alive'
    BY DEF Idle
  <2> QED BY <1>0, <2>1 DEF ObjectsOutliveTheirUse, NothingOutlivesItsParent, InUseIsAlive
<1>2. RingIsChecked'
  <2>1. phase = "init" => work' = Idle
    BY DEF GraphicsInv, RingIsChecked
  <2>2. phase # "leaving" /\ Buffers \subseteq alive => Buffers \subseteq alive'
    OBVIOUS
  <2>3. CASE phase = "init"
    BY <2>1, <2>2, <2>3, RingAdvances
  <2>4. CASE phase # "init"
    BY <2>4, <1>0 DEF RingIsChecked
  <2> QED BY <2>3, <2>4
<1>3. LoopDestroysInOrder'
  <2>1. phase = "loop" => work' \in {work, Idle} /\ Buffers \subseteq alive'
    BY DEF GraphicsInv, LoopDestroysInOrder
  <2>2. Head(plan) # Do("destroy", Views)
    BY DEF Do
  <2> QED BY <2>1, <2>2, LoopAdvances
<1>4. ReleaseEndsAll'
  <2>1. Head(plan) # Do("destroy", Pool)
    BY DEF Do
  <2>2. /\ Head(plan) = Do("wait", Device) => Head(plan).do = "wait"
        /\ Head(plan) = Do("unmodel", Device) => Head(plan).do = "unmodel"
    BY DEF Do
  <2>3. work' # Idle => work # Idle /\ Head(plan) # Do("wait", Device)
    BY <2>2
  <2> QED BY <2>1, <2>2, <2>3, ReleaseAdvances
<1> QED BY <1>1, <1>2, <1>3, <1>4 DEF GraphicsInv

(* The actions that leave the objects alone.                               *)
LEMMA EndIsEarlier == \A o : End(o).do \notin {"wait", "pick", "check", "upload", "begin", "end"}
BY DEF End, Do

LEMMA SameObjects ==
    ASSUME GraphicsInv, UNCHANGED <<alive, bound>>
    PROVE  /\ \A o \in alive' : Parent(o) \in alive'
           /\ \A f \in FrameSlots : work[f] \subseteq alive'
           /\ SampledIsAlive'
BY DEF GraphicsInv, ObjectsOutliveTheirUse, NothingOutlivesItsParent, InUseIsAlive, SampledIsAlive

LEMMA WaitKeeps == ASSUME GraphicsInv, WaitStep PROVE GraphicsInv'
<1>0. /\ Advances /\ plan # <<>> /\ plan' = Tail(plan) /\ Head(plan).do \in {"wait", "upload"} /\ work' = Idle
      /\ UNCHANGED <<phase, alive, spare, slot, outOfDate, model, cache, bound>>
  BY DEF WaitStep, Busy, Advances
<1>1. GraphicsTypeOK'
  <2>1. work' \in [FrameSlots -> SUBSET Drawn]
    BY <1>0 DEF Idle
  <2> QED BY <1>0, <2>1, PlanAdvances DEF GraphicsInv, GraphicsTypeOK
<1>2. \A o \in alive' : o \in alive /\ End(o) # Head(plan)
  BY <1>0, EndIsEarlier
<1> QED BY <1>0, <1>1, <1>2, SameObjects, HarmlessKeeps

LEMMA CheckedKeeps == ASSUME GraphicsInv, Checked PROVE GraphicsInv'
<1>0. /\ Advances /\ plan # <<>> /\ plan' = Tail(plan) /\ Head(plan).do \in {"pick", "check"}
      /\ UNCHANGED <<phase, alive, spare, work, slot, outOfDate, model, cache, bound>>
      /\ Head(plan).do = "check" => Buffers \subseteq alive'
  BY DEF Checked, Busy, Advances, Buffers
<1>1. GraphicsTypeOK'
  BY <1>0, PlanAdvances DEF GraphicsInv, GraphicsTypeOK
<1>2. \A o \in alive' : o \in alive /\ End(o) # Head(plan)
  BY <1>0, EndIsEarlier
<1> QED BY <1>0, <1>1, <1>2, SameObjects, HarmlessKeeps

LEMMA UnmodelKeeps == ASSUME GraphicsInv, UnmodelStep PROVE GraphicsInv'
<1>0. /\ Advances /\ plan # <<>> /\ plan' = Tail(plan) /\ Head(plan).do = "unmodel"
      /\ alive' = alive \ {Renderer} /\ bound' = <<>>
      /\ UNCHANGED <<phase, spare, work, slot, outOfDate, cache>>
  BY DEF UnmodelStep, Busy, Advances
<1>1. alive \subseteq Handles /\ Renderer \notin Images \cup Buffers \cup Drawn
  BY Distinct DEF GraphicsInv, GraphicsTypeOK
<1>2. \A o \in alive' : Parent(o) \in alive'
  <2>1. \A o \in alive' : Parent(o) \in alive /\ Parent(o) # Renderer
    BY <1>0, <1>1, ParentOf, Distinct DEF GraphicsInv, ObjectsOutliveTheirUse, NothingOutlivesItsParent
  <2> QED BY <1>0, <2>1
<1>3. \A f \in FrameSlots : work[f] \subseteq alive'
  <2>1. \A f \in FrameSlots : work[f] \subseteq alive /\ work[f] \subseteq Drawn
    BY DEF GraphicsInv, GraphicsTypeOK, ObjectsOutliveTheirUse, InUseIsAlive
  <2> QED BY <1>0, <1>1, <2>1
<1>4. GraphicsTypeOK'
  <2>1. \A file \in Files : Image(file) \in alive' <=> file \in ToSet(cache)
    <3>1. \A o \in Images : o \in alive' <=> o \in alive
      BY <1>0, <1>1
    <3> QED BY <3>1 DEF Images, GraphicsInv, GraphicsTypeOK
  <2>2. bound' \in Seq(Files) /\ alive' \subseteq Handles
    BY <1>0, <1>1
  <2> QED BY <1>0, <2>1, <2>2, PlanAdvances DEF GraphicsInv, GraphicsTypeOK
<1>5. SampledIsAlive'
  BY <1>0 DEF SampledIsAlive
<1>6. ASSUME NEW o \in alive' PROVE o \in alive /\ End(o) # Head(plan)
  <2>1. o # Renderer /\ o \in alive
    BY <1>0
  <2>2. End(o).do # "unmodel"
    BY <2>1 DEF End, Do
  <2> QED BY <1>0, <2>1, <2>2
<1>7. RingIsChecked'
  <2>1. phase = "init" => work' = Idle
    BY <1>0 DEF GraphicsInv, RingIsChecked
  <2>2. Buffers \subseteq alive => Buffers \subseteq alive'
    BY <1>0, <1>1
  <2> QED BY <1>0, <2>1, <2>2, RingAdvances
<1>8. LoopDestroysInOrder'
  <2>1. phase = "loop" => work' \in {work, Idle} /\ Buffers \subseteq alive'
    BY <1>0, <1>1 DEF GraphicsInv, LoopDestroysInOrder
  <2>2. Head(plan) # Do("destroy", Views) /\ Head(plan).do # "wait"
    BY <1>0 DEF Do
  <2> QED BY <1>0, <2>1, <2>2, LoopAdvances
<1>9. ReleaseEndsAll'
  <2>1. Head(plan) # Do("destroy", Pool) /\ Head(plan) # Do("wait", Device)
    BY <1>0 DEF Do
  <2> QED BY <1>0, <1>6, <2>1, ReleaseAdvances
<1>10. ObjectsOutliveTheirUse'
  <2>1. phase' # "released"
    BY <1>0, StepShapes
  <2> QED BY <1>0, <1>2, <1>3, <1>5, <2>1
      DEF ObjectsOutliveTheirUse, NothingOutlivesItsParent, InUseIsAlive
<1> QED BY <1>4, <1>7, <1>8, <1>9, <1>10 DEF GraphicsInv

LEMMA AppendSet ==
    ASSUME NEW S, NEW q \in Seq(S), NEW e \in S
    PROVE  /\ Append(q, e) \in Seq(S) /\ ToSet(Append(q, e)) = ToSet(q) \cup {e}
           /\ \A k \in DOMAIN Append(q, e) :
                 (k \in DOMAIN q /\ Append(q, e)[k] = q[k]) \/ Append(q, e)[k] = e
<1>1. /\ Append(q, e) \in Seq(S) /\ DOMAIN q = 1 .. Len(q) /\ DOMAIN Append(q, e) = 1 .. Len(q) + 1
      /\ Len(q) \in Nat
  OBVIOUS
<1>2. (\A k \in 1 .. Len(q) : Append(q, e)[k] = q[k]) /\ Append(q, e)[Len(q) + 1] = e
  BY <1>1
<1>3. ToSet(Append(q, e)) = ToSet(q) \cup {e}
  BY <1>1, <1>2 DEF ToSet
<1>4. \A k \in 1 .. Len(q) + 1 : k \in 1 .. Len(q) \/ k = Len(q) + 1
  BY <1>1
<1> QED BY <1>1, <1>2, <1>3, <1>4

LEMMA TextureKeeps == ASSUME GraphicsInv, TextureStep PROVE GraphicsInv'
<1>0. /\ Advances /\ plan # <<>> /\ plan' = Tail(plan) /\ Head(plan).do = "texture"
      /\ UNCHANGED <<phase, spare, slot, outOfDate, model>>
  BY DEF TextureStep, Busy, Advances
<1>1. phase \in {"init", "loop"} /\ What \in Files
  BY <1>0, StepShapes DEF What
<1>2. \/ /\ What \in ToSet(cache) /\ bound' = Append(bound, What) /\ UNCHANGED <<alive, cache, work>>
      \/ UNCHANGED <<bound, alive, cache, work>>
      \/ /\ Pool \in alive /\ alive' = alive \cup {Image(What)} /\ work' = Idle
         /\ cache' = Append(cache, What) /\ bound' = Append(bound, What)
  BY DEF TextureStep, Uploaded
<1>3. /\ alive \subseteq Handles /\ Images \subseteq Handles /\ cache \in Seq(Files) /\ bound \in Seq(Files)
      /\ work \in [FrameSlots -> SUBSET Drawn] /\ slot \in FrameSlots
      /\ \A file \in Files : Image(file) \in alive <=> file \in ToSet(cache)
  BY DEF GraphicsInv, GraphicsTypeOK, Handles
<1>4. alive \subseteq alive' /\ alive' \subseteq Handles /\ (work' = work \/ work' = Idle)
  BY <1>1, <1>2, <1>3 DEF Images
<1>5. GraphicsTypeOK'
  <2>1. work' \in [FrameSlots -> SUBSET Drawn]
    BY <1>3, <1>4 DEF Idle
  <2>2. cache' \in Seq(Files) /\ bound' \in Seq(Files)
    <3>1. Append(cache, What) \in Seq(Files) /\ Append(bound, What) \in Seq(Files)
      BY <1>1, <1>3
    <3> QED BY <3>1, <1>2, <1>3
  <2>3. \A file \in Files : Image(file) \in alive' <=> file \in ToSet(cache')
    <3>1. CASE UNCHANGED <<alive, cache>>
      BY <3>1, <1>3
    <3>2. CASE alive' = alive \cup {Image(What)} /\ cache' = Append(cache, What)
      <4>1. ToSet(cache') = ToSet(cache) \cup {What}
        BY <3>2, <1>1, <1>3, AppendSet
      <4>2. \A file \in Files : Image(file) = Image(What) => file = What
        BY NotAnImage
      <4> QED BY <3>2, <4>1, <4>2, <1>3
    <3> QED BY <3>1, <3>2, <1>2
  <2> QED BY <1>0, <1>3, <1>4, <2>1, <2>2, <2>3, PlanAdvances DEF GraphicsInv, GraphicsTypeOK
<1>6. \A o \in alive' : Parent(o) \in alive'
  <2>1. \A o \in alive : Parent(o) \in alive
    BY DEF GraphicsInv, ObjectsOutliveTheirUse, NothingOutlivesItsParent
  <2>2. Parent(Image(What)) = Device /\ Parent(Pool) = Device
    BY NotAnImage DEF Parent, Pool
  <2> QED BY <2>1, <2>2, <1>2
<1>7. \A f \in FrameSlots : work[f] \subseteq alive'
  BY <1>4 DEF GraphicsInv, ObjectsOutliveTheirUse, InUseIsAlive
<1>8. SampledIsAlive'
  <2> SUFFICES ASSUME NEW n \in DOMAIN bound' PROVE Image(bound'[n]) \in alive'
    BY DEF SampledIsAlive
  <2>1. \A k \in DOMAIN bound : Image(bound[k]) \in alive'
    BY <1>4 DEF GraphicsInv, ObjectsOutliveTheirUse, SampledIsAlive
  <2>2. bound' = Append(bound, What) => Image(What) \in alive'
    BY <1>1, <1>2, <1>3
  <2>3. CASE bound' = bound
    BY <2>1, <2>3
  <2>4. CASE bound' = Append(bound, What)
    <3>1. (n \in DOMAIN bound /\ bound'[n] = bound[n]) \/ bound'[n] = What
      BY <2>4, <1>1, <1>3, AppendSet
    <3> QED BY <3>1, <2>1, <2>2, <2>4
  <2> QED BY <2>3, <2>4, <1>2
<1> QED BY <1>0, <1>1, <1>4, <1>5, <1>6, <1>7, <1>8, HarmlessKeeps

LEMMA UntextureKeeps == ASSUME GraphicsInv, UntextureStep PROVE GraphicsInv'
<1>0. /\ Advances /\ plan # <<>> /\ plan' = Tail(plan) /\ Head(plan).do = "untexture"
      /\ UNCHANGED <<phase, spare, work, slot, outOfDate, model, bound>>
      /\ alive' = alive \ {Image(f) : f \in ToSet(cache)} /\ cache' = <<>>
  BY DEF UntextureStep, Busy, Advances
<1>1. phase = "leaving" /\ Head(plan) = Do("untexture", Device)
  BY <1>0, StepShapes
<1>2. bound = <<>>
  <2>1. bound # <<>> => Do("unmodel", Device) \in ToSet(plan)
    BY <1>1 DEF GraphicsInv, ReleaseEndsAll
  <2>2. Rank(Do("unmodel", Device)) = 0 /\ Rank(Do("untexture", Device)) = 1
    BY DEF Rank, Do
  <2>3. Do("unmodel", Device) \in ToSet(plan) => 1 <= 0
    BY <1>0, <1>1, <2>2, HeadIsFirst
  <2> QED BY <2>1, <2>3
<1>3. alive \subseteq Handles /\ \A file \in Files : Image(file) \in alive <=> file \in ToSet(cache)
  BY DEF GraphicsInv, GraphicsTypeOK
<1>4. alive' = alive \ Images
  <2>1. cache \in Seq(Files)
    BY DEF GraphicsInv, GraphicsTypeOK
  <2>2. ToSet(cache) \subseteq Files
    BY <2>1, ElementOf DEF ToSet
  <2>3. {Image(f) : f \in ToSet(cache)} \subseteq Images
    BY <2>2 DEF Images
  <2>4. alive \cap Images \subseteq {Image(f) : f \in ToSet(cache)}
    BY <1>3 DEF Images
  <2> QED BY <1>0, <2>3, <2>4
<1>5. GraphicsTypeOK'
  <2>1. \A file \in Files : Image(file) \notin alive' /\ file \notin ToSet(cache')
    BY <1>0, <1>4 DEF Images, ToSet
  <2>2. cache' \in Seq(Files) /\ alive' \subseteq Handles
    BY <1>0, <1>3
  <2> QED BY <1>0, <2>1, <2>2, PlanAdvances DEF GraphicsInv, GraphicsTypeOK
<1>6. \A o \in alive' : Parent(o) \in alive'
  <2> SUFFICES ASSUME NEW o \in alive' PROVE Parent(o) \in alive'
    OBVIOUS
  <2>1. Parent(o) \in alive /\ Parent(o) \in {Instance, Swapchain, Pool, Device}
    BY <1>3, <1>4, ParentOf DEF GraphicsInv, ObjectsOutliveTheirUse, NothingOutlivesItsParent
  <2>2. Parent(o) \notin Images
    BY <2>1 DEF Images, Image, Instance, Swapchain, Pool, Device
  <2> QED BY <2>1, <2>2, <1>4
<1>7. \A f \in FrameSlots : work[f] \subseteq alive'
  <2>1. \A f \in FrameSlots : work[f] \subseteq alive /\ work[f] \subseteq Drawn
    BY DEF GraphicsInv, GraphicsTypeOK, ObjectsOutliveTheirUse, InUseIsAlive
  <2> QED BY <1>4, <2>1, Distinct
<1>8. SampledIsAlive'
  BY <1>0, <1>2 DEF SampledIsAlive
<1>9. ASSUME NEW o \in alive' PROVE o \in alive /\ End(o) # Head(plan)
  <2>1. o \notin Images /\ o \in alive
    BY <1>4
  <2>2. End(o).do # "untexture"
    BY <2>1 DEF End, Do
  <2> QED BY <1>0, <2>1, <2>2
<1> QED BY <1>0, <1>1, <1>2, <1>5, <1>6, <1>7, <1>8, <1>9, HarmlessKeeps

LEMMA BeginOrEndKeeps == ASSUME GraphicsInv, BeginOrEnd PROVE GraphicsInv'
<1>0. /\ plan # <<>> /\ plan' = Tail(plan)
      /\ \/ Head(plan).do = "begin" /\ phase' = "loop"
         \/ Head(plan).do = "end" /\ phase' = "released"
      /\ UNCHANGED <<alive, spare, work, slot, outOfDate, model, cache, bound>>
  BY DEF BeginOrEnd, Busy
<1>1. plan' = <<>> /\ plan \in Seq(StepsOf(phase))
  BY <1>0, PlanAdvances
<1>2. /\ Head(plan) = plan[1] /\ DOMAIN plan = {1}
  <2>1. /\ Head(plan) = plan[1] /\ DOMAIN plan = 1 .. Len(plan) /\ Len(plan) - 1 = Len(Tail(plan))
        /\ Len(plan) \in Nat
    BY <1>0, <1>1, TailFacts
  <2>2. Len(Tail(plan)) = 0
    <3>1. Tail(plan) = <<>> /\ Len(<<>>) = 0
      BY <1>0, <1>1
    <3> QED BY <3>1
  <2>3. Len(plan) = 1
    BY <2>1, <2>2
  <2> QED BY <2>1, <2>3
<1>3. DOMAIN plan' = {} /\ plan' \in Seq(StepsOf(phase'))
  BY <1>1
<1>4. GraphicsTypeOK'
  BY <1>0, <1>3 DEF GraphicsInv, GraphicsTypeOK
<1>5. ObjectsOutliveTheirUse'
  <2>1. ASSUME phase' = "released" PROVE alive' = {} /\ spare' = 0
    <3>1. Head(plan).do = "end" /\ phase = "leaving"
      BY <1>0, <2>1, StepShapes
    <3>2. \A s \in ToSet(plan) : s.do = "end"
      BY <1>2, <3>1 DEF ToSet
    <3>3. \A o \in alive : End(o) \in ToSet(plan)
      BY <3>1 DEF GraphicsInv, ReleaseEndsAll
    <3>4. alive = {}
      BY <3>2, <3>3, EndIsEarlier
    <3>5. spare # 0 => Do("destroy", Pool) \in ToSet(plan)
      BY <3>1 DEF GraphicsInv, ReleaseEndsAll
    <3>6. Do("destroy", Pool).do # "end"
      BY DEF Do
    <3> QED BY <1>0, <3>2, <3>4, <3>5, <3>6
  <2>2. \A f \in FrameSlots : work'[f] \subseteq alive'
    BY <1>0 DEF GraphicsInv, ObjectsOutliveTheirUse, InUseIsAlive
  <2> QED BY <1>0, <2>1, <2>2, SameObjects DEF ObjectsOutliveTheirUse, NothingOutlivesItsParent, InUseIsAlive
<1>6. LoopDestroysInOrder'
  <2>1. ASSUME phase' = "loop" PROVE Buffers \subseteq alive'
    <3>1. Head(plan).do = "begin" /\ phase = "init"
      BY <1>0, <2>1, StepShapes
    <3>2. \A k \in DOMAIN plan : plan[k].do # "check"
      BY <1>2, <3>1
    <3> QED BY <1>0, <3>1, <3>2 DEF GraphicsInv, RingIsChecked
  <2> QED BY <2>1, <1>3 DEF LoopDestroysInOrder
<1>7. RingIsChecked' /\ ReleaseEndsAll'
  BY <1>0 DEF RingIsChecked, ReleaseEndsAll
<1> QED BY <1>4, <1>5, <1>6, <1>7 DEF GraphicsInv

LEMMA AssetsKeep == ASSUME GraphicsInv, AssetsStep PROVE GraphicsInv'
<1> DEFINE head == IF HasMoc[What] THEN CreateRenderer \o SetupTextures(What) ELSE <<>>
           rest == Tail(plan)
           Quiet == Doing("create", {Renderer}) \cup Doing("texture", Files)
           n == Len(head)
<1>0. /\ plan # <<>> /\ Head(plan).do = "assets" /\ plan' = head \o rest
      /\ UNCHANGED <<phase, alive, spare, work, slot, outOfDate, cache, bound>>
  BY DEF AssetsStep
<1>1. phase \in {"init", "loop"} /\ What \in Models /\ plan \in Seq(StepsOf(phase))
  BY <1>0, StepShapes DEF What, GraphicsInv, GraphicsTypeOK
<1>2. head \in Seq(Quiet)
  <2>1. CreateRenderer \o SetupTextures(What) \in Seq(Quiet)
    BY <1>1, TextureSteps
  <2> QED BY <2>1
<1>3. Quiet \subseteq StepsOf(phase)
  <2>1. Quiet \subseteq LoadSteps
    BY DEF LoadSteps
  <2> QED BY <2>1, <1>1 DEF StepsOf, BootSteps, LoopSteps
<1>4. \A s \in Quiet : ~TouchesRing(s) /\ s.do \in {"create", "texture"}
  <2>1. Renderer[1] # "memory"
    BY DEF Renderer
  <2> QED BY <2>1 DEF TouchesRing, Doing, Do
<1> HIDE DEF head, Quiet
<1>5. /\ head \in Seq(StepsOf(phase)) /\ rest \in Seq(StepsOf(phase)) /\ plan' \in Seq(StepsOf(phase))
  <2>1. head \in Seq(StepsOf(phase))
    BY <1>2, <1>3, SeqMonotone
  <2>2. rest \in Seq(StepsOf(phase))
    BY <1>0, <1>1, TailFacts
  <2> QED BY <2>1, <2>2, <1>0, ConcatFacts
<1> HIDE DEF rest
<1>6. /\ n \in Nat /\ DOMAIN head = 1 .. n /\ DOMAIN rest = 1 .. Len(rest) /\ Len(rest) \in Nat
      /\ DOMAIN plan' = 1 .. n + Len(rest) /\ Len(plan') = n + Len(rest)
  BY <1>0, <1>5, ConcatFacts
<1>7. /\ Head(plan) = plan[1] /\ DOMAIN plan = 1 .. Len(rest) + 1 /\ Len(plan) = Len(rest) + 1
      /\ \A k \in DOMAIN rest : rest[k] = plan[k + 1]
  <2>1. /\ Head(plan) = plan[1] /\ DOMAIN plan = 1 .. Len(plan) /\ Len(rest) = Len(plan) - 1 /\ Len(plan) \in Nat
        /\ \A k \in DOMAIN rest : rest[k] = plan[k + 1]
    BY <1>0, <1>1, TailFacts DEF rest
  <2>2. Len(plan) = Len(rest) + 1
    BY <2>1, <1>6
  <2> QED BY <2>1, <2>2
\* The rest moves from k + 1 to k + n.
<1>8. \A k \in 1 .. Len(rest) : plan'[n + k] = plan[k + 1]
  <2>1. \A k \in DOMAIN rest : (head \o rest)[Len(head) + k] = rest[k]
    BY <1>5, ConcatFacts
  <2> QED BY <2>1, <1>0, <1>6, <1>7
<1>9. \A k \in 1 .. n : ~TouchesRing(plan'[k]) /\ plan'[k].do \in {"create", "texture"}
  <2>1. \A k \in 1 .. n : plan'[k] = head[k]
    BY <1>0, <1>5, <1>6, ConcatFacts
  <2> QED BY <2>1, <1>2, <1>4, <1>6, ElementOf
<1>10. \A k \in DOMAIN plan' :
           \/ k \in 1 .. n
           \/ /\ k - n \in 1 .. Len(rest) /\ (k - n) + 1 \in DOMAIN plan /\ n + (k - n) = k
              /\ plan'[k] = plan[(k - n) + 1]
  <2> HIDE DEF n
  <2>1. ASSUME NEW k \in 1 .. n + Len(rest), k \notin 1 .. n
        PROVE  k - n \in 1 .. Len(rest) /\ (k - n) + 1 \in 1 .. Len(rest) + 1 /\ n + (k - n) = k
    BY <1>6, <2>1
  <2>2. ASSUME NEW k \in 1 .. n + Len(rest), k \notin 1 .. n
        PROVE  plan'[n + (k - n)] = plan[(k - n) + 1]
    BY <2>1, <2>2, <1>8
  <2>3. ASSUME NEW k \in 1 .. n + Len(rest), k \notin 1 .. n PROVE plan'[k] = plan[(k - n) + 1]
    <3>1. n + (k - n) = k
      BY <2>1, <2>3
    <3>2. plan'[n + (k - n)] = plan[(k - n) + 1]
      BY <2>2, <2>3
    <3> QED BY <3>1, <3>2
  <2>4. DOMAIN plan' = 1 .. n + Len(rest) /\ DOMAIN plan = 1 .. Len(rest) + 1
    BY <1>6, <1>7
  <2> QED BY <2>1, <2>3, <2>4
<1> HIDE DEF n
<1>11. /\ n \in Nat /\ Len(rest) \in Nat /\ DOMAIN plan' = 1 .. n + Len(rest) /\ Len(plan') = n + Len(rest)
  BY <1>6
<1>12. GraphicsTypeOK'
  <2>1. ASSUME NEW k \in DOMAIN plan', plan'[k].do \in {"begin", "end"} PROVE k = Len(plan')
    <3>1. k \notin 1 .. n
      BY <1>9, <2>1
    <3>2. (k - n) + 1 \in DOMAIN plan /\ plan[(k - n) + 1].do \in {"begin", "end"} /\ k \in Int
      BY <1>10, <1>11, <2>1, <3>1
    <3>3. (k - n) + 1 = Len(rest) + 1
      BY <1>7, <3>2 DEF GraphicsInv, GraphicsTypeOK
    <3> QED BY <1>11, <3>2, <3>3
  <2> QED BY <1>0, <1>5, <2>1 DEF GraphicsInv, GraphicsTypeOK
<1>13. ObjectsOutliveTheirUse'
  <2>1. \A f \in FrameSlots : work'[f] \subseteq alive'
    BY <1>0 DEF GraphicsInv, ObjectsOutliveTheirUse, InUseIsAlive
  <2>2. phase' # "released"
    BY <1>0, <1>1
  <2> QED BY <1>0, <2>1, <2>2, SameObjects DEF ObjectsOutliveTheirUse, NothingOutlivesItsParent, InUseIsAlive
<1>14. RingIsChecked'
  <2> SUFFICES ASSUME phase = "init"
               PROVE  /\ work = Idle
                      /\ \A j, k \in DOMAIN plan' : plan'[j].do = "check" /\ TouchesRing(plan'[k]) => k <= j
                      /\ \/ \E k \in DOMAIN plan' : plan'[k].do = "check"
                         \/ Buffers \subseteq alive /\ \A k \in DOMAIN plan' : ~TouchesRing(plan'[k])
    BY <1>0 DEF RingIsChecked, TouchesRing
  <2>1. work = Idle
    BY DEF GraphicsInv, RingIsChecked
  <2>2. \A j, k \in DOMAIN plan : plan[j].do = "check" /\ TouchesRing(plan[k]) => k <= j
    BY DEF GraphicsInv, RingIsChecked
  <2>3. ASSUME NEW j \in DOMAIN plan', NEW k \in DOMAIN plan', plan'[j].do = "check", TouchesRing(plan'[k])
        PROVE  k <= j
    <3>1. j \notin 1 .. n /\ k \notin 1 .. n
      BY <1>9, <2>3
    <3>2. /\ (k - n) + 1 \in DOMAIN plan /\ plan'[k] = plan[(k - n) + 1]
          /\ (j - n) + 1 \in DOMAIN plan /\ plan'[j] = plan[(j - n) + 1]
      BY <1>10, <3>1
    <3>3. (k - n) + 1 <= (j - n) + 1
      BY <2>2, <2>3, <3>2
    <3> QED BY <3>3, <1>11
  <2>4. CASE \E k \in DOMAIN plan : plan[k].do = "check"
    <3>1. PICK k \in DOMAIN plan : plan[k].do = "check"
      BY <2>4
    <3>2. k # 1
      BY <1>0, <1>7, <3>1
    <3>3. k - 1 \in 1 .. Len(rest) /\ (k - 1) + 1 = k /\ n + (k - 1) \in DOMAIN plan'
      BY <1>7, <1>11, <3>2
    <3>4. plan'[n + (k - 1)].do = "check"
      BY <1>8, <3>1, <3>3 DEF n
    <3> QED BY <2>1, <2>3, <3>3, <3>4
  <2>5. CASE Buffers \subseteq alive /\ \A k \in DOMAIN plan : ~TouchesRing(plan[k])
    <3>1. \A k \in DOMAIN plan' : ~TouchesRing(plan'[k])
      BY <1>9, <1>10, <2>5
    <3> QED BY <2>1, <2>3, <2>5, <3>1
  <2> QED BY <2>4, <2>5 DEF GraphicsInv, RingIsChecked
<1>15. LoopDestroysInOrder'
  <2> SUFFICES ASSUME phase = "loop"
               PROVE  /\ Buffers \subseteq alive
                      /\ \A k \in DOMAIN plan' : plan'[k].do \in {"destroy", "forget"} =>
                            work = Idle \/ \E j \in 1 .. k - 1 : plan'[j].do = "wait"
                      /\ \A k \in DOMAIN plan' : plan'[k] = Do("destroy", Swapchain) =>
                            IF k = 1 THEN Views \notin alive ELSE plan'[k - 1] = Do("destroy", Views)
    BY <1>0 DEF LoopDestroysInOrder, Idle
  <2>1. Buffers \subseteq alive
    BY DEF GraphicsInv, LoopDestroysInOrder
  <2>2. ASSUME NEW k \in DOMAIN plan', plan'[k].do \in {"destroy", "forget"}, work # Idle
        PROVE  \E j \in 1 .. k - 1 : plan'[j].do = "wait"
    <3>1. k \notin 1 .. n
      BY <1>9, <2>2
    <3>2. (k - n) + 1 \in DOMAIN plan /\ plan[(k - n) + 1].do \in {"destroy", "forget"}
      BY <1>10, <2>2, <3>1
    <3>3. PICK j \in 1 .. ((k - n) + 1) - 1 : plan[j].do = "wait"
      BY <2>2, <3>2 DEF GraphicsInv, LoopDestroysInOrder
    <3>4. j # 1
      BY <1>0, <1>7, <3>3
    <3>5. k \in Int /\ k - n \in 1 .. Len(rest)
      BY <1>10, <1>11, <3>1
    <3>6. j - 1 \in 1 .. Len(rest) /\ (j - 1) + 1 = j /\ n + (j - 1) \in 1 .. k - 1
      BY <1>11, <3>3, <3>4, <3>5
    <3>7. plan'[n + (j - 1)].do = "wait"
      BY <1>8, <3>3, <3>6 DEF n
    <3> QED BY <3>6, <3>7
  <2>3. ASSUME NEW k \in DOMAIN plan', plan'[k] = Do("destroy", Swapchain)
        PROVE  IF k = 1 THEN Views \notin alive ELSE plan'[k - 1] = Do("destroy", Views)
    <3>1. k \notin 1 .. n
      <4>1. plan'[k].do = "destroy"
        BY <2>3 DEF Do
      <4> QED BY <4>1, <1>9
    <3>2. /\ (k - n) + 1 \in DOMAIN plan /\ plan[(k - n) + 1] = Do("destroy", Swapchain)
          /\ k - n \in 1 .. Len(rest) /\ k \in Int
      BY <1>10, <1>11, <2>3, <3>1
    <3>3. (k - n) + 1 # 1 /\ ((k - n) + 1) - 1 = k - n
      BY <1>11, <3>2
    <3>4. plan[k - n] = Do("destroy", Views)
      BY <3>2, <3>3 DEF GraphicsInv, LoopDestroysInOrder
    <3>5. k - n # 1
      <4>1. Do("destroy", Views).do = "destroy"
        BY DEF Do
      <4> QED BY <4>1, <1>0, <1>7, <3>4
    <3>6. /\ (k - n) - 1 \in 1 .. Len(rest) /\ ((k - n) - 1) + 1 = k - n /\ n + ((k - n) - 1) = k - 1
          /\ k # 1
      BY <1>11, <3>2, <3>5
    <3>7. plan'[n + ((k - n) - 1)] = plan[((k - n) - 1) + 1]
      BY <1>8, <3>6 DEF n
    <3> QED BY <3>4, <3>6, <3>7
  <2> QED BY <2>1, <2>2, <2>3
<1>16. ReleaseEndsAll'
  BY <1>0, <1>1 DEF ReleaseEndsAll
<1> QED BY <1>12, <1>13, <1>14, <1>15, <1>16 DEF GraphicsInv

(* The process is over, with whatever it has.                              *)
LEMMA StopKeeps ==
    ASSUME GraphicsInv, phase' \in {"failed", "crashed"}, plan' = <<>>,
           UNCHANGED <<alive, spare, work, slot, cache, bound>>
    PROVE  GraphicsInv'
<1>1. DOMAIN plan' = {} /\ plan' \in Seq(StepsOf(phase'))
  OBVIOUS
<1>2. GraphicsTypeOK'
  BY <1>1 DEF GraphicsInv, GraphicsTypeOK
<1>3. \A f \in FrameSlots : work'[f] \subseteq alive'
  BY DEF GraphicsInv, ObjectsOutliveTheirUse, InUseIsAlive
<1>4. ObjectsOutliveTheirUse'
  BY <1>3, SameObjects DEF ObjectsOutliveTheirUse, NothingOutlivesItsParent, InUseIsAlive
<1>5. RingIsChecked' /\ LoopDestroysInOrder' /\ ReleaseEndsAll'
  BY DEF RingIsChecked, LoopDestroysInOrder, ReleaseEndsAll
<1> QED BY <1>2, <1>4, <1>5 DEF GraphicsInv

LEMMA Modulus == ASSUME NEW n \in Nat \ {0}, NEW k \in 1 .. n PROVE (k % n) + 1 \in 1 .. n
OBVIOUS

LEMMA DrawKeeps == ASSUME GraphicsInv, DrawModel PROVE GraphicsInv'
<1>0. /\ phase = "loop" /\ plan = <<>> /\ {Swapchain, Sync(slot)} \subseteq alive
      /\ UNCHANGED <<phase, plan, alive, spare, model, cache, bound, failures>>
      /\ slot' = IF work' # work THEN (slot % kFramesInFlight) + 1 ELSE slot
  BY DEF DrawModel, AtHead
<1>1. PICK r \in RingSlots, drawn \in BOOLEAN :
          work' = IF drawn /\ Tail_(slot) \in alive
                  THEN [Idle EXCEPT ![slot] = {Swapchain, Sync(slot), Tail_(slot), Buffer(r)}]
                  ELSE work
  BY DEF DrawModel
<1>2. slot \in FrameSlots /\ work \in [FrameSlots -> SUBSET Drawn]
  BY DEF GraphicsInv, GraphicsTypeOK
<1>3. slot' \in FrameSlots
  <2>1. kFramesInFlight \in Nat \ {0}
    BY LimitsAssumption
  <2> QED BY <2>1, <1>0, <1>2, Modulus DEF FrameSlots
<1> DEFINE used == IF Tail_(slot) \in alive THEN {Swapchain, Sync(slot), Tail_(slot), Buffer(r)}
                   ELSE {}
<1>4. used \subseteq Drawn /\ used \subseteq alive
  <2>1. Buffer(r) \in Buffers /\ Sync(slot) \in Syncs /\ Tail_(slot) \in Tails
    BY <1>2 DEF Buffers, Syncs, Tails
  <2>2. Buffers \subseteq alive
    BY <1>0 DEF GraphicsInv, LoopDestroysInOrder
  <2> QED BY <2>1, <2>2, <1>0 DEF Drawn
<1> HIDE DEF used
<1>5. \A f \in FrameSlots : work'[f] \in {work[f], {}, used}
  BY <1>1, <1>2 DEF Idle, used
<1>6. work' \in [FrameSlots -> SUBSET Drawn]
  BY <1>1, <1>2, <1>4 DEF Idle, used
<1>7. GraphicsTypeOK'
  BY <1>0, <1>3, <1>6 DEF GraphicsInv, GraphicsTypeOK
<1>8. \A f \in FrameSlots : work'[f] \subseteq alive'
  BY <1>0, <1>4, <1>5 DEF GraphicsInv, ObjectsOutliveTheirUse, InUseIsAlive
<1>9. ObjectsOutliveTheirUse'
  BY <1>0, <1>8, SameObjects DEF ObjectsOutliveTheirUse, NothingOutlivesItsParent, InUseIsAlive
<1>10. LoopDestroysInOrder'
  BY <1>0 DEF GraphicsInv, LoopDestroysInOrder
<1>11. RingIsChecked' /\ ReleaseEndsAll'
  BY <1>0 DEF RingIsChecked, ReleaseEndsAll
<1> QED BY <1>7, <1>9, <1>10, <1>11 DEF GraphicsInv

LEMMA FinishKeeps == ASSUME GraphicsInv, NEW f \in FrameSlots, GpuCompletes(f) PROVE GraphicsInv'
<1>0. /\ work' = [work EXCEPT ![f] = {}] /\ phase \in {"loop", "leaving"}
      /\ UNCHANGED <<phase, plan, alive, spare, slot, outOfDate, model, cache, bound, failures>>
  BY DEF GpuCompletes
<1>1. work \in [FrameSlots -> SUBSET Drawn]
  BY DEF GraphicsInv, GraphicsTypeOK
<1>2. work' \in [FrameSlots -> SUBSET Drawn] /\ \A g \in FrameSlots : work'[g] \subseteq work[g]
  BY <1>0, <1>1
<1>3. work = Idle => work' = Idle
  BY <1>0 DEF Idle
<1>4. GraphicsTypeOK'
  BY <1>0, <1>2 DEF GraphicsInv, GraphicsTypeOK
<1>5. \A g \in FrameSlots : work'[g] \subseteq alive'
  BY <1>0, <1>2 DEF GraphicsInv, ObjectsOutliveTheirUse, InUseIsAlive
<1>6. ObjectsOutliveTheirUse'
  BY <1>0, <1>5, SameObjects DEF ObjectsOutliveTheirUse, NothingOutlivesItsParent, InUseIsAlive
<1>7. LoopDestroysInOrder'
  BY <1>0, <1>3 DEF GraphicsInv, LoopDestroysInOrder, Idle
<1>8. RingIsChecked'
  BY <1>0 DEF RingIsChecked
<1>9. ReleaseEndsAll'
  BY <1>0, <1>3 DEF GraphicsInv, ReleaseEndsAll, Idle, InOrder
<1> QED BY <1>4, <1>6, <1>7, <1>8, <1>9 DEF GraphicsInv

(* The loop calls one of its functions.                                    *)
LEMMA CallKeeps ==
    ASSUME GraphicsInv, phase = "loop", phase' = "loop", plan' \in Seq(LoopSteps),
           UNCHANGED <<alive, spare, work, slot, outOfDate, model, cache, bound, failures>>,
           Adjacent(plan'), plan' # <<>>, Head(plan') = Do("wait", Device)
    PROVE  GraphicsInv'
<1>1. /\ DOMAIN plan' = 1 .. Len(plan') /\ Len(plan') \in Nat /\ plan'[1] = Do("wait", Device)
      /\ \A k \in DOMAIN plan' : plan'[k] \in LoopSteps
  BY TailFacts, ElementOf
<1>2. \A s \in LoopSteps : s.do \notin {"begin", "end"}
  BY DEF LoopSteps, LoadSteps, Doing, Do
<1>3. GraphicsTypeOK'
  BY <1>1, <1>2 DEF GraphicsInv, GraphicsTypeOK, StepsOf
<1>4. \A f \in FrameSlots : work'[f] \subseteq alive'
  BY DEF GraphicsInv, ObjectsOutliveTheirUse, InUseIsAlive
<1>5. ObjectsOutliveTheirUse'
  BY <1>4, SameObjects DEF ObjectsOutliveTheirUse, NothingOutlivesItsParent, InUseIsAlive
<1>6. LoopDestroysInOrder'
  <2>1. Buffers \subseteq alive'
    BY DEF GraphicsInv, LoopDestroysInOrder
  <2>2. ASSUME NEW k \in DOMAIN plan', plan'[k].do \in {"destroy", "forget"}
        PROVE  \E j \in 1 .. k - 1 : plan'[j].do = "wait"
    <3>1. plan'[1].do = "wait"
      BY <1>1 DEF Do
    <3>2. k # 1
      BY <3>1, <2>2
    <3>3. 1 \in 1 .. k - 1
      BY <3>2, <1>1
    <3> QED BY <3>1, <3>3
  <2> QED BY <2>1, <2>2 DEF LoopDestroysInOrder, Adjacent
<1>7. RingIsChecked' /\ ReleaseEndsAll'
  BY DEF RingIsChecked, ReleaseEndsAll
<1> QED BY <1>3, <1>5, <1>6, <1>7 DEF GraphicsInv

LEMMA RecreateKeeps == ASSUME GraphicsInv, BetweenFrames PROVE GraphicsInv'
<1>1. Recreation \subseteq LoopSteps
  BY DEF Recreation, LoopSteps, LoadSteps
<1>2. RebuildSwapchain \in Seq(LoopSteps)
  BY <1>1, RecreatePlan, SeqMonotone
<1> QED BY <1>2, RecreatePlan, CallKeeps DEF BetweenFrames, AtHead

LEMMA LoadKeeps == ASSUME GraphicsInv, NEW m \in Models, LoadCommand(m) PROVE GraphicsInv'
<1>1. LoadModel(m) \in Seq(LoopSteps)
  <2>1. LoadSteps \subseteq LoopSteps
    BY DEF LoopSteps
  <2> QED BY <2>1, LoadModelSteps, SeqMonotone
<1>2. Adjacent(LoadModel(m)) /\ LoadModel(m) # <<>> /\ Head(LoadModel(m)) = Do("wait", Device)
  <2>1. LoadModel(m) = <<Do("wait", Device), Do("unmodel", Device), Do("assets", m)>>
    BY LoadModelSteps
  <2>2. \A s \in {Do("wait", Device), Do("unmodel", Device), Do("assets", m)} : s # Do("destroy", Swapchain)
    BY DEF Do
  <2> QED BY <2>1, <2>2 DEF Adjacent
<1> QED BY <1>1, <1>2, CallKeeps DEF LoadCommand, AtHead

LEMMA LeaveKeeps == ASSUME GraphicsInv, LeaveLoop PROVE GraphicsInv'
<1>0. /\ phase = "loop" /\ phase' = "leaving" /\ plan' = Release
      /\ UNCHANGED <<alive, spare, work, slot, outOfDate, model, cache, bound, failures>>
  BY DEF LeaveLoop, AtHead
<1>1. GraphicsTypeOK'
  BY <1>0, ReleasePlan DEF GraphicsInv, GraphicsTypeOK, StepsOf, EndIsLast
<1>2. \A f \in FrameSlots : work'[f] \subseteq alive'
  BY <1>0 DEF GraphicsInv, ObjectsOutliveTheirUse, InUseIsAlive
<1>3. ObjectsOutliveTheirUse'
  BY <1>0, <1>2, SameObjects DEF ObjectsOutliveTheirUse, NothingOutlivesItsParent, InUseIsAlive
<1>4. ReleaseEndsAll'
  <2>1. \A o \in alive' : End(o) \in ToSet(Release)
    BY <1>0, ReleasePlan DEF GraphicsInv, GraphicsTypeOK
  <2>2. InOrder(plan')
    BY <1>0, ReleasePlan
  <2> QED BY <1>0, <2>1, <2>2, ReleasePlan DEF ReleaseEndsAll, InOrder
<1>5. RingIsChecked' /\ LoopDestroysInOrder'
  BY <1>0 DEF RingIsChecked, LoopDestroysInOrder
<1> QED BY <1>1, <1>3, <1>4, <1>5 DEF GraphicsInv

LEMMA GraphicsInductive == GraphicsInv /\ [GraphicsNext]_graphicsVars => GraphicsInv'
<1> SUFFICES ASSUME GraphicsInv, [GraphicsNext]_graphicsVars PROVE GraphicsInv'
  OBVIOUS
<1>1. CASE NoGpu
  BY <1>1, StopKeeps DEF NoGpu, GiveUp
<1>2. CASE NoRing
  BY <1>2, StopKeeps DEF NoRing, GiveUp
<1>3. CASE Crash
  BY <1>3, StopKeeps DEF Crash
<1>4. CASE DrawNothing
  BY <1>4, StopKeeps DEF DrawNothing, AtHead
<1>5. CASE UNCHANGED graphicsVars
  BY <1>5 DEF graphicsVars, GraphicsInv, GraphicsTypeOK, ObjectsOutliveTheirUse, NothingOutlivesItsParent,
       InUseIsAlive, SampledIsAlive, RingIsChecked, LoopDestroysInOrder, ReleaseEndsAll, InOrder, TouchesRing, Idle
<1> QED BY <1>1, <1>2, <1>3, <1>4, <1>5, CreateKeeps, DestroyKeeps, ForgetKeeps, WaitKeeps, CheckedKeeps,
         UnmodelKeeps, AssetsKeep, TextureKeeps, UntextureKeeps, BeginOrEndKeeps, DrawKeeps, RecreateKeeps,
         LeaveKeeps, LoadKeeps, FinishKeeps DEF GraphicsNext

(* From the instance to the end, whatever cannot be created, whenever the  *)
(* swapchain is recreated or the model exchanged: the inductive invariant. *)
THEOREM GraphicsInvHolds == GraphicsSpec => []GraphicsInv
<1>1. GraphicsInit => GraphicsInv
  BY Starts
<1>2. GraphicsInv /\ [GraphicsNext]_graphicsVars => GraphicsInv'
  BY GraphicsInductive
<1> QED BY <1>1, <1>2, PTL DEF GraphicsSpec

(* No object outlives its parent, and none is destroyed under a frame or a *)
(* model that uses it, for any number of frames in flight, ring slots,     *)
(* models and texture files.                                               *)
THEOREM ObjectsOutliveTheirUseHolds == GraphicsSpec => []ObjectsOutliveTheirUse
<1>1. GraphicsInv => ObjectsOutliveTheirUse
  BY DEF GraphicsInv
<1> QED BY <1>1, GraphicsInvHolds, PTL
=============================================================================
