--------------------------- MODULE BehaviourProofs ---------------------------
(***************************************************************************)
(* Proofs about the motion player and what the panel asks of it, for any   *)
(* models, packs, motions and priorities: no command leaves a reservation  *)
(* or a priority behind, and an idle motion interrupts nothing.            *)
(***************************************************************************)
EXTENDS Behaviour, TLAPS

Entries == [motion : Motions, fading : BOOLEAN]

LEMMA MotionKinds ==
    /\ PackIdle \subseteq Motions /\ IdleOnly \subseteq PackIdle
    /\ \A a \in DOMAIN PackMotions : PackMotions[a] \subseteq Motions /\ PackMotions[a] \cap IdleOnly = {}
    /\ ModelMotions \subseteq Motions /\ ModelMotions \cap IdleOnly = {}
BY BehaviourAssumption, MotionAssumption DEF Motions, IdleOnly

-----------------------------------------------------------------------------
(* The motion queue *)

LEMMA EmptyQueue == <<>> \in Seq([motion : Motions, fading : BOOLEAN])
OBVIOUS

\* What was queued fades out behind the new entry.
LEMMA StartedQueue ==
    ASSUME NEW q \in Seq(Entries), NEW motion \in Motions
    PROVE /\ Append(FadeOut(q), [motion |-> motion, fading |-> FALSE]) \in Seq(Entries)
          /\ Append(FadeOut(q), [motion |-> motion, fading |-> FALSE]) # <<>>
          /\ Last(Append(FadeOut(q), [motion |-> motion, fading |-> FALSE])).motion = motion
<1> DEFINE faded == FadeOut(q)
           new == [motion |-> motion, fading |-> FALSE]
<1>1. faded \in Seq(Entries)
  <2>1. \A k \in DOMAIN q : q[k] \in Entries
    OBVIOUS
  <2>2. \A e \in Entries : [e EXCEPT !.fading = TRUE] \in Entries
    BY DEF Entries
  <2>3. DOMAIN q = 1 .. Len(q) /\ Len(q) \in Nat
    OBVIOUS
  <2>4. faded \in [1 .. Len(q) -> Entries]
    BY <2>1, <2>2, <2>3 DEF FadeOut
  <2> QED
    BY <2>3, <2>4
<1>2. new \in Entries /\ new.motion = motion
  BY DEF Entries
<1> HIDE DEF faded, new
<1>3. Append(faded, new) \in Seq(Entries) /\ Append(faded, new) # <<>> /\ Last(Append(faded, new)) = new
  BY <1>1, <1>2 DEF Last
<1> QED
  BY <1>2, <1>3 DEF faded, new

LEMMA ShortenedQueue ==
    ASSUME NEW q \in Seq(Entries), NEW k \in DOMAIN q
    PROVE RemoveAt(q, k) \in Seq(Entries) /\ Len(RemoveAt(q, k)) = Len(q) - 1
<1>1. k \in 1 .. Len(q) /\ Len(q) \in Nat
  OBVIOUS
<1>2. /\ SubSeq(q, 1, k - 1) \in Seq(Entries) /\ Len(SubSeq(q, 1, k - 1)) = k - 1
      /\ SubSeq(q, k + 1, Len(q)) \in Seq(Entries) /\ Len(SubSeq(q, k + 1, Len(q))) = Len(q) - k
  BY <1>1
<1> DEFINE before == SubSeq(q, 1, k - 1)
           after == SubSeq(q, k + 1, Len(q))
<1>3. RemoveAt(q, k) = before \o after
  BY DEF RemoveAt
<1>4. before \in Seq(Entries) /\ after \in Seq(Entries) /\ Len(before) + Len(after) = Len(q) - 1
  <2>1. Len(before) = k - 1 /\ Len(after) = Len(q) - k
    BY <1>2
  <2> HIDE DEF before, after
  <2>2. Len(before) + Len(after) = Len(q) - 1
    BY <1>1, <2>1
  <2> QED
    BY <1>2, <2>2 DEF before, after
<1> HIDE DEF before, after
<1>5. before \o after \in Seq(Entries) /\ Len(before \o after) = Len(before) + Len(after)
  BY <1>4
<1> QED
  BY <1>3, <1>4, <1>5

\* What a start leaves: it is refused, or it is the last and the only one
\* that does not fade, at its priority and with nothing reserved.
LEMMA StartKeeps ==
    ASSUME PrioritiesAreBacked, queue # <<>> => current >= PriorityIdle,
           NEW motion \in Motions, NEW priority \in Nat \ {PriorityNone},
           motion \in IdleOnly => priority = PriorityIdle,
           PlayMotion(motion, priority)
    PROVE /\ PrioritiesAreBacked'
          /\ queue' # <<>> => current' >= PriorityIdle
          /\ queue' = queue \/ (Last(queue').motion \in IdleOnly => queue = <<>>)
<1> USE DEF PriorityNone, PriorityIdle, PriorityForce
<1>1. /\ PlayerTypeOK /\ reserve = 0 /\ queue \in Seq(Entries) /\ current \in Nat
      /\ queue = <<>> => current = 0 \/ stopped
  BY DEF PrioritiesAreBacked, PlayerTypeOK, Entries
<1>2. model' = model /\ context' \subseteq ModelMotions
  BY <1>1 DEF PlayMotion, PlayerTypeOK
<1>3. CASE UNCHANGED <<queue, current, stopped, reserve>> /\ lost' \in BOOLEAN
  BY <1>1, <1>2, <1>3 DEF PrioritiesAreBacked, PlayerTypeOK
<1>4. CASE /\ Accepted(priority) /\ StartMotionPriority(motion, priority, priority)
           /\ stopped' = FALSE /\ UNCHANGED lost
  <2>1. /\ reserve' = 0 /\ current' = priority
        /\ queue' = Append(FadeOut(queue), [motion |-> motion, fading |-> FALSE])
    BY <1>4 DEF StartMotionPriority
  <2>2. queue' \in Seq(Entries) /\ queue' # <<>> /\ Last(queue').motion = motion
    BY <1>1, <2>1, StartedQueue
  <2>3. PrioritiesAreBacked'
    BY <1>1, <1>2, <1>4, <2>1, <2>2 DEF PrioritiesAreBacked, PlayerTypeOK, Entries
  <2>4. motion \in IdleOnly => queue = <<>>
    BY <1>1, <1>4 DEF Accepted, ReserveMotion
  <2> QED
    BY <2>1, <2>2, <2>3, <2>4
<1> QED
  <2>1. \/ Refused(motion, priority) /\ UNCHANGED reserve
        \/ Start(motion, priority)
    BY DEF PlayMotion
  <2>2. Refused(motion, priority) => UNCHANGED <<queue, current, stopped>> /\ lost' \in BOOLEAN
    BY <1>1 DEF Refused, PlayerTypeOK
  <2> QED
    BY <1>3, <1>4, <2>1, <2>2 DEF Start

\* The end of the k-th motion, or its fading away.
LEMMA EndKeeps ==
    ASSUME PrioritiesAreBacked, queue # <<>> => current >= PriorityIdle,
           NEW k \in DOMAIN queue, Ends(k) \/ FadesAway(k)
    PROVE /\ PrioritiesAreBacked'
          /\ queue' # <<>> => current' >= PriorityIdle
          /\ Len(queue') < Len(queue)
<1>1. /\ PlayerTypeOK /\ queue \in Seq(Entries)
  BY DEF PrioritiesAreBacked, PlayerTypeOK, Entries
<1>2. /\ queue' = RemoveAt(queue, k) /\ current' = PriorityAfter(queue')
      /\ UNCHANGED <<model, reserve, stopped, lost>> /\ context' \subseteq context
  BY DEF Ends, FadesAway
<1>3. queue' \in Seq(Entries) /\ Len(queue') = Len(queue) - 1 /\ Len(queue) \in Nat
  BY <1>1, <1>2, ShortenedQueue
<1>4. queue # <<>>
  BY <1>1
<1>5. current' \in Nat /\ (queue' = <<>> => current' = PriorityNone) /\ (queue' # <<>> => current' = current)
  BY <1>1, <1>2 DEF PriorityAfter, PriorityNone, PlayerTypeOK
<1> QED
  BY <1>1, <1>2, <1>3, <1>4, <1>5 DEF PrioritiesAreBacked, PlayerTypeOK, Entries

-----------------------------------------------------------------------------
(* The commands under way *)

LEMMA PlayIsCommand ==
    ASSUME NEW motion \in Motions, NEW priority \in Nat \ {PriorityNone},
           motion \in IdleOnly => priority = PriorityIdle
    PROVE <<Play(motion, priority)>> \in Seq(Commands)
<1>1. Play(motion, priority) \in Commands
  BY DEF Play, Commands
<1> QED
  BY <1>1

LEMMA LoadIsCommand == \A name \in Models : <<Load(name)>> \in Seq(Commands)
<1>1. \A name \in Models : Load(name) \in Commands
  BY DEF Load, Commands
<1> QED
  BY <1>1

LEMMA SentKeeps ==
    ASSUME toRenderer \in Seq(Commands), NEW commands \in Seq(Commands)
    PROVE Sent(commands) \in Seq(Commands)
BY DEF Sent

\* The scheduler asks for motions it may interrupt nothing with.
LEMMA IdleCommandsAreIdle ==
    ASSUME LinkTypeOK, running
    PROVE IdleCommands \subseteq Seq(Commands)
<1>1. <<>> \in Seq(Commands)
  OBVIOUS
<1>2. \A m \in Motions : <<Play(m, IdlePriority)>> \in Seq(Commands)
  BY PlayIsCommand DEF IdlePriority, PriorityIdle, PriorityNone
<1>3. source # Pack => IdleOf[source] \in Motions
  BY BehaviourAssumption, MotionKinds DEF LinkTypeOK
<1> QED
  BY <1>1, <1>2, <1>3, MotionKinds DEF IdleCommands

LEMMA StartSchedulerKeeps ==
    ASSUME LinkTypeOK, NEW isLoaded, NEW m \in Models \cup {NoModel}, NEW isMounted,
           StartIdleScheduler(isLoaded, m, isMounted)
    PROVE running' /\ source' # Pack => source' \in Models /\ IdleOf[source'] # NoMotion
BY DEF StartIdleScheduler, HasSource, LinkTypeOK

LEMMA TailKeeps ==
    ASSUME NEW S, NEW q \in Seq(S), q # <<>>
    PROVE Head(q) \in S /\ Tail(q) \in Seq(S)
OBVIOUS

LEMMA EmitKeeps ==
    ASSUME toPanel \in Seq(Events), NEW event \in Events, Emit(event)
    PROVE toPanel' \in Seq(Events)
<1>1. Append(toPanel, event) \in Seq(Events)
  OBVIOUS
<1> QED
  BY <1>1 DEF Emit

LEMMA ReceiveHandles ==
    ASSUME LinkTypeOK, Receive
    PROVE (\E motion : HandleMotionFinished(motion)) \/ HandleModelLoaded
<1> DEFINE m == Head(toPanel)
<1>1. m \in Events
  BY TailKeeps DEF LinkTypeOK, Receive
<1>2. m.event = "finished" \/ (m.event = "loaded" /\ m.event # "finished")
  BY <1>1 DEF Events
<1>3. CASE m.event = "finished"
  BY <1>3 DEF Receive
<1>4. CASE m.event = "loaded" /\ m.event # "finished"
  BY <1>4 DEF Receive
<1> QED
  BY <1>2, <1>3, <1>4

\* A command is obeyed as what it is.
LEMMA ObeyHandles ==
    ASSUME LinkTypeOK, Obey
    PROVE /\ toRenderer' \in Seq(Commands)
          /\ \/ /\ \E motion \in Motions, priority \in Nat \ {PriorityNone} :
                        /\ motion \in IdleOnly => priority = PriorityIdle
                        /\ PlayMotion(motion, priority)
                /\ UNCHANGED toPanel
             \/ StopMotion /\ UNCHANGED toPanel
             \/ \E name \in Models : LoadModel(name) /\ Emit([event |-> "loaded"])
<1> DEFINE c == Head(toRenderer)
<1>1. c \in Commands /\ Tail(toRenderer) \in Seq(Commands) /\ toRenderer' = Tail(toRenderer)
  BY TailKeeps DEF LinkTypeOK, Obey
<1>2. \/ /\ c.cmd = "play" /\ c.motion \in Motions /\ c.priority \in Nat \ {PriorityNone}
         /\ c.motion \in IdleOnly => c.priority = PriorityIdle
      \/ c.cmd = "stop" /\ c.cmd # "play"
      \/ c.cmd = "load" /\ c.name \in Models /\ c.cmd # "play" /\ c.cmd # "stop"
  BY <1>1 DEF Commands, Stop
<1>3. CASE /\ c.cmd = "play" /\ c.motion \in Motions /\ c.priority \in Nat \ {PriorityNone}
           /\ c.motion \in IdleOnly => c.priority = PriorityIdle
  <2>1. PlayMotion(c.motion, c.priority) /\ UNCHANGED toPanel
    BY <1>3 DEF Obey
  <2> QED
    BY <1>1, <1>3, <2>1
<1>4. CASE c.cmd = "stop" /\ c.cmd # "play"
  BY <1>1, <1>4 DEF Obey
<1>5. CASE c.cmd = "load" /\ c.name \in Models /\ c.cmd # "play" /\ c.cmd # "stop"
  <2>1. LoadModel(c.name) /\ Emit([event |-> "loaded"])
    BY <1>5 DEF Obey
  <2> QED
    BY <1>1, <1>5, <2>1
<1> QED
  BY <1>2, <1>3, <1>4, <1>5

\* What a hit sends: nothing, or a motion that is not the idle scheduler's.
LEMMA HitKeeps ==
    ASSUME LinkTypeOK, NEW area \in Areas, HandleHit(area), lost \in BOOLEAN
    PROVE toRenderer' \in Seq(Commands) /\ lost' \in BOOLEAN
<1> USE DEF PriorityNone, PriorityIdle, PriorityNormal, PriorityForce
<1>1. toRenderer \in Seq(Commands)
  BY DEF LinkTypeOK
<1>2. \A p \in Nat : HitPriority(p) \in Nat \ {PriorityNone}
  BY DEF HitPriority
<1>3. CASE UNCHANGED <<toRenderer, paused, cooling, lost>>
  BY <1>1, <1>3
<1>4. CASE Decides(area) /\ MountedBehavior(area) /\ ~cooling
  <2>1. area \in DOMAIN PackMotions
    BY <1>4 DEF Decides, HasGroupForArea
  <2>2. PICK m \in PackMotions[area] : toRenderer' = Sent(<<Play(m, HitPriority(PackPriority))>>)
    BY <1>4 DEF MountedBehavior
  <2>3. m \in Motions /\ m \notin IdleOnly
    BY <2>1, MotionKinds
  <2>4. <<Play(m, HitPriority(PackPriority))>> \in Seq(Commands)
    BY <1>2, <2>3, PlayIsCommand, BehaviourAssumption
  <2> QED
    BY <1>1, <1>4, <2>2, <2>4, SentKeeps DEF MountedBehavior
<1>5. CASE InteractionFallback(area)
  <2>1. CASE area \in DOMAIN TapOf
    <3>1. TapOf[area] \in Motions /\ TapOf[area] \notin IdleOnly
      BY <2>1, MotionKinds, BehaviourAssumption
    <3>2. <<Play(TapOf[area], HitPriority(PriorityNormal))>> \in Seq(Commands)
      BY <1>2, <3>1, PlayIsCommand
    <3> QED
      BY <1>1, <1>5, <2>1, <3>2, SentKeeps DEF InteractionFallback
  <2> QED
    BY <1>1, <1>5, <2>1 DEF InteractionFallback
<1> QED
  BY <1>3, <1>4, <1>5 DEF HandleHit, MountedBehavior

-----------------------------------------------------------------------------
(* The steps *)

playerButLost == <<model, queue, context, current, reserve, stopped>>

\* A step that is not the player's.
LEMMA PanelStep ==
    ASSUME BehaviourInv, UNCHANGED playerButLost, lost' \in BOOLEAN, LinkTypeOK'
    PROVE BehaviourInv'
BY DEF BehaviourInv, PrioritiesAreBacked, PlayerTypeOK, playerButLost

LEMMA StepKeeps ==
    ASSUME BehaviourInv, [BehaviourNext]_behaviourVars
    PROVE /\ BehaviourInv'
          /\ Len(queue') > Len(queue) => (Last(queue').motion \in IdleOnly => queue = <<>>)
<1> DEFINE Quiet == UNCHANGED queue \/ Len(queue') < Len(queue)
<1>1. /\ PrioritiesAreBacked /\ LinkTypeOK /\ lost \in BOOLEAN
      /\ toRenderer \in Seq(Commands) /\ toPanel \in Seq(Events) /\ cfg \in Models /\ info \in Models \cup {NoModel}
      /\ queue # <<>> => current >= PriorityIdle
      /\ queue \in Seq(Entries)
  BY DEF BehaviourInv, PrioritiesAreBacked, LinkTypeOK, PlayerTypeOK, Entries
<1>2. Len(queue) \in Nat /\ queue \in Seq(Entries)
  BY <1>1
<1>3. CASE UNCHANGED behaviourVars
  <2>1. LinkTypeOK'
    BY <1>1, <1>3 DEF LinkTypeOK, behaviourVars, linkVars, panelVars
  <2> QED
    BY <1>1, <1>2, <1>3, <2>1, PanelStep DEF behaviourVars, playerVars, playerButLost
<1>4. CASE Timeout
  <2>1. /\ UNCHANGED <<playerVars, panelVars, toPanel>>
        /\ running /\ \E commands \in IdleCommands \cup {<<>>} : toRenderer' = Sent(commands)
    BY <1>4 DEF Timeout
  <2>2. toRenderer' \in Seq(Commands)
    <3>1. <<>> \in Seq(Commands)
      OBVIOUS
    <3>2. IdleCommands \subseteq Seq(Commands)
      BY <1>1, <2>1, IdleCommandsAreIdle
    <3>3. PICK commands \in Seq(Commands) : toRenderer' = Sent(commands)
      BY <2>1, <3>1, <3>2
    <3> QED
      BY <1>1, <3>3, SentKeeps
  <2>3. LinkTypeOK'
    BY <1>1, <2>1, <2>2 DEF LinkTypeOK, panelVars
  <2> QED
    BY <1>1, <1>2, <2>1, <2>3, PanelStep DEF playerVars, playerButLost
<1>5. CASE Receive
  <2>1. UNCHANGED playerButLost /\ cfg' = cfg /\ mounted' = mounted /\ queue' = queue
    BY <1>5 DEF Receive, playerButLost
  <2>0. toPanel' \in Seq(Events)
    BY <1>1, <1>5, TailKeeps DEF Receive
  <2>2. CASE \E motion : HandleMotionFinished(motion)
    <3>1. /\ UNCHANGED <<running, source, loaded, info>> /\ lost' \in BOOLEAN
          /\ toRenderer' = toRenderer \/ (running /\ \E commands \in IdleCommands : toRenderer' = Sent(commands))
      BY <1>1, <2>2 DEF HandleMotionFinished, Resumes
    <3>2. toRenderer' \in Seq(Commands)
      <4>1. CASE running /\ \E commands \in IdleCommands : toRenderer' = Sent(commands)
        BY <1>1, <4>1, IdleCommandsAreIdle, SentKeeps
      <4> QED
        BY <1>1, <3>1, <4>1
    <3>3. LinkTypeOK'
      BY <1>1, <2>1, <2>0, <3>1, <3>2 DEF LinkTypeOK
    <3> QED
      BY <1>2, <2>1, <3>1, <3>3, PanelStep
  <2>3. CASE HandleModelLoaded
    <3>1. /\ info' \in {cfg, info} /\ info' \in Models \cup {NoModel}
          /\ UNCHANGED toRenderer /\ StartIdleScheduler(TRUE, info', mounted)
      BY <1>1, <2>3 DEF HandleModelLoaded
    <3>2. lost' \in BOOLEAN
      BY <1>1, <3>1 DEF StartIdleScheduler
    <3>3. LinkTypeOK'
      <4>1. running' /\ source' # Pack => source' \in Models /\ IdleOf[source'] # NoMotion
        BY <1>1, <3>1, StartSchedulerKeeps
      <4> QED
        BY <1>1, <2>1, <2>0, <3>1, <4>1 DEF LinkTypeOK
    <3> QED
      BY <1>2, <2>1, <3>2, <3>3, PanelStep
  <2>4. (\E motion : HandleMotionFinished(motion)) \/ HandleModelLoaded
    BY <1>1, <1>5, ReceiveHandles
  <2> QED
    BY <2>2, <2>3, <2>4
<1>6. ASSUME NEW area \in Areas, Hit(area) PROVE BehaviourInv' /\ Quiet
  <2>1. UNCHANGED playerButLost /\ HandleHit(area) /\ UNCHANGED <<toPanel, cfg, running, source, info, queue>>
    BY <1>6 DEF Hit, playerButLost, HandleHit
  <2>2. toRenderer' \in Seq(Commands) /\ lost' \in BOOLEAN
    BY <1>1, <2>1, HitKeeps
  <2>3. LinkTypeOK'
    BY <1>1, <2>1, <2>2 DEF LinkTypeOK
  <2> QED
    BY <2>1, <2>2, <2>3, PanelStep
<1>7. CASE CooldownEnds
  <2>1. UNCHANGED playerButLost /\ UNCHANGED lost /\ LinkTypeOK' /\ queue' = queue
    BY <1>1, <1>7 DEF CooldownEnds, playerVars, linkVars, playerButLost, LinkTypeOK
  <2> QED
    BY <1>1, <2>1, PanelStep
<1>8. ASSUME NEW motion \in UserMotions, UserPlays(motion) PROVE BehaviourInv' /\ Quiet
  <2>1. UNCHANGED <<playerVars, toPanel, panelVars>> /\ toRenderer' = Sent(<<Play(motion, PriorityNormal)>>)
    BY <1>8 DEF UserPlays
  <2>2. motion \in Motions /\ motion \notin IdleOnly
    BY MotionKinds, BehaviourAssumption
  <2>3. <<Play(motion, PriorityNormal)>> \in Seq(Commands)
    BY <2>2, PlayIsCommand DEF PriorityNormal, PriorityNone
  <2>4. toRenderer' \in Seq(Commands)
    BY <1>1, <2>1, <2>3, SentKeeps
  <2>5. UNCHANGED playerButLost /\ UNCHANGED lost /\ LinkTypeOK' /\ queue' = queue
    BY <1>1, <2>1, <2>4 DEF playerVars, panelVars, playerButLost, LinkTypeOK
  <2> QED
    BY <1>1, <2>5, PanelStep
<1>9. CASE PluginStopsMotion
  <2>1. UNCHANGED <<playerVars, toPanel, panelVars>> /\ toRenderer' = Sent(<<Stop>>)
    BY <1>9 DEF PluginStopsMotion
  <2>2. <<Stop>> \in Seq(Commands)
    <3>1. Stop \in Commands
      BY DEF Commands
    <3> QED
      BY <3>1
  <2>3. toRenderer' \in Seq(Commands)
    BY <1>1, <2>1, <2>2, SentKeeps
  <2>4. UNCHANGED playerButLost /\ UNCHANGED lost /\ LinkTypeOK' /\ queue' = queue
    BY <1>1, <2>1, <2>3 DEF playerVars, panelVars, playerButLost, LinkTypeOK
  <2> QED
    BY <1>1, <2>4, PanelStep
<1>10. ASSUME NEW name \in Models, SwitchModel(name) PROVE BehaviourInv' /\ Quiet
  <2>1. /\ UNCHANGED <<playerVars, toPanel, running, source, info>>
        /\ cfg' = name /\ toRenderer' = Sent(<<Load(name)>>)
    BY <1>10 DEF SwitchModel
  <2>2. toRenderer' \in Seq(Commands)
    BY <1>1, <2>1, LoadIsCommand, SentKeeps
  <2>3. UNCHANGED playerButLost /\ UNCHANGED lost /\ LinkTypeOK' /\ queue' = queue
    BY <1>1, <2>1, <2>2 DEF playerVars, playerButLost, LinkTypeOK
  <2> QED
    BY <1>1, <2>3, PanelStep
<1>11. ASSUME NEW isMounted \in BOOLEAN, Mount(isMounted) PROVE BehaviourInv' /\ Quiet
  <2>1. /\ UNCHANGED playerButLost /\ UNCHANGED <<queue, toRenderer, toPanel, cfg, info>>
        /\ StartIdleScheduler(loaded, info, isMounted)
    BY <1>11 DEF Mount, linkVars, playerButLost
  <2>2. lost' \in BOOLEAN
    BY <1>1, <2>1 DEF StartIdleScheduler
  <2>3. LinkTypeOK'
    BY <1>1, <2>1, StartSchedulerKeeps DEF LinkTypeOK
  <2> QED
    BY <2>1, <2>2, <2>3, PanelStep
<1>12. CASE Ready
  <2>1. UNCHANGED <<playerVars, panelVars>> /\ toRenderer' = <<Load(cfg)>> /\ toPanel' = <<>>
    BY <1>12 DEF Ready
  <2>2. toRenderer' \in Seq(Commands) /\ toPanel' \in Seq(Events)
    BY <1>1, <2>1, LoadIsCommand
  <2>3. UNCHANGED playerButLost /\ UNCHANGED lost /\ LinkTypeOK' /\ queue' = queue
    BY <1>1, <2>1, <2>2 DEF playerVars, panelVars, playerButLost, LinkTypeOK
  <2> QED
    BY <1>1, <2>3, PanelStep
<1>13. CASE LinkDrops
  <2>1. UNCHANGED playerButLost /\ UNCHANGED panelVars /\ queue' = queue
    BY <1>13 DEF LinkDrops, playerButLost
  <2>2. lost' \in BOOLEAN /\ toRenderer' = <<>> /\ toPanel' = <<>>
    BY <1>13 DEF LinkDrops
  <2>3. LinkTypeOK'
    BY <1>1, <2>1, <2>2 DEF panelVars, LinkTypeOK
  <2> QED
    BY <2>1, <2>2, <2>3, PanelStep
<1>14. CASE StopSession
  <2>1. /\ toRenderer' = <<>> /\ toPanel' = <<>> /\ running' = FALSE /\ UNCHANGED <<cfg, info>>
        /\ model' = NoModel /\ queue' = <<>> /\ context' = {} /\ current' = PriorityNone
        /\ reserve' = PriorityNone /\ stopped' = FALSE /\ lost' = FALSE
    BY <1>14 DEF StopSession, RendererGone
  <2>2. LinkTypeOK'
    BY <1>1, <2>1 DEF LinkTypeOK
  <2>3. PlayerTypeOK'
    BY <2>1, EmptyQueue DEF PlayerTypeOK, PriorityNone
  <2> QED
    BY <1>2, <2>1, <2>2, <2>3 DEF BehaviourInv, PrioritiesAreBacked
<1>15. CASE RendererCrashes
  <2>1. /\ toRenderer' = <<>> /\ toPanel' = <<>> /\ UNCHANGED <<cfg, info, running, source>>
        /\ model' = NoModel /\ queue' = <<>> /\ context' = {} /\ current' = PriorityNone
        /\ reserve' = PriorityNone /\ stopped' = FALSE /\ lost' = TRUE
    BY <1>15 DEF RendererCrashes, RendererGone
  <2>2. LinkTypeOK'
    BY <1>1, <2>1 DEF LinkTypeOK
  <2>3. PlayerTypeOK'
    BY <2>1, EmptyQueue DEF PlayerTypeOK, PriorityNone
  <2> QED
    BY <1>2, <2>1, <2>2, <2>3 DEF BehaviourInv, PrioritiesAreBacked
<1>16. CASE Obey
  <2>1. UNCHANGED panelVars /\ toRenderer' \in Seq(Commands)
    BY <1>1, <1>16, ObeyHandles DEF Obey
  <2>2. ASSUME toPanel' \in Seq(Events) PROVE LinkTypeOK'
    BY <1>1, <2>1, <2>2 DEF LinkTypeOK, panelVars
  <2>3. CASE /\ \E motion \in Motions, priority \in Nat \ {PriorityNone} :
                   /\ motion \in IdleOnly => priority = PriorityIdle
                   /\ PlayMotion(motion, priority)
             /\ UNCHANGED toPanel
    <3>1. PICK motion \in Motions, priority \in Nat \ {PriorityNone} :
              (motion \in IdleOnly => priority = PriorityIdle) /\ PlayMotion(motion, priority)
      BY <2>3
    <3>2. /\ PrioritiesAreBacked'
          /\ queue' # <<>> => current' >= PriorityIdle
          /\ queue' = queue \/ (Last(queue').motion \in IdleOnly => queue = <<>>)
      BY <1>1, <3>1, StartKeeps
    <3> QED
      BY <1>1, <1>2, <2>2, <2>3, <3>2 DEF BehaviourInv, LinkTypeOK
  <2>4. CASE StopMotion /\ UNCHANGED toPanel
    <3>1. /\ UNCHANGED <<model, context, current, reserve>>
          /\ queue' = queue \/ (queue' = <<>> /\ stopped' = (stopped \/ queue # <<>>))
          /\ stopped' = (stopped \/ queue # <<>>) /\ lost' = (lost \/ queue # <<>>)
      BY <2>4 DEF StopMotion
    <3>2. PrioritiesAreBacked'
      BY <1>1, <3>1, EmptyQueue DEF PrioritiesAreBacked, PlayerTypeOK
    <3>3. queue' # <<>> => current' >= PriorityIdle
      BY <1>1, <3>1
    <3> QED
      BY <1>1, <1>2, <2>2, <2>4, <3>1, <3>2, <3>3 DEF BehaviourInv, LinkTypeOK
  <2>5. CASE \E name \in Models : LoadModel(name) /\ Emit([event |-> "loaded"])
    <3>1. PICK name \in Models : LoadModel(name) /\ Emit([event |-> "loaded"])
      BY <2>5
    <3>2. [event |-> "loaded"] \in Events
      BY DEF Events
    <3>3. LinkTypeOK'
      BY <1>1, <2>2, <3>1, <3>2, EmitKeeps DEF LinkTypeOK
    <3>4. PrioritiesAreBacked' /\ queue' = <<>>
      BY <1>1, <3>1, EmptyQueue DEF LoadModel, PrioritiesAreBacked, PlayerTypeOK, PriorityNone
    <3> QED
      BY <1>2, <3>3, <3>4 DEF BehaviourInv
  <2> QED
    BY <1>1, <1>16, <2>3, <2>4, <2>5, ObeyHandles
<1>17. ASSUME NEW k \in DOMAIN queue, MotionEnds(k) \/ MotionFades(k) PROVE BehaviourInv' /\ Quiet
  <2>1. (Ends(k) \/ FadesAway(k)) /\ UNCHANGED <<toRenderer, panelVars>>
    BY <1>17 DEF MotionEnds, MotionFades, linkVars
  <2>2. /\ PrioritiesAreBacked'
        /\ queue' # <<>> => current' >= PriorityIdle
        /\ Len(queue') < Len(queue)
    BY <1>1, <2>1, EndKeeps
  <2>3. queue[k].motion \in Motions
    <3>1. queue[k] \in Entries
      BY <1>1
    <3> QED
      BY <3>1 DEF Entries
  <2>4. [event |-> "finished", motion |-> queue[k].motion] \in Events
    BY <2>3 DEF Events
  <2>5. toPanel' = toPanel \/ Emit([event |-> "finished", motion |-> queue[k].motion])
    BY <1>17 DEF MotionEnds, MotionFades, linkVars
  <2>6. toPanel' \in Seq(Events)
    BY <1>1, <2>4, <2>5, EmitKeeps DEF LinkTypeOK
  <2>7. LinkTypeOK'
    BY <1>1, <2>1, <2>6 DEF LinkTypeOK, panelVars
  <2> QED
    BY <2>2, <2>7 DEF BehaviourInv
<1>18. CASE BehaviourNext
  <2>1. \/ Timeout \/ Receive \/ CooldownEnds \/ PluginStopsMotion
        \/ Ready \/ LinkDrops \/ StopSession \/ RendererCrashes \/ Obey
        \/ \E area \in Areas : Hit(area)
        \/ \E motion \in UserMotions : UserPlays(motion)
        \/ \E name \in Models : SwitchModel(name)
        \/ \E isMounted \in BOOLEAN : Mount(isMounted)
        \/ \E k \in DOMAIN queue : MotionEnds(k) \/ MotionFades(k)
    BY <1>18 DEF BehaviourNext, Motion
  <2>2. ASSUME BehaviourInv' /\ Quiet
        PROVE BehaviourInv' /\ (Len(queue') > Len(queue) => (Last(queue').motion \in IdleOnly => queue = <<>>))
    <3>1. queue' \in Seq(Entries)
      BY <2>2 DEF BehaviourInv, PrioritiesAreBacked, PlayerTypeOK, Entries
    <3>2. Len(queue') \in Nat
      BY <3>1
    <3> QED
      BY <1>2, <2>2, <3>2
  <2>3. CASE \/ Timeout \/ Receive \/ CooldownEnds \/ PluginStopsMotion
             \/ Ready \/ LinkDrops \/ StopSession \/ RendererCrashes \/ Obey
    BY <1>4, <1>5, <1>7, <1>9, <1>12, <1>13, <1>14, <1>15, <1>16, <2>2, <2>3
  <2>4. CASE \/ \E area \in Areas : Hit(area)
             \/ \E motion \in UserMotions : UserPlays(motion)
             \/ \E name \in Models : SwitchModel(name)
             \/ \E isMounted \in BOOLEAN : Mount(isMounted)
             \/ \E k \in DOMAIN queue : MotionEnds(k) \/ MotionFades(k)
    BY <1>6, <1>8, <1>10, <1>11, <1>17, <2>2, <2>4
  <2> QED
    BY <2>1, <2>3, <2>4
<1> QED
  BY <1>3, <1>18

LEMMA InitHolds ==
    ASSUME BehaviourInit
    PROVE BehaviourInv
<1>1. PrioritiesAreBacked /\ queue = <<>>
  BY EmptyQueue DEF BehaviourInit, PlayerInit, PrioritiesAreBacked, PlayerTypeOK, PriorityNone
<1>2. LinkTypeOK
  BY DEF BehaviourInit, LinkTypeOK
<1> QED
  BY <1>1, <1>2 DEF BehaviourInv

-----------------------------------------------------------------------------
(* The theorems *)

(* Whatever is played, refused, stopped, ended or switched, in whatever    *)
(* order the commands and the reports arrive: no reservation is left over, *)
(* a queue that plays keeps idle motions away, and an empty one holds a    *)
(* priority only after stop_motion.                                        *)
THEOREM BehaviourInvHolds == BehaviourSpec => []BehaviourInv
<1>1. BehaviourInit => BehaviourInv
  BY InitHolds
<1>2. BehaviourInv /\ [BehaviourNext]_behaviourVars => BehaviourInv'
  BY StepKeeps
<1> QED
  BY <1>1, <1>2, PTL DEF BehaviourSpec

(* No command leaves a reservation behind, whatever failed in it           *)
(* (LAppModel.cpp:520-526, 856-858).                                       *)
THEOREM PrioritiesAreBackedHolds == BehaviourSpec => []PrioritiesAreBacked
<1>1. BehaviourInv => PrioritiesAreBacked
  BY DEF BehaviourInv
<1> QED
  BY <1>1, BehaviourInvHolds, PTL

(* A tick of the idle scheduler, however late it arrives and whatever it   *)
(* overtook, starts no motion while another one plays.                     *)
THEOREM IdleNeverInterruptsHolds == BehaviourSpec => IdleNeverInterrupts
<1>1. ASSUME BehaviourInv, [BehaviourNext]_behaviourVars
      PROVE [StartsIdle => \A k \in DOMAIN queue : queue[k].fading \/ queue[k].motion \in PackIdle]_behaviourVars
  BY <1>1, StepKeeps DEF StartsIdle
<1> QED
  BY <1>1, BehaviourInvHolds, PTL DEF BehaviourSpec, IdleNeverInterrupts
=============================================================================
