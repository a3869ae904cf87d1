------------------------------ MODULE Behaviour ------------------------------
(***************************************************************************)
(* What a pet does by itself and when it is touched: the panel's idle      *)
(* scheduler and the two listeners that decide about a hit, composed with  *)
(* the renderer's MotionPlayer over the connection.                        *)
(*                                                                         *)
(* A hit of an area is decided by the mounted voice pack's engine, then by *)
(* the interaction handler; a behaviour of the pack pauses the scheduler   *)
(* until the renderer reports the end of a motion that is not an idle one. *)
(***************************************************************************)
EXTENDS MotionPlayer

CONSTANTS
    IdleOf,              \* model -> its motion of the Idle group, or NoMotion
    PackIdle,            \* motions of the pack's idle group
    PackMotions,         \* hit area -> motions of its group in the pack
    PackPriority,        \* priority the pack's groups declare
    TapOf,               \* hit area -> motion the interaction handler plays
    UserMotions,         \* motions of the model the user plays
    MaxInFlight,         \* bound: messages under way in one direction
    MaxQueued            \* bound: motions queued when a command is obeyed

ASSUME BehaviourAssumption ==
    /\ IdleOf \in [Models -> ModelMotions \cup {NoMotion}] /\ PackIdle \subseteq FileMotions
    /\ \A a \in DOMAIN PackMotions : PackMotions[a] \subseteq FileMotions
    /\ \A a \in DOMAIN TapOf : TapOf[a] \in ModelMotions
    /\ PackPriority \in Nat /\ UserMotions \subseteq ModelMotions /\ {MaxInFlight, MaxQueued} \subseteq Nat \ {0}

VARIABLES
    up,                  \* the connection is up
    toRenderer,          \* commands under way
    toPanel,             \* events under way
    cfg,                 \* the configured model
    info,                \* the model whose model3.json was parsed, or NoModel
    loaded,              \* m_modelLoaded
    mounted,             \* a voice pack is mounted
    running, paused,     \* the scheduler
    source,              \* what its callback plays: "pack", a model, or NoModel
    cooling              \* now < m_behaviorActiveUntilMs

panelVars == <<cfg, info, loaded, mounted, running, paused, source, cooling>>
linkVars == <<up, toRenderer, toPanel>>
behaviourVars == <<playerVars, linkVars, panelVars>>

Areas == DOMAIN PackMotions \cup DOMAIN TapOf
Pack == "pack"

Play(motion, priority) == [cmd |-> "play", motion |-> motion, priority |-> priority]
Stop == [cmd |-> "stop"]
Load(name) == [cmd |-> "load", name |-> name]

BehaviourInit ==
    /\ PlayerInit
    /\ up = FALSE /\ toRenderer = <<>> /\ toPanel = <<>>
    /\ cfg \in Models /\ info = NoModel /\ loaded = FALSE /\ mounted = FALSE
    /\ running = FALSE /\ paused = FALSE /\ source = NoModel /\ cooling = FALSE

Room(channel) == Len(channel) < MaxInFlight

(* sendCommand: without a connection the text goes nowhere.                *)
Sent(commands) == IF up THEN toRenderer \o commands ELSE toRenderer

-----------------------------------------------------------------------------
(* The idle scheduler *)

(* startIdleScheduler.  Without an idle source nothing is changed: a       *)
(* scheduler that runs goes on with the source it has.                     *)
PackIdles(isMounted) == isMounted /\ PackIdle # {}
HasSource(m, isMounted) == PackIdles(isMounted) \/ (m # NoModel /\ IdleOf[m] # NoMotion)
StartIdleScheduler(isLoaded, m, isMounted) ==
    IF isLoaded /\ HasSource(m, isMounted)
    THEN /\ running' = TRUE /\ paused' = FALSE /\ lost' = FALSE
         /\ source' = IF PackIdles(isMounted) THEN Pack ELSE m
    ELSE UNCHANGED <<running, paused, source, lost>>

(* fireOnce and its callback, which looks the motion up again: the pack    *)
(* may be gone.  A listener of idle_tick may claim the tick.               *)
IdlePriorityForced == PriorityForce
IdlePriority == PriorityIdle
IdleCommands ==
    IF source = Pack
    THEN IF mounted THEN {<<>>} \cup {<<Play(m, IdlePriority)>> : m \in PackIdle} ELSE {<<>>}
    ELSE {<<>>, <<Play(IdleOf[source], IdlePriority)>>}

Timeout ==
    /\ running /\ Room(toRenderer)
    /\ \E commands \in IF paused THEN {<<>>} ELSE IdleCommands : toRenderer' = Sent(commands)
    /\ UNCHANGED <<playerVars, up, toPanel, panelVars>>

-----------------------------------------------------------------------------
(* Hits *)

(* MountedBehaviorEngine: the motions of the area's group.                 *)
HasGroupForArea(area) == mounted /\ area \in DOMAIN PackMotions
HitPriority(p) == IF p > PriorityForce THEN p ELSE PriorityForce

(* MountedBehaviorAdapter decides a hit unless its pack has no group for   *)
(* the area, or a group without motions.                                   *)
Decides(area) == HasGroupForArea(area) /\ (cooling \/ PackMotions[area] # {})

(* In the cooldown of the last behaviour the hit is swallowed; else a      *)
(* behaviour is sent and the scheduler pauses.                             *)
MountedBehavior(area) ==
    IF cooling THEN UNCHANGED <<toRenderer, paused, cooling, lost>>
    ELSE /\ \E m \in PackMotions[area] :
                toRenderer' = Sent(<<Play(m, HitPriority(PackPriority))>>)
         /\ paused' = TRUE /\ cooling' = TRUE /\ lost' = (lost \/ ~up)

(* InteractionFallbackAdapter and InteractionHandler.                      *)
InteractionFallback(area) ==
    /\ toRenderer' = IF area \in DOMAIN TapOf
                     THEN Sent(<<Play(TapOf[area], HitPriority(PriorityNormal))>>) ELSE toRenderer
    /\ UNCHANGED <<paused, cooling, lost>>

(* handleHitEvent: a hit that a plugin or a rule claims goes no further.   *)
HandleHit(area) ==
    /\ \/ UNCHANGED <<toRenderer, paused, cooling, lost>>
       \/ IF Decides(area) THEN MountedBehavior(area) ELSE InteractionFallback(area)
    /\ UNCHANGED <<running, source, loaded, info>>

-----------------------------------------------------------------------------
(* What the panel does with the renderer's events *)

IdleMotions == (IF mounted THEN PackIdle ELSE {}) \cup {IdleOf[m] : m \in Models}

(* handleMotionFinishedEvent: the end of an idle motion is not followed by *)
(* another one; any other end resumes the scheduler with a tick.           *)
IsIdleOrFile(motion) == motion \in IdleMotions \cup FileMotions
IsIdle(motion) == motion \in IdleMotions
Resumes(motion) == ~IsIdle(motion) /\ up /\ running
HandleMotionFinished(motion) ==
    /\ IF Resumes(motion)
       THEN /\ paused' = FALSE /\ lost' = FALSE
            /\ \E commands \in IdleCommands : toRenderer' = Sent(commands)
       ELSE UNCHANGED <<paused, lost, toRenderer>>
    /\ UNCHANGED <<running, source, loaded, info, cooling>>

(* model_loaded: the configured model's file is parsed.  When it cannot be *)
(* what was parsed last is kept, and the scheduler starts with that.       *)
HandleModelLoaded ==
    /\ info' \in {cfg, info} /\ loaded' = TRUE
    /\ StartIdleScheduler(TRUE, info', mounted)
    /\ UNCHANGED <<toRenderer, cooling>>

Receive ==
    /\ toPanel # <<>> /\ toPanel' = Tail(toPanel)
    /\ LET m == Head(toPanel)
       IN  CASE m.event = "finished" -> HandleMotionFinished(m.motion)
             [] m.event = "loaded" -> HandleModelLoaded
    /\ UNCHANGED <<model, queue, context, current, reserve, stopped, up, cfg, mounted>>

-----------------------------------------------------------------------------
(* The user, the plugins and the clock *)

(* A hit the renderer reports, or triggerHitArea.                          *)
Hit(area) ==
    /\ Room(toRenderer) /\ HandleHit(area)
    /\ UNCHANGED <<model, queue, context, current, reserve, stopped, up, toPanel, cfg, mounted>>

CooldownEnds ==
    /\ cooling /\ cooling' = FALSE
    /\ UNCHANGED <<playerVars, linkVars, cfg, info, loaded, mounted, running, paused, source>>

UserPlays(motion) ==
    /\ up /\ Room(toRenderer)
    /\ toRenderer' = Sent(<<Play(motion, PriorityNormal)>>)
    /\ UNCHANGED <<playerVars, up, toPanel, panelVars>>

PluginStopsMotion ==
    /\ up /\ Room(toRenderer) /\ toRenderer' = Sent(<<Stop>>)
    /\ UNCHANGED <<playerVars, up, toPanel, panelVars>>

SwitchModel(name) ==
    /\ Room(toRenderer) /\ name # cfg
    /\ cfg' = name /\ loaded' = FALSE /\ toRenderer' = Sent(<<Load(name)>>)
    /\ UNCHANGED <<playerVars, up, toPanel, info, mounted, running, paused, source, cooling>>

(* mountVoicePack and unmountVoicePack, which look for an idle source anew.*)
Mount(isMounted) ==
    /\ mounted # isMounted /\ mounted' = isMounted
    /\ StartIdleScheduler(loaded, info, isMounted)
    /\ UNCHANGED <<model, queue, context, current, reserve, stopped, linkVars, cfg, info,
                   loaded, cooling>>

(* ready: the configured model is asked for.                               *)
Ready ==
    /\ ~up /\ up' = TRUE
    /\ toRenderer' = <<Load(cfg)>> /\ toPanel' = <<>>
    /\ UNCHANGED <<playerVars, panelVars>>

(* The link drops with what is under way; the scheduler goes on.           *)
LinkDrops ==
    /\ up /\ up' = FALSE /\ toRenderer' = <<>> /\ toPanel' = <<>>
    /\ lost' = TRUE
    /\ UNCHANGED <<model, queue, context, current, reserve, stopped, panelVars>>

(* Nothing is left of the renderer.                                        *)
RendererGone ==
    /\ up' = FALSE /\ toRenderer' = <<>> /\ toPanel' = <<>> /\ loaded' = FALSE
    /\ model' = NoModel /\ queue' = <<>> /\ context' = {} /\ current' = PriorityNone
    /\ reserve' = PriorityNone /\ stopped' = FALSE
    /\ UNCHANGED <<cfg, info, mounted, cooling>>

(* stop() shuts the scheduler down; a crash leaves it running.             *)
StopSession ==
    /\ RendererGone
    /\ running' = FALSE /\ paused' = TRUE /\ source' = NoModel /\ lost' = FALSE

RendererCrashes == RendererGone /\ lost' = TRUE /\ UNCHANGED <<running, paused, source>>

-----------------------------------------------------------------------------
(* The renderer *)

Emit(event) == toPanel' = IF up THEN Append(toPanel, event) ELSE toPanel

(* A command from the panel.                                               *)
Obey ==
    /\ toRenderer # <<>> /\ Room(toPanel) /\ Len(queue) < MaxQueued
    /\ toRenderer' = Tail(toRenderer)
    /\ LET c == Head(toRenderer)
       IN  CASE c.cmd = "play" -> PlayMotion(c.motion, c.priority) /\ UNCHANGED toPanel
             [] c.cmd = "stop" -> StopMotion /\ UNCHANGED toPanel
             [] c.cmd = "load" ->
                    LoadModel(c.name) /\ Emit([event |-> "loaded"])
    /\ UNCHANGED <<up, panelVars>>

(* A frame in which the k-th motion ends or fades away.                    *)
MotionEnds(k) ==
    /\ k \in DOMAIN queue /\ Room(toPanel) /\ Ends(k)
    /\ IF Reports(queue[k]) THEN Emit([event |-> "finished", motion |-> queue[k].motion])
       ELSE UNCHANGED toPanel
    /\ UNCHANGED <<up, toRenderer, panelVars>>

MotionFades(k) ==
    /\ k \in DOMAIN queue /\ FadesAway(k)
    /\ UNCHANGED <<linkVars, panelVars>>

Motion == \E k \in DOMAIN queue : MotionEnds(k) \/ MotionFades(k)

BehaviourNext ==
    \/ Timeout \/ Receive \/ CooldownEnds \/ PluginStopsMotion
    \/ \E area \in Areas : Hit(area)
    \/ \E motion \in UserMotions : UserPlays(motion)
    \/ \E name \in Models : SwitchModel(name)
    \/ \E isMounted \in BOOLEAN : Mount(isMounted)
    \/ Ready \/ LinkDrops \/ StopSession \/ RendererCrashes
    \/ Obey \/ Motion

(* Both ends go on reading and motions play on; users and plugins promise  *)
(* nothing.                                                                *)
BehaviourSpec ==
    /\ BehaviourInit /\ [][BehaviourNext]_behaviourVars
    /\ WF_behaviourVars(Receive) /\ WF_behaviourVars(Obey) /\ WF_behaviourVars(Motion)

-----------------------------------------------------------------------------
(* Properties *)

(* What the panel and the link hold: commands of known motions, with a     *)
(* priority above none, and a running scheduler that has a source.  A      *)
(* motion of the pack's idle group alone is asked for as an idle motion.   *)
IdleOnly == PackIdle \ UNION {PackMotions[a] : a \in DOMAIN PackMotions}

Commands ==
    {c \in [cmd : {"play"}, motion : Motions, priority : Nat \ {PriorityNone}] :
        c.motion \in IdleOnly => c.priority = PriorityIdle}
    \cup {Stop} \cup [cmd : {"load"}, name : Models]

Events == [event : {"finished"}, motion : Motions] \cup [event : {"loaded"}]

LinkTypeOK ==
    /\ toRenderer \in Seq(Commands) /\ toPanel \in Seq(Events)
    /\ cfg \in Models /\ info \in Models \cup {NoModel}
    /\ running /\ source # Pack => source \in Models /\ IdleOf[source] # NoMotion

(* Whatever is played, refused, stopped, ended or switched, no reservation *)
(* or priority is without a cause, and what is queued has a priority that  *)
(* keeps idle motions away.                                                *)
BehaviourInv ==
    /\ PrioritiesAreBacked /\ LinkTypeOK
    /\ queue # <<>> => current >= PriorityIdle

(* An idle motion of the pack never takes the place of a motion that still *)
(* plays for a hit or for the user.  (A motion that is also one of a hit   *)
(* area may be started by a hit.)                                          *)
StartsIdle == Len(queue') > Len(queue) /\ Last(queue').motion \in IdleOnly
IdleNeverInterrupts ==
    [][StartsIdle => \A k \in DOMAIN queue : queue[k].fading \/ queue[k].motion \in PackIdle]_behaviourVars

(* Once nobody touches the pet any more, the scheduler a behaviour paused  *)
(* is resumed, although the behaviour may have been preempted, restarted,  *)
(* refused in favour of one that plays, or gone with its model: unless its *)
(* motion cannot be read, was refused with no model or only fading motions *)
(* there, a plugin stopped it, the link dropped, the renderer crashed, or  *)
(* the pet has nothing to idle with.                                       *)
Stuck == running /\ paused
LeftAlone == <>[][Len(queue') <= Len(queue)]_behaviourVars
PausedIsResumed == LeftAlone => (Stuck ~> (~Stuck \/ lost \/ ~HasSource(info, mounted)))

(* REFUTED: InstanceSessionCommands.cpp:289-291 says that without a pack   *)
(* the scheduler falls back to the model's Idle group "or stops when       *)
(* neither source exists".  It goes on with the source it had.             *)
NothingToIdleStops == [][(mounted /\ ~mounted' /\ ~HasSource(info, FALSE)) => ~running']_behaviourVars

(* REFUTED: every pause of the scheduler ends.  A behaviour whose motion   *)
(* cannot be played is never reported.                                     *)
PauseEnds == Stuck ~> ~Stuck
=============================================================================
