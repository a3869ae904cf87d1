----------------------------- MODULE MotionPlayer -----------------------------
(***************************************************************************)
(* The motions of the renderer's model: what play_motion, play_motion_ext, *)
(* stop_motion and load_model do to Cubism's motion queue and priorities,  *)
(* and what is reported when a motion ends.                                *)
(*                                                                         *)
(* A motion of the model is loaded once and shared by all its starts, with *)
(* one context for its report; a motion from a file is loaded by each      *)
(* start, with a context of its own.                                       *)
(***************************************************************************)
EXTENDS Integers, Sequences, SequencesExt

CONSTANTS
    ModelMotions,        \* motions of the model
    FileMotions,         \* motions of the voice pack, played from their files
    Unreadable,          \* motions whose file is missing or broken
    Models

Motions == ModelMotions \cup FileMotions

ASSUME MotionAssumption == ModelMotions \cap FileMotions = {} /\ Unreadable \subseteq Motions

VARIABLES
    model,               \* what _models holds, or NoModel
    queue,               \* the motion queue: entries [motion, fading]
    context,             \* motions of the model whose context is set
    current, reserve,    \* _currentPriority, _reservePriority
    stopped,             \* ghost: the queue was emptied by stop_motion
    lost                 \* ghost: a report that was due will not be made

playerVars == <<model, queue, context, current, reserve, stopped, lost>>

NoModel == "no model"
NoMotion == "no motion"
PriorityNone == 0
PriorityIdle == 1
PriorityNormal == 2
PriorityForce == 3

PlayerTypeOK ==
    /\ model \in Models \cup {NoModel} /\ queue \in Seq([motion : Motions, fading : BOOLEAN])
    /\ context \subseteq ModelMotions /\ current \in Nat /\ reserve \in Nat
    /\ stopped \in BOOLEAN /\ lost \in BOOLEAN

PlayerInit ==
    /\ model = NoModel /\ queue = <<>> /\ context = {} /\ current = PriorityNone
    /\ reserve = PriorityNone /\ stopped = FALSE /\ lost = FALSE

-----------------------------------------------------------------------------
(* CubismMotionManager *)

ReserveMotion(priority) == priority > reserve /\ priority > current

(* StartMotionPriority: what was queued fades out behind the new motion.   *)
FadeOut(entries) == [k \in DOMAIN entries |-> [entries[k] EXCEPT !.fading = TRUE]]
StartMotionPriority(motion, priority, reserved) ==
    /\ reserve' = IF reserved = priority THEN PriorityNone ELSE reserved
    /\ current' = priority
    /\ queue' = Append(FadeOut(queue), [motion |-> motion, fading |-> FALSE])

(* The priority of an empty queue is reset by the update that empties it.  *)
PriorityAfter(entries) == IF entries = <<>> THEN PriorityNone ELSE current

-----------------------------------------------------------------------------
(* Starting a motion *)

(* The motion is there to be started: preloaded, or read from its file.    *)
Loads(motion) == motion \notin Unreadable

Accepted(priority) == priority = PriorityForce \/ ReserveMotion(priority)

Refused(motion, priority) ==
    /\ lost' = \/ lost
               \/ priority # PriorityIdle /\ ((\A k \in DOMAIN queue : queue[k].fading) \/ ~Loads(motion))
    /\ UNCHANGED <<queue, current, stopped>>

(* Reserves first, as the priority was once reserved before the motion was *)
(* loaded.                                                                 *)
StartEarlyReserved(motion, priority) ==
    IF ~Accepted(priority) THEN UNCHANGED reserve /\ Refused(motion, priority)
    ELSE IF Loads(motion)
         THEN StartMotionPriority(motion, priority, priority) /\ stopped' = FALSE /\ UNCHANGED lost
         ELSE reserve' = priority /\ Refused(motion, priority)

(* StartMotion and StartMotionFromFile: load, then reserve, then start.    *)
Start(motion, priority) ==
    IF Loads(motion) /\ Accepted(priority)
    THEN StartMotionPriority(motion, priority, priority) /\ stopped' = FALSE /\ UNCHANGED lost
    ELSE UNCHANGED reserve /\ Refused(motion, priority)

Starts(motion, priority) == model # NoModel /\ Loads(motion) /\ Accepted(priority)

(* The handlers of play_motion and play_motion_ext; without a model both   *)
(* answer with an error.  Audio is not modelled.                           *)
PlayMotion(motion, priority) ==
    /\ IF model = NoModel THEN Refused(motion, priority) /\ UNCHANGED reserve ELSE Start(motion, priority)
    /\ context' = IF Starts(motion, priority) /\ motion \in ModelMotions
                  THEN context \cup {motion} ELSE context
    /\ UNCHANGED model

(* stop_motion empties the queue; no report is made and the priority stays *)
(* where it was, for an empty queue is not updated.                        *)
StopMotion ==
    /\ queue' = IF model = NoModel THEN queue ELSE <<>>
    /\ stopped' = (stopped \/ queue # <<>>)
    /\ lost' = (lost \/ queue # <<>>)
    /\ UNCHANGED <<model, context, current, reserve>>

(* load_model of a model that is there: it replaces the one that was, all  *)
(* of whose motions go without a report.                                   *)
LoadModel(name) ==
    /\ model' = name /\ queue' = <<>> /\ context' = {}
    /\ current' = PriorityNone /\ reserve' = PriorityNone
    /\ stopped' = FALSE /\ UNCHANGED lost

-----------------------------------------------------------------------------
(* Ending a motion: UpdateMotion, run by each drawn frame *)

Reports(entry) == entry.motion \in FileMotions \cup context

(* The k-th entry plays to its end, fading or not, and its context is      *)
(* taken.  (Lip-sync data are not modelled.)                               *)
Ends(k) ==
    /\ LET left == RemoveAt(queue, k)
       IN  queue' = left /\ current' = PriorityAfter(left)
    /\ context' = context \ {queue[k].motion}
    /\ UNCHANGED <<model, reserve, stopped, lost>>

(* A fading entry is gone before its motion's end: nobody is told.         *)
FadesAway(k) ==
    /\ queue[k].fading
    /\ LET left == RemoveAt(queue, k)
       IN  queue' = left /\ current' = PriorityAfter(left)
    /\ UNCHANGED <<model, context, reserve, stopped, lost>>

-----------------------------------------------------------------------------
(* Properties *)

(* No command leaves a reservation behind, whatever failed in it, and an   *)
(* empty queue holds a priority only after a motion was stopped: else      *)
(* every later motion of that priority or a lower one would be refused in  *)
(* silence (LAppModel.cpp:520-526, 856-858).                               *)
PrioritiesAreBacked ==
    /\ PlayerTypeOK
    /\ reserve = PriorityNone
    /\ queue = <<>> => current = PriorityNone \/ stopped

(* REFUTED: LAppModel.cpp:520-526 takes care that no priority outlives its *)
(* motions ("permanent idle/animation death"); stop_motion leaves it.      *)
NoPriorityOutlivesMotion == queue = <<>> => current = PriorityNone
=============================================================================
