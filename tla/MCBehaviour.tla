----------------------------- MODULE MCBehaviour -----------------------------
(* Two models, one of them without an Idle group; a pack with an idle      *)
(* motion and a group for the head, one of whose motions cannot be read.   *)
EXTENDS Behaviour

MCIdleOf == [m \in Models |-> IF m = "a" THEN "rest" ELSE NoMotion]
MCPackMotions == [head |-> {"nod", "broken"}]
MCTapOf == [head |-> "tap", body |-> "tap"]
=============================================================================
