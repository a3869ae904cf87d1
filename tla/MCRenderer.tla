------------------------------ MODULE MCRenderer ------------------------------
(* The renderer's frame loop, and the objects its graphics are made of. A    *)
(* behaviour is about one of them, the other stays as it starts: what the    *)
(* loop does with a frame and what that frame's tail holds are the same      *)
(* calls, seen once as a protocol and once as a set of lifetimes.            *)
(*                                                                           *)
(* Loop: two frames in flight, the ring of three, a queue of two that one    *)
(* poll empties only in part.                                                *)
(* Objects: three models, two that share a texture, one of them with a file  *)
(* that is no PNG before it, and one whose model file does not load.         *)
EXTENDS RendererLoop, GraphicsObjects

VARIABLE side

MCAcquire == {"success", "suboptimal", "out_of_date", "error"}
MCPresent == {"success", "out_of_date"}

MCHasMoc == [m \in Models |-> m # "c"]
MCTexturesOf == [m \in Models |-> CASE m = "a" -> <<"shared", "own">>
                                    [] m = "b" -> <<"broken", "shared">>
                                    [] OTHER -> <<"own">>]

RendererInit ==
    /\ LoopInit /\ GraphicsInit
    /\ side \in {"loop", "objects"} /\ (side = "objects" => tails = Slots)

RendererNext ==
    \/ side = "loop" /\ LoopNext /\ UNCHANGED <<graphicsVars, side>>
    \/ side = "objects" /\ GraphicsNext /\ UNCHANGED <<loopVars, side>>

RendererSpec ==
    /\ RendererInit /\ [][RendererNext]_<<loopVars, graphicsVars, side>>
    /\ WF_loopVars(side = "loop" /\ MainThread) /\ WF_loopVars(side = "loop" /\ Gpu)
    /\ WF_loopVars(side = "loop" /\ StartTimerElapses)
    /\ WF_loopVars(side = "loop" /\ LostTimerElapses)

\* A renderer whose controller is gone for good closes, or is wedged by a
\* fault of the driver it had logged.
OrphanRendererCloses == side = "loop" => OrphanCloses

\* REFUTED: after an invalidated swapchain frames are drawn again.
DrawingGapEnds == side = "loop" => GapEnds
=============================================================================
