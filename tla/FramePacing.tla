----------------------------- MODULE FramePacing -----------------------------
(***************************************************************************)
(* The Vulkan backend's frames: two frame slots paced by fences, a swap-   *)
(* chain that is invalidated and recreated, and the ring of one-pixel      *)
(* copies that answers "is the pixel under the cursor transparent".        *)
(*                                                                         *)
(* Frame counters are kept relative: frame is the slot of the frame being  *)
(* made, and a ring slot carries the age of the frame that owns it.        *)
(***************************************************************************)
EXTENDS Integers, FiniteSets, VulkanLimits

CONSTANTS
    AcquireResults,      \* what vkAcquireNextImageKHR may return
    PresentResults,      \* what vkQueuePresentKHR may return
    SubmitMayFail,       \* vkQueueSubmit may fail
    MayLackTail          \* slots whose tail command buffer may fail to be allocated

ASSUME PacingAssumption ==
    /\ AcquireResults \subseteq {"success", "suboptimal", "out_of_date", "error"}
    /\ PresentResults \subseteq {"success", "suboptimal", "out_of_date", "error"}
    /\ SubmitMayFail \in BOOLEAN /\ MayLackTail \subseteq 0 .. kFramesInFlight - 1

VARIABLES
    frame,               \* _frameCounter % kFramesInFlight
    fence,               \* _inFlightFences
    tails,               \* the slots that have a tail command buffer
    invalid,             \* _isSwapchainInvalid
    hung,                \* the main thread waits in vkQueueWaitIdle for ever
    resized,             \* _framebufferResized
    ring,                \* _readbackRing: the age of the owner frame, or Nothing
    write,               \* _readbackWriteIndex
    hasResult,           \* _readbackHasResult
    cached,              \* the age of the frame whose pixel _readbackCachedResult is
    newest               \* ghost: the age of the newest sample that was submitted

frameVars == <<frame, fence, tails, invalid, hung, resized, ring, write, hasResult, cached,
               newest>>

Slots == 0 .. kFramesInFlight - 1
Ring == 0 .. kReadbackRingSize - 1
FenceStates == {"signaled", "reset", "submitted"}

(* No owner, no sample, no pixel of the present swapchain's images.  Ages  *)
(* saturate: an owner of the oldest is no longer in flight.                *)
Nothing == -1
Oldest == kFramesInFlight
Ages == 0 .. Oldest

(* CreateSyncObjects logs a tail command buffer it cannot allocate and     *)
(* goes on without it.                                                     *)
TailChoices == {Slots \ lacking : lacking \in SUBSET MayLackTail}

FrameTypeOK ==
    /\ frame \in Slots /\ fence \in [Slots -> FenceStates] /\ tails \in TailChoices
    /\ invalid \in BOOLEAN /\ hung \in BOOLEAN /\ resized \in BOOLEAN
    /\ ring \in [Ring -> Ages \cup {Nothing}] /\ write \in Ring
    /\ hasResult \in BOOLEAN /\ cached \in Ages \cup {Nothing}
    /\ newest \in (1 .. Oldest) \cup {Nothing}

Signaled == [s \in Slots |-> "signaled"]
Empty == [r \in Ring |-> Nothing]

FrameInit ==
    /\ frame = 0 /\ fence = Signaled /\ tails \in TailChoices
    /\ invalid = FALSE /\ hung = FALSE /\ resized = FALSE
    /\ ring = Empty /\ write = 0 /\ hasResult = FALSE /\ cached = Nothing
    /\ newest = Nothing

-----------------------------------------------------------------------------
(* The readback ring; f is the fences as the poll finds them *)

(* The frame slot of an owner in flight.                                   *)
SlotOf(age) == IF age <= frame THEN frame - age ELSE frame - age + kFramesInFlight

(* A copy may be read when its owner is one of the last frames in flight   *)
(* and has finished.                                                       *)
UsableLate(r, f) ==
    ring[r] # Nothing /\ ring[r] < kFramesInFlight - 1 /\ f[SlotOf(ring[r])] = "signaled"
Usable(r, f) ==
    ring[r] # Nothing /\ ring[r] < kFramesInFlight /\ f[SlotOf(ring[r])] = "signaled"

(* The distance of a slot behind the write index, where the poll begins.   *)
Behind(r) == IF r <= write THEN write - r ELSE write - r + kReadbackRingSize

(* The slot the poll reads, if any: the newest that may be read.           *)
PollReadbackRing(f) ==
    {r \in Ring : Usable(r, f) /\ \A q \in Ring : Usable(q, f) => Behind(r) <= Behind(q)}

(* After the poll the slot it read is free, and so are those it passed on  *)
(* the way that were too old.                                              *)
Polled(f) ==
    [r \in Ring |->
        IF \/ r \in PollReadbackRing(f)
           \/ /\ ring[r] >= kFramesInFlight
              /\ \A q \in PollReadbackRing(f) : Behind(r) < Behind(q)
        THEN Nothing ELSE ring[r]]

(* The pixel that is cached after the poll.                                *)
PixelRead(f) ==
    IF PollReadbackRing(f) = {} THEN cached ELSE ring[CHOOSE r \in PollReadbackRing(f) : TRUE]

(* IsPixelTransparent: the age of the frame it answers from, or Nothing    *)
(* for the passthrough it answers before the first sample is read.         *)
Answer(f) == IF hasResult \/ PollReadbackRing(f) # {} THEN PixelRead(f) ELSE Nothing

(* PickReadbackSlot moves on and takes the slot, owned or not.             *)
NextWrite == IF write + 1 = kReadbackRingSize THEN 0 ELSE write + 1

(* EndFrame counts the frame: every owner is one frame older.              *)
Older(age) == IF age \in {Nothing, Oldest} THEN age ELSE age + 1

-----------------------------------------------------------------------------
(* One pass of the loop *)

(* The queue has drained: every submitted frame tail is finished.          *)
Drained == [s \in Slots |-> IF fence[s] = "submitted" THEN "signaled" ELSE fence[s]]

(* BeginFrame resets the fence of its slot once it has an image.           *)
Began(f) == [f EXCEPT ![frame] = "reset"]

RecreatedButFences ==        \* keeps the sync objects
    [fence |-> fence, ring |-> Empty, hasResult |-> FALSE, cached |-> Nothing, newest |-> Nothing]

(* RecreateSwapchain: new sync objects, created signaled, and no readback  *)
(* of the old images.  _isSwapchainInvalid is left as it is.               *)
RecreateSwapchain ==
    [fence |-> Signaled, ring |-> Empty, hasResult |-> FALSE, cached |-> Nothing, newest |-> Nothing]

Continued ==
    [fence |-> fence, ring |-> ring, hasResult |-> hasResult, cached |-> cached, newest |-> newest]

(* What the head of the loop does to the swapchain.                        *)
AtLoopHead == IF invalid THEN RecreateSwapchain ELSE Continued

(* The loop's BeginFrame, which waits without a timeout, may pass the      *)
(* fence of its slot.                                                      *)
MayBegin == ~hung /\ AtLoopHead.fence[frame] = "signaled"

(* An acquire that invalidates the swapchain, or an invalid swapchain:     *)
(* nothing is drawn in this pass.                                          *)
SkipFrame ==
    /\ MayBegin
    /\ \E result \in AcquireResults, seen \in BOOLEAN :
        /\ invalid' = (invalid \/ result \in {"suboptimal", "out_of_date"})
        /\ invalid'
        /\ fence' = IF result \in {"success", "suboptimal"} THEN Began(AtLoopHead.fence)
                    ELSE AtLoopHead.fence
        /\ resized' = (resized \/ seen)
    /\ IF invalid THEN tails' \in TailChoices ELSE UNCHANGED tails
    /\ ring' = AtLoopHead.ring /\ hasResult' = AtLoopHead.hasResult
    /\ cached' = AtLoopHead.cached /\ newest' = AtLoopHead.newest
    /\ UNCHANGED <<frame, write, hung>>

(* Any other error of the acquire is logged and the frame drawn: its first *)
(* command waits for a semaphore that nobody will signal.                  *)
RenderHangs ==
    /\ MayBegin /\ ~invalid /\ "error" \in AcquireResults
    /\ hung' = TRUE
    /\ UNCHANGED <<frame, fence, tails, invalid, resized, ring, write, hasResult, cached,
                   newest>>

(* The same error of a lost device holds up nobody: the frame goes its way *)
(* with its fence not reset and no queue drained.                          *)
FencesAtPoll(result) == IF result = "success" THEN Began(Drained) ELSE fence

(* The newest sample after a pass that submits none: behind a failed       *)
(* acquire nothing is certain any more about when it is read.              *)
StillNewest(result) == IF result = "success" \/ newest = Nothing THEN newest ELSE Oldest

(* Render, which drains the queue, and the sample of the pixel under the   *)
(* cursor unless a drag or a press holds it: what the poll leaves.         *)
Sampled(samples, f) ==
    IF samples THEN [ring |-> Polled(f), cached |-> PixelRead(f),
                     hasResult |-> hasResult \/ PollReadbackRing(f) # {}]
    ELSE [ring |-> ring, cached |-> cached, hasResult |-> hasResult]

(* EndFrame without a tail command buffer: the frame is skipped, its slot  *)
(* and the fence BeginFrame reset left as they are.  (The sample stays     *)
(* pending, for a slot that will never submit it.)                         *)
NoTail(samples, seen, result) ==
    LET f == FencesAtPoll(result)
        sampled == Sampled(samples, f)
    IN  /\ frame \notin tails
        /\ fence' = f /\ ring' = sampled.ring
        /\ cached' = sampled.cached /\ hasResult' = sampled.hasResult
        /\ newest' = StillNewest(result)
        /\ resized' = (resized \/ seen)
        /\ UNCHANGED <<frame, invalid, write>>

(* EndFrame: the tail, with the copy of the sample, is submitted and the   *)
(* image presented, or the submission fails.                               *)
EndFrame(samples, seen, result, submitted, present) ==
    LET f == FencesAtPoll(result)
        sampled == Sampled(samples, f)
        owned == IF samples THEN [sampled.ring EXCEPT ![NextWrite] = 0] ELSE sampled.ring
    IN  /\ frame \in tails
        /\ hasResult' = sampled.hasResult
        /\ write' = IF samples THEN NextWrite ELSE write
        /\ IF submitted
           THEN /\ fence' = [f EXCEPT ![frame] = "submitted"]
                /\ frame' = IF frame + 1 = kFramesInFlight THEN 0 ELSE frame + 1
                /\ ring' = [r \in Ring |-> Older(owned[r])]
                /\ cached' = Older(sampled.cached)
                /\ newest' = IF samples THEN 1 ELSE Older(StillNewest(result))
                /\ invalid' = (present \in {"suboptimal", "out_of_date"} \/ resized \/ seen)
                /\ resized' = FALSE
           ELSE /\ SubmitMayFail
                /\ fence' = f /\ ring' = owned /\ cached' = sampled.cached
                /\ newest' = StillNewest(result)
                /\ invalid' = TRUE
                /\ resized' = (resized \/ seen)
                /\ UNCHANGED frame

(* A pass that draws: rendered, sampled and ended.                         *)
DrawFrame ==
    /\ MayBegin /\ ~invalid
    /\ \E result \in AcquireResults \cap {"success", "error"}, samples, seen \in BOOLEAN :
        /\ \/ NoTail(samples, seen, result)
           \/ \E submitted \in BOOLEAN, present \in PresentResults :
                 EndFrame(samples, seen, result, submitted, present)
    /\ UNCHANGED <<tails, hung>>

Pass == SkipFrame \/ RenderHangs \/ DrawFrame

(* The GPU finishes the tail of a frame.                                   *)
GpuFinishes(s) ==
    /\ fence[s] = "submitted"
    /\ fence' = [fence EXCEPT ![s] = "signaled"]
    /\ UNCHANGED <<frame, tails, invalid, hung, resized, ring, write, hasResult, cached,
                   newest>>

-----------------------------------------------------------------------------
(* Properties *)

(* The main thread will not get through another pass: it waits for work    *)
(* the queue cannot do, or for a fence no submission is going to signal.   *)
Wedged == hung \/ AtLoopHead.fence[frame] = "reset"

(* The fence the next frame waits for, without a timeout, is one the GPU   *)
(* signals or has signaled, whatever acquires, submissions, presentations  *)
(* and resizes did before.  Only two faults the backend logs and lives     *)
(* with stop it: an acquire that failed, and a frame slot whose tail       *)
(* command buffer was not allocated.                                       *)
OnlyFaultsWedge ==
    /\ FrameTypeOK
    /\ ~invalid => \A s \in Slots : fence[s] = "reset" => s = frame /\ s \notin tails
    /\ Wedged => (hung /\ "error" \in AcquireResults) \/ frame \notin tails

(* Click-through is answered from the newest sample submitted as long as   *)
(* its frame counts as in flight, however samples, drags and skipped       *)
(* frames took turns; before the first sample from none; and no pixel of   *)
(* an older swapchain is kept as a result.  (A sample that has aged        *)
(* promises nothing: what is cached then may be older still.)              *)
AnswersAreCurrent ==
    /\ hasResult => cached # Nothing
    /\ ~invalid /\ ~Wedged =>
        /\ newest = Nothing => Answer(FencesAtPoll("success")) = Nothing
        /\ newest \in 1 .. kFramesInFlight - 1 => Answer(FencesAtPoll("success")) = newest

(* REFUTED: BeginFrame's wait for the slot ends.  EndFrame without a tail  *)
(* command buffer says it skips one frame (VulkanBackend.cpp:740); the     *)
(* fence is reset by then, and the next frame of the slot waits for it.    *)
NeverWaitsForever == ~Wedged

(* REFUTED: the answer is the last frame's pixel, "one frame of latency"   *)
(* (VulkanBackend.cpp:1300-1302).  After a drag the sample before it has   *)
(* aged, and the one that is cached is of any age.                         *)
OneFrameOfLatency ==
    ~invalid /\ ~Wedged => Answer(FencesAtPoll("success")) \in {Nothing, 1}
=============================================================================
