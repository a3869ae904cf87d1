---------------------------- MODULE GraphicsObjects ----------------------------
(***************************************************************************)
(* The Vulkan objects of the renderer, from InitializeGraphics to Release: *)
(* who creates them, in which order they are destroyed, what the GPU still *)
(* uses meanwhile, and the textures that outlive the models they were      *)
(* loaded for.                                                             *)
(*                                                                         *)
(* All of it runs on the main thread, so a function of the code is a       *)
(* sequence of steps and plan holds the steps still to do; the GPU moves   *)
(* between any two of them.  An object is a pair <<kind, number>>.         *)
(***************************************************************************)
EXTENDS Integers, FiniteSets, Sequences, SequencesExt, VulkanLimits

CONSTANTS
    ValidationLayers,    \* _enableValidationLayers: a debug build
    Files,               \* texture files
    Broken,              \* those that are missing or no PNG
    Models,              \* models, and for each of them ...
    HasMoc,              \* ... [Models -> BOOLEAN], whether its model file loads
    TexturesOf,          \* ... [Models -> Seq(Files)], in the order of its setting
    Startup,             \* the model of the command line
    MaxFailures,         \* bound: creation calls that fail
    MaxSpare             \* bound: command buffers nobody refers to

ASSUME GraphicsAssumption ==
    /\ HasMoc \in [Models -> BOOLEAN] /\ TexturesOf \in [Models -> Seq(Files)]
    /\ Startup \in Models

VARIABLES
    phase,               \* "init", "loop", "leaving", "released", "failed", "crashed"
    plan,                \* steps of the running function
    alive,               \* objects created and not destroyed
    spare,               \* command buffers of the pool that nobody refers to any more
    work,                \* of each frame slot: objects its submitted tail uses
    slot,               \* _currentFrame()
    outOfDate,             \* _isSwapchainInvalid
    model,               \* _models, or NoModel
    cache,               \* _texturesInfo: file names, with _textures beside them
    bound,               \* files bound to the model's renderer, in order
    failures             \* creation calls that failed so far

graphicsVars == <<phase, plan, alive, spare, work, slot, outOfDate, model, cache, bound, failures>>

NoModel == "none"
FrameSlots == 1 .. kFramesInFlight
RingSlots == 1 .. kReadbackRingSize

Instance == <<"instance", 0>>      Messenger == <<"messenger", 0>>
Surface == <<"surface", 0>>        Device == <<"device", 0>>
Swapchain == <<"swapchain", 0>>    Views == <<"views", 0>>
Pool == <<"pool", 0>>              Renderer == <<"renderer", 0>>
Buffer(r) == <<"buffer", r>>       Memory(r) == <<"memory", r>>
Sync(f) == <<"sync", f>>           Tail_(f) == <<"tail", f>>
Image(file) == <<"image", file>>

(* What an object is made from, and may not outlive.                       *)
Parent(o) ==
    CASE o[1] \in {"messenger", "surface", "device"} -> Instance
      [] o[1] = "views" -> Swapchain
      [] o[1] = "tail" -> Pool
      [] o[1] = "instance" -> Instance
      [] OTHER -> Device

Tails == {Tail_(f) : f \in FrameSlots}
Idle == [f \in FrameSlots |-> {}]

-----------------------------------------------------------------------------
(* Steps, and the functions made of them *)

Do(do, what) == [do |-> do, what |-> what]
Step(do, what) == <<Do(do, what)>>
Create(o) == Step("create", o)
Destroy(o) == Step("destroy", o)
WaitIdle == Step("wait", Device)
(* The body of a for loop: one step for each slot, or two.                 *)
ForEach(n, A(_)) == [i \in 1 .. n |-> A(i)]
ForEach2(n, A(_), B(_)) ==
    [i \in 1 .. 2 * n |-> IF i % 2 = 1 THEN A((i + 1) \div 2) ELSE B(i \div 2)]

CreateInstance == Create(Instance)
SetupDebugMessenger == IF ValidationLayers THEN Create(Messenger) ELSE <<>>
CreateSurface == Create(Surface)
(* The first device with queues, extensions, formats and anisotropy.       *)
PickPhysicalDevice == Step("pick", Instance)
CreateLogicalDevice == Create(Device)
CreateSwapchain == Create(Swapchain) \o Create(Views)
TransitionSwapchainLayouts == Step("upload", Pool)
CreateCommandPool == Create(Pool)
CreateReadbackRing == ForEach2(kReadbackRingSize, LAMBDA r : Do("create", Buffer(r)),
                                                  LAMBDA r : Do("create", Memory(r)))
CreateSyncObjects == ForEach2(kFramesInFlight, LAMBDA f : Do("create", Sync(f)),
                                               LAMBDA f : Do("create", Tail_(f)))

(* The tail command buffers are only forgotten.                            *)
DestroySyncObjects ==
    ForEach(kFramesInFlight, LAMBDA f : Do("destroy", Sync(f))) \o Step("forget", Pool)
CleanupSwapchain == Destroy(Views) \o Destroy(Swapchain)
DestroyReadbackRing == ForEach2(kReadbackRingSize, LAMBDA r : Do("destroy", Buffer(r)),
                                                   LAMBDA r : Do("destroy", Memory(r)))

InitializeGraphics ==
    CreateInstance \o SetupDebugMessenger \o CreateSurface \o PickPhysicalDevice
    \o CreateLogicalDevice \o CreateSwapchain \o CreateCommandPool \o CreateReadbackRing
    \o Step("check", Device) \o TransitionSwapchainLayouts \o CreateSyncObjects

RecreateAtOnce ==            \* without vkDeviceWaitIdle
    DestroySyncObjects \o CleanupSwapchain \o CreateSwapchain \o TransitionSwapchainLayouts
    \o CreateSyncObjects

RebuildSwapchain ==
    WaitIdle \o DestroySyncObjects \o CleanupSwapchain \o CreateSwapchain
    \o TransitionSwapchainLayouts \o CreateSyncObjects

ReleaseGraphics ==
    WaitIdle \o CleanupSwapchain \o DestroyReadbackRing \o DestroySyncObjects
    \o (IF ValidationLayers THEN Destroy(Messenger) ELSE <<>>)
    \o Destroy(Pool) \o Destroy(Device) \o Destroy(Surface) \o Destroy(Instance)

(* One texture of the setting: from the cache, or read, uploaded and bound.*)
SetupTextures(m) == ForEach(Len(TexturesOf[m]), LAMBDA n : Do("texture", TexturesOf[m][n]))

CreateRenderer == Create(Renderer)
ReleaseAllModel == Step("unmodel", Device)
LoadAssets(m) == Step("assets", m)

LoadModel(m) == WaitIdle \o ReleaseAllModel \o LoadAssets(m)

Initialize == InitializeGraphics \o LoadModel(Startup) \o Step("begin", Device)

(* LAppDelegate::Release: models, then textures, then the backend.         *)
Release == ReleaseAllModel \o Step("untexture", Device) \o ReleaseGraphics \o Step("end", Instance)

-----------------------------------------------------------------------------
(* The execution of the steps *)

Busy(do) == /\ plan # <<>> /\ Head(plan).do = do
            /\ plan' = Tail(plan)

What == Head(plan).what

(* A call with a handle its creation did not yield is undefined: it        *)
(* brings the process down, or fails.                                      *)
Crash ==
    /\ plan # <<>> /\ Head(plan).do \notin {"begin", "end"}
    /\ Head(plan).do # "unmodel" \/ Renderer \in alive
    /\ LET needed == IF Head(plan).do \in {"create", "destroy"} THEN Parent(What)
                     ELSE IF Head(plan).do = "pick" THEN Instance
                     ELSE IF Head(plan).do \in {"upload", "texture"} THEN Pool ELSE Device
       IN  needed \notin alive /\ What # Instance
    /\ phase' = "crashed" /\ plan' = <<>>
    /\ UNCHANGED <<alive, spare, work, slot, outOfDate, model, cache, bound, failures>>

(* A creation whose first half failed is not gone on with; memory that     *)
(* cannot be had takes its buffer with it.                                 *)
Prior(o) == CASE o[1] = "memory" -> Buffer(o[2]) [] o[1] = "tail" -> Sync(o[2]) [] OTHER -> Parent(o)
Undone(o) == IF o[1] = "memory" THEN {Buffer(o[2])} ELSE {}

CreateStep ==
    /\ Busy("create")
    /\ \/ /\ What = Instance \/ {Parent(What), Prior(What)} \subseteq alive
          /\ alive' = alive \cup {What}
          /\ UNCHANGED failures
       \/ /\ failures < MaxFailures
          /\ failures' = failures + 1
          /\ alive' = IF Prior(What) \in alive THEN alive \ Undone(What) ELSE alive
       \/ /\ Prior(What) \notin alive /\ What # Instance
          /\ UNCHANGED <<alive, failures>>
    /\ UNCHANGED <<phase, spare, work, slot, outOfDate, model, cache, bound>>

(* The pool takes its command buffers with it.                             *)
DestroyStep ==
    /\ Busy("destroy")
    /\ What \notin alive \/ Parent(What) \in alive
    /\ alive' = alive \ ({What} \cup IF What = Pool THEN Tails ELSE {})
    /\ spare' = IF What = Pool THEN 0 ELSE spare
    /\ UNCHANGED <<phase, work, slot, outOfDate, model, cache, bound, failures>>

ForgetStep ==
    /\ Busy("forget")
    /\ spare' = spare + Cardinality(Tails \cap alive)
    /\ alive' = alive \ Tails
    /\ UNCHANGED <<phase, work, slot, outOfDate, model, cache, bound, failures>>

(* vkDeviceWaitIdle, and the drain in SubmitCommand.                       *)
WaitStep ==
    /\ Busy("wait") \/ Busy("upload")
    /\ IF Head(plan).do = "wait" THEN Device \in alive ELSE Pool \in alive
    /\ work' = Idle
    /\ UNCHANGED <<phase, alive, spare, slot, outOfDate, model, cache, bound, failures>>

GiveUp ==
    /\ phase' = "failed" /\ plan' = <<>>
    /\ UNCHANGED <<alive, spare, work, slot, outOfDate, model, cache, bound, failures>>

(* No device is suitable: InitializeGraphics returns false.                *)
NoGpu ==
    /\ plan # <<>> /\ Head(plan).do = "pick"
    /\ failures < MaxFailures \/ Instance \notin alive
    /\ GiveUp

NoRing == plan # <<>> /\ Head(plan).do = "check" /\ (\E r \in RingSlots : Buffer(r) \notin alive) /\ GiveUp

Checked ==
    /\ \/ Busy("pick") /\ Instance \in alive
       \/ Busy("check") /\ \A r \in RingSlots : Buffer(r) \in alive
    /\ UNCHANGED <<phase, alive, spare, work, slot, outOfDate, model, cache, bound, failures>>

UnmodelStep ==
    /\ Busy("unmodel")
    /\ Renderer \in alive => Device \in alive
    /\ alive' = alive \ {Renderer}
    /\ model' = NoModel /\ bound' = <<>>
    /\ UNCHANGED <<phase, spare, work, slot, outOfDate, cache, failures>>

(* LoadAssets: without a model file neither renderer nor textures.         *)
AssetsStep ==
    /\ plan # <<>> /\ Head(plan).do = "assets"
    /\ model' = What
    /\ plan' = (IF HasMoc[What] THEN CreateRenderer \o SetupTextures(What) ELSE <<>>) \o Tail(plan)
    /\ UNCHANGED <<phase, alive, spare, work, slot, outOfDate, cache, bound, failures>>

(* The copy into the image and its mipmaps, each submitted and drained.    *)
Uploaded(file) == Pool \in alive /\ alive' = alive \cup {Image(file)} /\ work' = Idle

(* CreateTextureFromPngFile and BindTexture: a file that does not decode   *)
(* is passed over, an upload drains the queue.                             *)
TextureStep ==
    /\ Busy("texture")
    /\ IF What \in ToSet(cache)
       THEN /\ bound' = Append(bound, What)
            /\ UNCHANGED <<alive, cache, work>>
       ELSE IF What \in Broken
       THEN UNCHANGED <<bound, alive, cache, work>>
       ELSE /\ Uploaded(What)
            /\ cache' = Append(cache, What)
            /\ bound' = Append(bound, What)
    /\ UNCHANGED <<phase, spare, slot, outOfDate, model, failures>>

UntextureStep ==
    /\ Busy("untexture")
    /\ Device \in alive \/ cache = <<>>
    /\ alive' = alive \ {Image(f) : f \in ToSet(cache)}
    /\ cache' = <<>>
    /\ UNCHANGED <<phase, spare, work, slot, outOfDate, model, bound, failures>>

BeginOrEnd ==
    /\ \/ Busy("begin") /\ phase' = "loop"
       \/ Busy("end") /\ phase' = "released"
    /\ UNCHANGED <<alive, spare, work, slot, outOfDate, model, cache, bound, failures>>

-----------------------------------------------------------------------------
(* The loop *)

AtHead == phase = "loop" /\ plan = <<>>

(* A frame whose acquire, submission or presentation may invalidate the    *)
(* swapchain.  BeginFrame drains the queue; the tail the frame submits     *)
(* uses the swapchain, its slot and the slot of the ring it samples into.  *)
(* Without a tail command buffer EndFrame submits nothing and goes on.     *)
DrawModel ==
    /\ AtHead /\ ~outOfDate /\ {Swapchain, Sync(slot)} \subseteq alive
    /\ \E r \in RingSlots, drawn \in BOOLEAN :
        work' = IF drawn /\ Tail_(slot) \in alive
                THEN [Idle EXCEPT ![slot] = {Swapchain, Sync(slot), Tail_(slot), Buffer(r)}]
                ELSE work
    /\ slot' = IF work' # work THEN (slot % kFramesInFlight) + 1 ELSE slot
    /\ outOfDate' \in BOOLEAN
    /\ UNCHANGED <<phase, plan, alive, spare, model, cache, bound, failures>>

(* A frame with a swapchain or a slot that was never created.              *)
DrawNothing ==
    /\ AtHead /\ ~outOfDate /\ ~({Swapchain, Sync(slot)} \subseteq alive)
    /\ phase' = "crashed"
    /\ UNCHANGED <<plan, alive, spare, work, slot, outOfDate, model, cache, bound, failures>>

(* An invalid swapchain is recreated in every pass: nothing clears the     *)
(* flag.                                                                   *)
BetweenFrames ==
    /\ AtHead /\ outOfDate /\ spare < MaxSpare
    /\ plan' = RebuildSwapchain
    /\ UNCHANGED <<phase, alive, spare, work, slot, outOfDate, model, cache, bound, failures>>

LoadCommand(m) ==
    /\ AtHead
    /\ plan' = LoadModel(m)
    /\ UNCHANGED <<phase, alive, spare, work, slot, outOfDate, model, cache, bound, failures>>

LeaveLoop ==
    /\ AtHead
    /\ phase' = "leaving" /\ plan' = Release
    /\ UNCHANGED <<alive, spare, work, slot, outOfDate, model, cache, bound, failures>>

GpuCompletes(f) ==
    /\ work[f] # {} /\ phase \in {"loop", "leaving"}
    /\ work' = [work EXCEPT ![f] = {}]
    /\ UNCHANGED <<phase, plan, alive, spare, slot, outOfDate, model, cache, bound, failures>>

GraphicsInit ==
    /\ model = NoModel /\ phase = "init" /\ plan = Initialize /\ alive = {} /\ spare = 0
    /\ work = Idle /\ slot = 1 /\ outOfDate = FALSE /\ cache = <<>> /\ bound = <<>>
    /\ failures = 0

GraphicsNext ==
    \/ CreateStep \/ DestroyStep \/ ForgetStep \/ WaitStep \/ NoGpu \/ NoRing \/ Checked
    \/ UnmodelStep \/ AssetsStep \/ TextureStep \/ UntextureStep \/ BeginOrEnd \/ Crash
    \/ DrawModel \/ DrawNothing \/ BetweenFrames \/ LeaveLoop
    \/ \E m \in Models : LoadCommand(m)
    \/ \E f \in FrameSlots : GpuCompletes(f)

GraphicsSpec == GraphicsInit /\ [][GraphicsNext]_graphicsVars

-----------------------------------------------------------------------------
(* Properties *)

(* Whatever creation failed and whenever the loop is left, no object       *)
(* survives the one it was made from: in particular the images of the      *)
(* texture manager and the renderer of the model never survive the device, *)
(* and at the end nothing is left.                                         *)
NothingOutlivesItsParent ==
    /\ \A o \in alive : Parent(o) \in alive
    /\ phase = "released" => alive = {} /\ spare = 0

(* The tail of a frame is submitted and not waited for: nothing it uses is *)
(* destroyed, by a recreated swapchain or at the end, before it is done.   *)
InUseIsAlive == \A f \in FrameSlots : work[f] \subseteq alive

(* The images bound to the renderer of the model that is drawn exist, of   *)
(* whichever model they were first loaded for.                             *)
SampledIsAlive == \A n \in DOMAIN bound : Image(bound[n]) \in alive

(* Whatever creation fails, however often the swapchain is recreated or    *)
(* the model exchanged, and wherever the loop is left: no object outlives  *)
(* its parent or is destroyed under a frame or a model that uses it.       *)
ObjectsOutliveTheirUse == NothingOutlivesItsParent /\ InUseIsAlive /\ SampledIsAlive

(* Why. First what there is, and which steps there are in each phase: a    *)
(* model is loaded in two of them, the ring is made in one and destroyed   *)
(* in another.                                                             *)
Syncs == {Sync(f) : f \in FrameSlots}
Buffers == {Buffer(r) : r \in RingSlots}
Images == {Image(file) : file \in Files}
Drawn == {Swapchain} \cup Syncs \cup Tails \cup Buffers
Handles ==
    {Instance, Surface, Device, Views, Pool, Renderer} \cup Drawn \cup Images
    \cup {Memory(r) : r \in RingSlots} \cup (IF ValidationLayers THEN {Messenger} ELSE {})

Doing(do, things) == {Do(do, o) : o \in things}

LoadSteps ==
    Doing("wait", {Device}) \cup Doing("unmodel", {Device}) \cup Doing("assets", Models)
    \cup Doing("create", {Renderer}) \cup Doing("texture", Files)
BootSteps ==
    LoadSteps \cup Doing("create", Handles \ Images) \cup Doing("pick", {Instance})
    \cup Doing("check", {Device}) \cup Doing("upload", {Pool}) \cup Doing("begin", {Device})
LoopSteps ==
    LoadSteps \cup Doing("destroy", Syncs \cup {Views, Swapchain}) \cup Doing("forget", {Pool})
    \cup Doing("create", Syncs \cup Tails \cup {Views, Swapchain}) \cup Doing("upload", {Pool})
LeaveSteps ==
    Doing("unmodel", {Device}) \cup Doing("untexture", {Device}) \cup Doing("wait", {Device})
    \cup Doing("destroy", Handles \ (Images \cup Tails \cup {Renderer}))
    \cup Doing("forget", {Pool}) \cup Doing("end", {Instance})

StepsOf(p) ==
    CASE p = "init" -> BootSteps [] p = "loop" -> LoopSteps [] p = "leaving" -> LeaveSteps
      [] OTHER -> {}

GraphicsTypeOK ==
    /\ phase \in {"init", "loop", "leaving", "released", "failed", "crashed"}
    /\ plan \in Seq(StepsOf(phase))
    /\ alive \subseteq Handles /\ work \in [FrameSlots -> SUBSET Drawn] /\ slot \in FrameSlots
    /\ cache \in Seq(Files) /\ bound \in Seq(Files)
    /\ \A file \in Files : Image(file) \in alive <=> file \in ToSet(cache)
    /\ \A k \in DOMAIN plan : plan[k].do \in {"begin", "end"} => k = Len(plan)

(* The ring is whole once it was looked at, and is not touched after that. *)
TouchesRing(step) == step.do = "check" \/ (step.do = "create" /\ step.what[1] = "memory")
RingIsChecked ==
    phase = "init" =>
       /\ work = Idle
       /\ \A j, k \in DOMAIN plan : plan[j].do = "check" /\ TouchesRing(plan[k]) => k <= j
       /\ \/ \E k \in DOMAIN plan : plan[k].do = "check"
          \/ Buffers \subseteq alive /\ \A k \in DOMAIN plan : ~TouchesRing(plan[k])

(* In the loop, nothing goes before the queue was waited for, and a        *)
(* swapchain goes right after its views.                                   *)
LoopDestroysInOrder ==
    phase = "loop" =>
       /\ Buffers \subseteq alive
       /\ \A k \in DOMAIN plan : plan[k].do \in {"destroy", "forget"} =>
             work = Idle \/ \E j \in 1 .. k - 1 : plan[j].do = "wait"
       /\ \A k \in DOMAIN plan : plan[k] = Do("destroy", Swapchain) =>
             IF k = 1 THEN Views \notin alive ELSE plan[k - 1] = Do("destroy", Views)

(* The order of Release, and the step that ends an object.                 *)
Rank(step) ==
    CASE step.do = "unmodel" -> 0 [] step.do = "untexture" -> 1 [] step.do = "wait" -> 2
      [] step.do = "forget" -> 7 [] step.do = "end" -> 13
      [] OTHER -> LET kind == step.what[1]
                  IN  CASE kind = "views" -> 3 [] kind = "swapchain" -> 4
                        [] kind \in {"buffer", "memory"} -> 5 [] kind = "sync" -> 6
                        [] kind = "messenger" -> 8 [] kind = "pool" -> 9
                        [] kind = "device" -> 10 [] kind = "surface" -> 11
                        [] OTHER -> 12
InOrder(q) == \A j, k \in DOMAIN q : j < k => Rank(q[j]) <= Rank(q[k])
End(o) ==
    CASE o \in Images -> Do("untexture", Device) [] o \in Tails -> Do("forget", Pool)
      [] o = Renderer -> Do("unmodel", Device) [] OTHER -> Do("destroy", o)

(* On the way out, what is alive is still to be ended, each before what it *)
(* was made from, and after the queue and the model that use it.           *)
ReleaseEndsAll ==
    phase = "leaving" =>
       LET left == ToSet(plan)
       IN  /\ InOrder(plan)
           /\ \A o \in alive : End(o) \in left
           /\ (spare # 0 \/ Do("forget", Pool) \in left) => Do("destroy", Pool) \in left
           /\ bound # <<>> => Do("unmodel", Device) \in left
           /\ work # Idle => Do("wait", Device) \in left

GraphicsInv ==
    GraphicsTypeOK /\ ObjectsOutliveTheirUse /\ RingIsChecked /\ LoopDestroysInOrder /\ ReleaseEndsAll

(* REFUTED: "tail command buffers are freed with the command pool"         *)
(* (VulkanBackend.cpp:656): the pool is destroyed at exit only, and every  *)
(* recreation of the swapchain forgets one buffer per frame slot.          *)
TailsAreFreed == spare <= kFramesInFlight

(* REFUTED: IGraphicsBackend.hpp:33 has InitializeGraphics return true for *)
(* success.  A creation that fails is logged and gone on from.             *)
InitializedIsWhole == phase = "loop" => {Pool} \cup {Sync(f) : f \in FrameSlots} \subseteq alive

(* REFUTED: SetupTextures numbers the textures of the setting              *)
(* (LAppModel.cpp:771) and BindTexture appends: behind a file that does    *)
(* not decode, every texture takes the number before its own.              *)
NumbersMatch ==
    plan = <<>> /\ model # NoModel =>
        \A n \in DOMAIN bound : n <= Len(TexturesOf[model]) /\ bound[n] = TexturesOf[model][n]
=============================================================================
