# Verification of desktop_pet

TLA+ models of the control panel (`src/controller_qt`, C++/Qt) and of its
renderers (`src/renderer`, C++), with TLC configurations and TLAPS proofs. Paths
below are relative to the repository's `src/` directory; `core/` is short for
`controller_qt/src/core/`.

Contents: 1 the system, 2 the modules, 3 the correspondence with the code,
4 runs and bounds, 5 fairness, 6 proofs, 7 what is only model-checked,
8 findings, 9 abstractions and what is not modelled, 10 plan.

## 1. The system

One **panel** process hosts any number of pet **instances**. An instance is an
`InstanceSession` object: its configuration, a child process (the renderer, a
QProcess), and a WebSocket over which the renderer, once up, dials back with a
token of its command line. Everything of the panel runs on the Qt main thread,
so a handler or a slot is atomic and the concurrency is that of the *events*:
user clicks, plugin calls, timers, process signals, socket signals, queued
signals. Slots connected directly run inside the emitter's step; queued ones
(and `deleteLater`) are events of their own; a callback to a plugin, a listener
or an observer runs in the middle of the call that makes it and may call back.
The renderer has a socket thread, a frame loop and a GPU, and as a process may
do anything, including ignoring a shutdown.

The inventory. *Status* is that of `PROJECT.json`, which says for every part
what of it is left out.

| Component | State | Operations and events | What is hard, what must hold | Status |
|---|---|---|---|---|
| `ProcessManager` | QProcess state, stop in flight, kill issued, manual flag, elapsed time, posted completions | launch, exit, failed launch, `stop()`, poll tick, completion | exits, errors, ticks and completions in any order; one completion per stop, also if the kill is not reaped; flags never leak into the next stop | modelled |
| `InstanceSession` lifecycle | status, connected, model loaded, manual flag, parked start, delete pending, monitor and idle timers | start, stop, restart, delete, `ready`, `model_loaded`, exit, completion | late events of a dying renderer, parked starts, retries after a stop or a delete | partly |
| `RestartController` | attempts, armed timers | schedule, retry, reset | nobody cancels an armed retry | modelled |
| `InstanceManager`, exit in `qml/Main.qml` | roster, pending deletes, stopAll flag, exit flags, watchdog | create, two-phase delete, stopAll, completion slot, exit | deletes, restarts, retries and the wave interleave; the exit must happen | partly |
| Panel persistence (`PanelStateManager`, `PanelConfig*`, `WindowStateSaver`, instance rows) | rows, one blob with roster and preferences, caches | four load-modify-save writers, boot | failed queries and writes, crashes between two statements, lost updates | partly |
| Image assets (`AssetManager`) | asset rows, files, references, the logo's id | import, delete, set and reset logo and icons | no transaction: file, row and reference can part | partly |
| Directories (`ConfigDir`, boot of `main.cpp`) | legacy and new directory, lock | migration, scaffold, lock, open | a crash or a second launch in the middle of the copy | partly |
| Pet layout | window, layout and dials on both sides and on disk | drag, resize, scroll, salvo, re-push, reports | edits that cross a load, a replay or a lost link | modelled |
| `WsServer` | registered tokens, sockets, ready timers | gates, accept, replace, timeout, drop, close | a new socket before the end of the old one is seen | modelled |
| Protocol and dispatch (`PendingRequests`, `MessageDispatcher`) | expectations with timers | expect, response, timeout | timeout against a late answer, reuse of an id inside a slot | partly |
| Model switching | configured model, rollback record, tracked path, in-flight flag, parsed metadata | `loadModel`, verdicts, salvo | verdicts do not name a model to the session; lost verdicts; offline switches | partly |
| Behaviour engines (`Scheduler`, `InteractionHandler`, `MountedBehaviorEngine`) | timer, pause, cooldown, mounted pack | tick, hit, mount, model loaded, motion finished | a behaviour whose motion is refused, preempted or gone | partly |
| `EventBus`, `RuleEngine`, `RuleEngineService` | subscriptions, call stack, rules, fires, context | publish, subscribe, register, remove, reload, dispatch | re-entrance, the depth limit, rules changed by their own actions, plugins that fail half-way through their start | modelled |
| Plugin host and API | plugins, their states and bookings, observers, domains, the scanned union | discover, boot, shut down, fan-outs, calls | order, budget, callbacks that change the list being walked, calls nested in callbacks | partly |
| Downloads and packs | jobs, replies, `.part` files, installed trees | start, cancel, reply, verify, install | a listener cancelling inside its callback, two jobs of one name, a replacement that fails | modelled |
| Renderer network | inbound queue, connection, ready state, two timers | receive, poll, reconnect | drop-oldest queue, a reconnect between two polls, an orphan renderer | partly |
| Renderer frame loop (Vulkan) | fences, tail command buffers, swapchain, readback ring and its cached result | pass, acquire, sample, submit, present, resize | a fence that is reset and never signalled, a wait for a semaphore that is not signalled either, stale readbacks | modelled |
| Renderer graphics objects | Vulkan objects, textures, models | init, load, recreate, exit | an object destroyed under a frame or a model that uses it | partly |
| Renderer motion and audio | motion queue, priorities | play, stop, finish | a priority or reservation that outlives its motion | partly |
| Application shell | boot and shutdown order | boot, shutdown | two loads of the roster's blob, sink installed after the roster | partly |
| UI models, QML pages, system integration, OpenGL backend, build, vendored code | | | projections, I/O, devices | not modelled |

How they interact: `InstanceManager` owns the sessions, calls `start`, `stop`,
`restart`, `setDeletePending` and listens to `stopFinished`; a session owns its
`ProcessManager` and `RestartController`, registers its token with `WsServer`
and is called back by it (`onConnectionStateChanged`, messages); `Main.qml`
calls `stopAll()` and awaits `stopAllFinished` under a watchdog of 12 s;
roster, settings page, settings API of the plugins and window saver share one
row of the database; sessions publish on the bus, the rule service listens to it
and acts on sessions; plugins reach all of it through the plugin context and are
called back by the bus, by the fan-outs and by the download service.

## 2. The modules

```
   StopContract            ManagedSession -- SessionContract
        ^                        ^                 ^
        | refines                | refines         | is built on
   ProcessManager <-extends- InstanceSession   InstanceManager

   WsServer   PendingRequests      EventBus   RuleEngine    FramePacing    MotionPlayer
        ^        ^                     ^        ^               ^               ^
        MessageLayer                  RuleService          RendererLoop     Behaviour

   ArchiveInstall      PluginHost        PluginApi    PanelStore   AssetStore
        ^                  ^                          PetLayout    ConfigMigration
   DownloadService    PluginObservers                 ModelSwitch

   VulkanLimits is extended by FramePacing and GraphicsObjects.
```

The arrows without a label are EXTENDS: the lower module composes the upper ones.

| Module | What it is |
|---|---|
| `ProcessManager` | the renderer process and the event-driven stop state machine |
| `StopContract` | abstract: what `stop()` and `stopFinished` promise, without polling, clock or kill |
| `InstanceSession` | one instance: ProcessManager + restart ladder + the instance's slot of the server + the renderer at the other end |
| `SessionContract` | abstract: what one call or event may turn a session into, seen from the manager (sets of successors of a record) |
| `ManagedSession` | the specification "any sequence of those", that InstanceSession is shown to implement |
| `InstanceManager` | roster, two-phase delete, stopAll wave, exit; its sessions are SessionContract records |
| `PanelStore` | the two tables that survive, their writers, faults and crashes |
| `AssetStore` | the image library: files, rows and uses, without a transaction |
| `ConfigMigration` | the one-time move of the configuration directory before the lock of the single panel |
| `PetLayout` | place, width, layout and dials of a pet in the session, on disk and on screen, with both queues |
| `ModelSwitch` | the switch of the model, its verdicts and its rollback, across links and processes |
| `WsServer`, `PendingRequests`, `MessageLayer` | the server for several instances; the expectations; the route of a frame through both |
| `EventBus`, `RuleEngine`, `RuleService` | the bus with its call stack; the rules as pure operators on an engine value; the service, its sources and the plugins around it |
| `ArchiveInstall`, `DownloadService` | what is decided about an archive; the jobs, their files by inode, the callbacks under way |
| `PluginHost`, `PluginObservers`, `PluginApi` | life and sweeps of the plugins; the lists that are walked backwards while callbacks change them; the calls on instances and resources |
| `MotionPlayer`, `Behaviour` | motions and priorities in the renderer; scheduler, pack engine and interaction handler at the other end of the wire |
| `FramePacing`, `RendererLoop` | fences, swapchain and ring of the Vulkan backend; the main loop with the socket thread and the timers |
| `VulkanLimits` | the two sizes the Vulkan backend is compiled with, shared by the two modules above and below |
| `GraphicsObjects` | the lifetimes of the Vulkan objects, textures and models from start to exit |
| `MC*` | one per run: the values that are not model values, and what is said in the next paragraph |
| `*Proofs` | theorems and proofs; section 6 says about which modules |

Why these compositions. `ProcessManager`'s `exited()` is emitted synchronously,
so the session's slot belongs to the same step; InstanceSession therefore
extends ProcessManager and conjoins its slots with ProcessManager's actions
rather than exchanging messages with it. What ProcessManager assumes of its
owner (no launch during a stop) is `OwnerStarts`, and InstanceSession is
checked *and proved* to respect it (`DrivesProcessManager`). A manager over two
full sessions would have some 10^11 states; the manager depends on six facts of
a session only, so it is built on the contract, and
`InstanceSession => ManagedSession` is checked and proved.

Three MC modules put modules that do not interact side by side: a variable
chosen once (`part` in `MCPanelStore`, `side` in `MCPlugins` and `MCRenderer`)
says which of them the behaviour is about, and the others stay in an initial
state. That is a way to check several specifications in one run, not a claim
about their interleaving: roster, images and pet share no row of the database,
the directory has its place before the database is opened, the frame loop and
the lifetimes of its objects are two views of the same calls, and what plugins
book with the host and what their calls do to instances meet only in the bus,
which is modelled in RuleService.

## 3. Correspondence with the code

The exact lines of every definition are in `PROJECT.json`, "map". In outline:

| Code | Definition |
|---|---|
| `ProcessManager::startRenderer` | `StartRenderer` (ignored, refused synchronously, or forked) |
| `onFinished`, `onErrorOccurred` | `Finished`, `FailedToStart` |
| `stop` | `StopAbsorbed`, `StopWithoutProcess`, `StopProcess` |
| `onStopPollTick` | `TickObservesExit`, `TickKills`, `TickAbandons`; the clock is `WindowPasses` |
| `finishStop`, queued `stopFinished` | `FinishStop`, `posted`, `EmitStopFinished` |
| `InstanceSession::start` | `StartBody`, reached from `UserStart`, `RetryFires` and `StopFinished` |
| `stop`, `restart`, `setDeletePending` | `UserStop`, `UserRestart`, `UserDelete` |
| `onProcessExited`, `onProcessStopFinished` | `ExitedSlot` in `ProcessExits` and `ProcessFailsToStart`; `StopFinished` |
| `RestartController` | `ScheduleRestart`, `RetryFires`, the reset in `ConnectionAccepted` |
| `createInstanceScoped`, `deleteInstance`, `finishInstanceDeletion` | `CreateInstance`, `DeleteInstance`, `Remove`; for the store, `CreateInstance`, `DeleteInstance`, `PersistRoster` |
| `onSessionStopFinished`, `stopAll` | `CompletionArrives`, `StopAll` |
| `doExit`, `finishExit`, `exitWatchdog` of `Main.qml` | `DoExit`, the `exit` part of `CompletionArrives`, `WatchdogFires` |
| `PanelStateManager::load`, `save` | `LoadedPrefs`, `LoadedIds`, `SavePanel` |
| settings API, `saveWindowState`, `PanelConfigController` setters | `WriteSetting`, `PickSetting` |
| `AssetManager` | `ImportImage`, `DeleteAsset`, `SetLogo`, `ResetLogo`, `SetInstanceIcon` over `DatabaseManager`'s `InsertAsset`, `Reattach`, `InUse` ... |
| `migrateLegacyIfNeeded`, `ensureDirectories`, the lock of `main` | `MigrationSkipped`, `MigrationBegins`, `CopyFile`, `RenameLegacy`, `Scaffold`, `TryLock` |
| `loadModel`, `applyModelLoadFailure` | `LoadModel`, `RolledBack` |
| `WsServer::onNewConnection`, `onTextMessageReceived`, `onDisconnected`, ready timer | `Gate`, `Accepted`, `Rejected`, `TextReceived`, `TextDropped`, `OnDisconnected`, `ReadyTimeout` |
| `PendingRequests` | `ExpectResponse`, `HandleResponse`, `TimesOut`, `SlotReturns` |
| `EventBus::publish`, `subscribe`, `unsubscribe*` | operators `Published`, `Subscribed`, `Unsubscribed` on the call stack and the table, applied by RuleService; a frame of `stack` per open publish |
| `RuleEngine` | operators on an engine record: `Compiled`, `Upserted`, `Removed`, `ShouldFire`, `FireRecorded`; `orderedRules()` is RuleService's `OrderedRules`, of the rules an event concerns |
| `RuleEngineService::onEvent` and its actions | `SkipRule`, `FireRule`, then `Act` or `ActPublish`, one action of a rule per step: a publish calls listeners before the next action |
| `DownloadService` handlers | one action each; `stack` holds the callbacks under way and what the handler does after them |
| `PluginHost::initializeAll`, `shutdownAll` | `InitializeAll`, then `CreateInstance`, `Initialized`, `InitializeFailed`; `ShutdownAll`, then `Shutdown`, `Swept`, `Unloaded`, one plugin after the other. RuleService has the same life, seen from the rules: `StartPlugin`, `InitializeReturns`, `InitializeFails`, `ShutdownBegins`, `StopPlugin`, and `NextEra` for the event loop between them |
| fan-outs of `PluginContextImpl.cpp` | `fan`: the index of the loop and what a callback does between two turns |
| `Scheduler`, `MountedBehaviorEngine`, `InteractionHandler` | `Receive` and its branches in Behaviour; the renderer's side is `Obey`, `Motion`; `stop()`, `onProcessExited` and a dropped link are `StopSession`, `RendererCrashes`, `LinkDrops` |
| `LAppDelegate::Run`, `PollNetworkMessages` | `DrawOrSkip`, `PollConnected`, `PollDisconnected`, `Dispatch`, `EndOfPoll` |
| `VulkanBackend` | `Pass` in FramePacing: `BeginFrame` is `SkipFrame`, `RenderHangs` and the guard of `DrawFrame`, which goes on with `Sampled` and then `EndFrame` or `NoTail`; `RecreateSwapchain`, `PollReadbackRing`, `Answer` (`IsPixelTransparent`); the sequences of `Create`, `Destroy` and `Step` in GraphicsObjects |

State is named as in the code without `m_`; each VARIABLES line names its
member. `m_manuallyStopping` exists twice in the code and so does it here:
`manuallyStopping` is ProcessManager's, `userStopping` the session's.

Definitions commented "Mutant of ..." (or followed by the plausible mistake they
make) are bugs of the definition they precede; nothing refers to them. Each
property of a passing run has at least one that it rejects.

## 4. Runs and bounds

Run any of them with `tlc -config <cfg> <module>`.

| Run | Module, cfg | Distinct states | Shows |
|---|---|---|---|
| `session` | `MCInstanceSession` | 319,457 | the inductive invariant of a session; it drives ProcessManager as assumed, is a ManagedSession, keeps the stop contract with its liveness, and executes a parked restart in the end |
| `manager` | `MCInstanceManager` | 118,446 | pending deletes are backed, final and complete; the exit happens and, but for the watchdog, only when all is down |
| `panel_store` | `MCPanelStore` | 1,066,717 | settings, roster, images, directory, place and layout: what comes back after which faults |
| `model_switch` | `MCModelSwitch` | 452,855 | configured, drawn and parsed model agree once the link is quiet; rejected models are undone; switches are decided |
| `rules` | `MCRules` | 833,657 | nested publishes stay within the cap and return, or come to a listener that a failed plugin left; a rule outlives its owner only if `initialize()` failed, and all are served; one-shot and cooldown hold through re-entrance and replacement |
| `downloads` | `MCDownloads` | 604,731 | what is reported as finished is what was hashed; what is installed passed the gates and is whole; verdicts are final but for one way; a cancel is answered |
| `server` | `MCServer` | 115,193 | sessions are told what the table holds and hear the latest socket only; expectations end; a socket that does not say ready is dropped |
| `renderer` | `MCRenderer` | 762,887 | only a failed acquire or a missing tail command buffer gets the main thread stuck; click-through is answered from the newest sample while it is in flight; the newest command is kept and order is; objects outlive their use; an orphan that is not stuck closes |
| `behaviour` | `MCBehaviour` | 322,782 | no reservation or priority without cause; idle motions interrupt nothing; the paused scheduler is resumed |
| `plugins` | `MCPlugins` | 800,126 | a stopped plugin is not called; what stays subscribed is told; what was removed is not resolved; the mounted pack is the configured one |
| `session_crash_retried` | `MCInstanceSession`, `MCSession_CrashIsRetried` | | counterexample, section 8 |
| `renderer_gap_ends` | `MCRenderer`, `MCRenderer_GapEnds` | | counterexample, section 8 |

A property of a run may be a conjunction whose parts are defined above it with
their own comments (`RosterIsKept`, `ISInv`, `ExitIsOrderly` ...).

The bounds, each a CONSTANT of the module or named in a guard:

| Bound | Where | Value | What it cuts, and why the value is enough |
|---|---|---|---|
| `MaxPosted` | `stop()` is called with fewer queued completions | 2 | Only user calls are cut, never a completion in flight. Two is what it takes for a completion to meet a parked start, or a delete, of another stop |
| `MaxAttempts` | `kMaxAttempts`, 5 in the code | 1 | one armed, then exhausted; the ladder is the same for every length. Two were checked with the same result; the proofs hold for all |
| `MaxArmed` | a renderer crashes with fewer retry timers armed | 1 | a retry can meet a start of the user, a stop, a delete. Two at once were checked with the same result; the proofs hold for all |
| `MaxSettled` | as MaxPosted, for the manager | 2 | same |
| `Uuids` | instances | 2 | manager: the wave needs a row to stop and another one to be started, created or deleted meanwhile. Store: an order, and one that stays when the other goes; the proofs hold for all |
| `Fields`, `PanelFields`, `Values` | preferences | 2, 1, 2 | one cached by the settings page and one not; a lost update needs two fields |
| `Images`, `MaxAssetId`, `IconOwners` | image library | 2, 3, 1 | a re-import after a delete gets a third id; logo and icon are two uses of different kinds |
| `MaxEdits`, `MaxAsked`, `MaxLosses`, `MaxMoves` | edits of the user, commands of the panel, losses of the link or a program, all together | 2, 1, 1, 3 | two edits can fall on either side of a load, a replay or a loss. `Places` and `Widths` have two values each so that a resize moves the centre and can leave the screen |
| `Panels`, `Files` | processes, legacy files | 2, 2 | `app.db` and another; two launches |
| `Models` | | 5 | the five kinds: host model present, host model missing, plugin model found, plugin model gone, and gone while the host has its bare name |
| `MaxQueued` of ModelSwitch | a switch is made with fewer messages on the link | 2 | messages already under way are never cut; a verdict of another load and the one meant |
| `MaxPublishDepth` | 8 in the code | 3 | a publish inside an action inside a publish, and the refused one above |
| `MaxRules` | 200 in the code | 4 | panel, instance and plugin rules reach it, and an upsert at the limit is refused |
| `MaxClock`, `MaxCalls` of RuleService | ticks of the clock, calls from outside the service | 2, 3 | a cooldown and an idle threshold are met and missed; a claim, a registration and an event in one run. The start and the end of a plugin are not calls and always possible |
| `Wanted`, `Rows` of RuleService | events the plugins subscribe, rows of the roster | 5, 1 | one plugin listens to a hit and to the other's end, the other to the first's start and to its own events; models differ in nothing the rules look at but their text |
| `MaxJobs`, `MaxDepth`, `MaxCalls` of DownloadService | jobs, nested callbacks, calls of one callback | 2, 2, 2 | two jobs of one name; a cancel or a start from inside the other's callback |
| `Size` | chunks of a body | 2 | a prefix and a tail |
| `MaxSockets`, `MaxOutgoing`, `Tokens` | server | 2, 1, 1 | replaced and replacing socket; one frame of either under way. The second of the two instances has none and is the cross-talk case |
| `Ids`, `MaxExpectations`, `MaxSlots` | expectations | 1, 3, 2 | the superseded, the outer and the one expected inside the slot. A behaviour has one expectation, or the sockets of one instance (`side` of `MCServer`): no step of the table looks at an instance |
| `kFramesInFlight`, `kReadbackRingSize` | as in the code | 2, 3 | |
| `kMaxQueueSize`, `MaxDrained`, `MaxReceived` | inbound queue (1000 in the code), messages of one poll, of a run | 2, 1, 3 | one more than the queue holds, a batch that one poll does not empty |
| `MayLackTail` | frame slots whose tail command buffer may fail to be allocated | {1} | one slot with and one that may be without; the proofs hold for all |
| `MaxFailures`, `MaxSpare` | failing creations, leaked buffers | 2, 4 | a failure on top of another; two recreations |
| `MaxInFlight`, `MaxQueued` of Behaviour | messages one way, motions queued | 1, 3 | a hit, an idle tick and a user's motion overlap while one fades |
| `MaxDepth`, `MaxCalls` of PluginApi | nested calls, calls of one event | 2, 2 | an observer calls back, from a call that was one |
| `Faults`, `assetFaults`, `configFaults` | chosen at Init | all subsets | a property is conditioned on the kinds of fault it survives, so one run answers for each kind |

Deadlock is checked in `session` and `model_switch`. Everywhere else the system
really stops: `Qt.quit()` ends the event loop, a renderer closes or crashes, a
service is shut down, or a bound of the run is used up.

Constants that are not bounds: `HasIdleMotions` (a model without idle motions
starts no scheduler) and `KillReaps`. The latter says that a killed process is
gone before the second window ends; the passing run takes FALSE, the harder
case. The statements the manager refutes are refuted with TRUE as well, so that
none of them rests on a renderer that survives a kill. `SubmitMayFail`,
`AcquireResults`, `PresentResults` and `MayLackTail` say what the driver answers.

No symmetry is used: several runs check liveness, and where none does the sets
are too small to gain by it.

## 5. Fairness

Weak fairness but for one case, and only of what the panel's event loop, the
renderer's frame loop or the GPU does by itself:

| Specification | Fair | Because |
|---|---|---|
| `PMSpec` | `WindowPasses`, `StopPollTick`, `DeliverStopFinished` | time passes; a repeating QTimer runs exactly while a stop is in flight; posted events are delivered |
| `ISSpec` | the same three, with their slots, and `RetryFires` | a single-shot QTimer nobody stops |
| `IMSpec` | `WatchdogFires`, `StopSettles(u)`, `CompletionArrives(u)` | a QML Timer; the settlement is StopContract's liveness, checked in `session` |
| `MSwSpec` | `Handle`, `Announce`, `RendererLoads`, `ReadyTimeout`, `PeerGone` | the session handles what arrives; the frame loop polls once per frame; the server's ready timer; the close of a socket whose peer is gone |
| `RuleSpec` | `Dispatch` | straight-line code of the GUI thread; `api/IEventApi.hpp` requires a listener to return |
| `DownloadSpec` | returns of callbacks and the deferred cleanup; strong: `FinishCancelled(j)` | the event loop delivers `finished()` of an aborted reply and posted calls. It is strong because the callbacks of other jobs disable it again and again, while the posted event stays in the queue |
| `LayerSpec` | slots return, each expectation's timer, each instance's ready timer | single-shot QTimers |
| `RendererSpec` | the main thread, the GPU, the two timers of the connection | the loop never blocks but on the fence, or behind a failed acquire (`hung`, in which no action of it is enabled); the GPU finishes what was submitted; the timers are read in every pass |
| `BehaviourSpec` | `Receive`, `Obey`, `Motion` | both ends read their queue in every turn of their loop; a motion that plays comes to its end (no caller makes one loop) |

Nothing is assumed of the user, of the plugins, of the network, or of the
renderer's process: it need not start, connect, send, or exit, not even when
killed. `Disconnect` is not fair (a link may hold for ever), neither is
`Connect`. `RestartIsExecuted`, `SwitchIsDecided` and `PausedIsResumed` have the
form `<>[][~A]_vars => ...`: a user who restarts for ever, or a renderer that
reconnects for ever, can postpone any outcome.
`MSwSpec` does assume that a *live, connected* renderer runs its frame loop: a
renderer that hangs on a healthy link is never noticed by the panel once it has
sent `ready`, and its switch stays undecided.

## 6. Proofs

`tlapm <Module>.tla` proves each of these for every value of the constants that
satisfies the module's ASSUMEs: bounds are naturals (most of them positive),
the markers for "none" are not among the values they stand for, subsets are
subsets. RuleService assumes besides that both sides of the bus take the same event
ids, that names are texts, and of rule documents that an id is not empty and a
number is a number. The sets of instances, models, sockets, names, files, plugins,
observers may be of any size, empty ones included. Where a run checks a
composition, the theorem is about the component's own specification, and where
a property is not inductive the run checks the invariant it was strengthened to.

| Module | Obligations | Theorems |
|---|---|---|
| `RendererLifeProofs` | 3421 | ProcessManager: `PMInvariance`; `KillBelongsToCycleHolds`, `StopInFlightIsManualHolds`; `KeepsStopContract` (safety of the refinement). InstanceSession: `SessionDrivesProcessManager`; `ISInvariance` and its five parts; `DeleteIsFinalHolds`. Refinement of the contract: `SessionIsManaged`. GraphicsObjects: `GraphicsInvHolds`, `ObjectsOutliveTheirUseHolds` |
| `InstanceManagerProofs` | 1000 | InstanceManager: `IMInvariance`, `PendingDeleteIsBackedHolds`, `DoomedIsPendingHolds`, `PendingStaysDownHolds`, `QuitsOnlyWhenDownHolds`. ModelSwitch: `MSwInvariance`, `MSwTypesHold`, `QuietIsDecidedHolds`; `AwaitedInvariance`, `RejectedIsUndoneHolds`, `LoadedIsShownHolds` |
| `PanelStoreProofs` | 2993 | PanelStore: `RosterIsKeptHolds`, `SettingsAreKeptHolds`; AssetStore: `AssetUsesAreSoundHolds`; ConfigMigration: `MigrationIsSafeHolds`; PetLayout: `PetInvHolds`, `PetIsRestoredHolds`; all together: `ConfigurationIsKeptHolds`, `StoreIsSound` |
| `ConnectionProofs` | 1270 | MessageLayer: `LayerInvHolds`, `ToldIsTrueHolds`, `OnlyTheLatestIsHeardHolds`. FramePacing: `OnlyFaultsWedgeHolds`, `NoFaultNeverWedges`, `AnswersAreCurrentHolds`; RendererLoop: `LoopInvHolds`, `CommandsAreInOrder` |
| `RuleProofs` | 2503 | EventBus, RuleEngine and RuleService: `DispatchInvHolds`, `DispatchIsSoundHolds`; `ServedInvHolds`, `RulesAreServedHolds`; `FiresInvHolds`, `FiresAreSpacedHolds` |
| `BehaviourProofs` | 586 | MotionPlayer and Behaviour: `BehaviourInvHolds`, `PrioritiesAreBackedHolds`, `IdleNeverInterruptsHolds` |
| `DownloadProofs` | 1144 | `DownloadInvHolds`, `VerifiedIsWholeHolds`, `VerdictsAreFinalHolds`, `TreeIsSoundHolds` |
| `PluginProofs` | 1380 | PluginApi: `RemovedIsForgottenHolds`, `MountIsRecordedHolds`; PluginHost and PluginObservers: `PluginInvHolds`, `EveryRemainingIsToldHolds`; both: `BorderHolds` |

Every invariant that a run checks is proved, and so is every step property; what is
left is liveness (section 7). Four of
the inductive invariants stand behind a property of a run and are not in a
`.cfg` themselves: `PetInv`, `GraphicsInv`, `ServedInv`, `FiresInv`. Each was
checked as an additional INVARIANT of its run before it was proved, and can be
again.

The arguments:

- **ProcessManager.** `PMInv` = types, `KillBelongsToCycle`,
  `StopInFlightIsManual`. The two are inductive together: the poll tick kills
  only during a stop, and whatever ends the stop clears the mark. The manual
  flag survives an abandoned stop, and is lowered by `Finished` in the same step
  that ends the cycle. `KeepsStopContract` maps every step: a tick or an exit
  that finishes a stop is `Settle`, a failed launch is `Gone`, windows and kills
  stutter.
- **InstanceSession drives ProcessManager.** Each of its steps implies a step
  of PMNext or leaves ProcessManager alone. From this `PMInv` is inherited:
  `ISSpec => PMSafety` and `PMInv` is inductive under PMNext.
- **InstanceSession.** `ISInv` adds `SlotInv` (the protocol has a stage exactly
  when the server holds a socket) and `DoomedParksNothing`. Without the first,
  `ConnectedHasSocket` is not inductive: the `ready` of a dropped socket would
  reconnect the session. Without the second, `DeleteIsFinal` fails at the
  completion of a stop. `QueuedStartBacked` needs that `finishStop` posts in the
  step in which it lowers the in-flight flag; `StoppedRendererIsDoomed` needs
  that no exit of a stopping renderer changes the status.
- **SessionIsManaged.** The map forgets all but liveness, the stop, the number
  of completions, the parked start, the doom and whether some retry is armed.
  One lemma per contract operator computes its successors on a mapped record
  (`StartsView` ...), one lemma per group of actions shows the mapped step to be
  one of them (`CallsSeen`, `ExitsSeen`, `PollSeen`, `RetrySeen`,
  `StopFinishedSeen`). A retry that fires maps to `Retries` with a choice of
  whether another is armed.
- **InstanceManager.** `IMInv` adds `StopHasRoom` (a stop in flight has room for
  its completion, or `settled` would leave its type), `RemovedIsGone` (a removed
  row is not in the roster and is never minted again) and `UnmintedIsIdle` (a
  uuid without a session has the Idle record). All moves of one session are
  treated at once: `Keeps(s, t)` is what the manager needs of a move, each
  contract operator keeps it, and `MovesPreserve` lifts that to the invariant;
  deletes, completions and the exit have their own lemmas. `QuitsOnlyWhenDown`
  needs no invariant: the watchdog disarms itself when it fires, a completion
  that ends the wave has looked at the very roster it leaves.
- **ModelSwitch, decided.** `MSwInv` = types, `InFlightIsRecorded` and `QuietIsDecided`.
  `InFlightIsRecorded` is what makes a rollback typed: only an unconfirmed
  switch is rolled back, and its first switch recorded a model. `QuietIsDecided`
  holds because each way to become quiet handles a verdict, which lowers the
  flag, or a `ready`, which queues a command.
- **ModelSwitch, shown.** `LoadedIsShown` and `RejectedIsUndone` are about users
  who await each verdict, and so is the invariant behind them, `AwaitedInv`:
  without overlap the link carries at most one message that matters, a command
  for the configured model or the verdict on it; what a failure goes back to is
  a model the renderer takes, or the one configured in the beginning; path,
  metadata and picture are of one model as soon as no message is under way. None
  of these is inductive without the others. `PathOf` and what the renderer finds
  under a path (`Found`) are lemmas of their own.
- **PanelStore.** `RosterIsKept` is inductive as it stands; the work is in
  `persistRoster`, which filters the roster in the middle of a delete. What
  `Subsequence` returns is a lemma by induction over the length (below): it keeps
  exactly the elements of the set, once each, in their order. `SettingsAreKept` is an
  invariant of the blob (`AcceptedWritesStick`) and a step property of the writers,
  each of which saves in its step what it loaded, with one field changed.
- **AssetStore.** `AssetUsesAreSound` relates rows, files, references and uses,
  each part under the faults it survives. A call of AssetManager is one step whose
  queries, statements and file operations fail independently, so each lemma goes
  through the outcomes: `Reattach`, of two statements, has a lemma of its own.
- **ConfigMigration.** `BootIsOrderly`: undisturbed (no copy that fails, no crash in a
  boot, no two boots at a time, no lock file that cannot be made), at most one panel boots, and
  what is not yet copied is what its walk has left. From that and
  `RenamedIsComplete` follows `NobodyStartsAfresh`. `NewerIsNotClobbered` is a
  property of the copying step alone: the copy refuses a destination that exists.
- **PetLayout.** Two queues cross, so the invariant behind `PetIsRestored` is about
  what will be, not what is: of each dial, of the place, the width and the layout it
  says where the last message about it in either queue leads (`DialSettles`,
  `WindowSettles`, `LayoutSettles`). The dials follow the panel, whose last command
  decides; the window follows the panel before the greeting and is followed by it
  after, which is what `GreetingIsSound` separates; the layout is written by both,
  which is where edits that cross a replay are excepted. One lemma per kind of step
  and per thing kept; a step that does not touch a thing keeps it by one lemma for
  all (`DialUntouched`, `WindowUntouched`, `LayoutUntouched`).
- **MessageLayer.** `ServerInv` adds to `ToldIsTrue` that the three tables of the
  server are about the same instances, that the active socket of an instance is
  the last one accepted for it, and that it is on the clock until it is ready;
  one lemma per slot of the server, and the two effects most slots share, a
  socket that leaves and one that takes its place, are lemmas that are reused.
  `PendingInv` is kept by nested slots because an install replaces an entry in
  the step in which it opens the new expectation.
- **FramePacing and RendererLoop.** While the swapchain is valid, a fence that is
  reset and not submitted is that of the present frame, and its slot has no tail
  command buffer: a submission that fails invalidates the swapchain instead, and
  the next pass makes new fences before it waits. That, for any number of frames
  in flight, is what `OnlyFaultsWedge` carries to be inductive; that a fault is
  needed at all is `NoFaultNeverWedges`, its consequence for a driver whose
  acquires do not fail and which allocates every tail. For the click-through test
  the invariant (`ReadbackOK`) is that the newest sample, while its frame counts as
  in flight, lies at the write index of the ring with its age: the pass that reads
  it puts a newer one behind it, or fails and leaves the swapchain invalid or its
  fence reset. The poll looks there first, and Render has drained the queue by
  then, so it reads that sample (`AnswersAreCurrent`). A sample that has aged promises nothing, and section 8 says what
  is answered then. `LoopInv` orders the
  queue and the batch by number: dropping the oldest and draining a prefix keep
  the order, and the newest is in one of them or was handled last.
- **GraphicsObjects.** A function of the backend is a plan, a sequence of steps, and
  a plan is known by what it is put together from: lemmas say of the parts and of
  their concatenation which steps occur and in which order (`ReleasePlan`,
  `RecreatePlan`, `InitializePlan`). `GraphicsInv` adds to `ObjectsOutliveTheirUse`
  that a slot of the ring is checked before it is used, that the loop destroys
  only behind a wait and the swapchain right after its views, and that the exit
  ends whatever is alive in the order of rank, so each object before the one it
  was made from. One lemma per kind of step.
- **MotionPlayer and Behaviour.** `BehaviourInv` carries `PrioritiesAreBacked` with
  the types of the link and the fact that a queue that is not empty has at least
  the idle priority. The latter is why an idle motion is refused
  while anything plays, `IdleNeverInterrupts`; commands for motions of the idle
  group alone have idle priority, which every sender keeps.
- **EventBus.** A publish calls one listener at a time and only a listener
  publishes, so the frames of the stack alternate (`Alternates`); the flag a listener
  may write is that of the publish it was called by, which is looked at in
  the step in which it comes back. That is why the flag is sound between two
  listeners and need not be while one runs.
- **RuleService, served.** `ServedInv`: the service's entries on the bus are booked
  for the host, so no plugin's end sweeps them; a stored rule is named after its
  owner, so the sweep by prefix reaches it, and its owner, if a plugin, got as far
  as `initialize()` and was not swept (`Holders`; one that failed is among them); numbers of declaration are distinct,
  so the order of the rules is total and every rule an event concerns is looked at
  exactly once (`OrderedRulesIs`). Loads of several documents and rows are shown by
  descent to the least place at which they would break the invariant.
- **RuleService, spaced.** `FiresInv`: the engine remembers every fire of a cycle that
  goes on, where a cycle ends when the rule is removed, re-enabled, or passes to
  another scope. A rule is judged by the engine of the moment, not by the copy
  taken at the start of the dispatch, and so an action that brings its own trigger
  about finds the fire recorded. `FiresAreSpaced` follows.
- **DownloadService.** `DownloadInv` adds to `VerifiedIsWhole` what makes a file
  private. Ids are given out in order and an inode keeps the name it was opened
  under; a job that met no namesake is the only one that writes to its inode
  (`FilledAlone`), and after it has finished nobody finds that inode by name. For
  verdicts, `CleanupsAreDue` and `VerdictsAreOwed` are about the stack of
  callbacks, whatever listeners do inside them: a marked job has exactly one
  cleanup coming, and a job that was given a verdict can only give another one
  while the error callback of a failed staging write is open. That exception is
  the finding `ErrorIsFinal` of section 8: the theorem says that it is the only
  one. The operators that handle frames, inodes and archives have lemmas;
  `TreeIsSound` follows from the gates that each accepted archive passed: that
  every entry decompresses makes what was extracted all there is in the archive,
  and the old item is gone before the new one is moved, or the move fails.
- **PluginHost.** `StoppedIsSilent` becomes inductive as `StoppedIsOver`: a
  stopped entry is of a plugin whose instance is gone and that has nothing
  booked, which only the order of `Unloaded` (sweep, delete, transition,
  announcement) establishes; it survives because only plugins alive book, and
  because no entry is stopped before the shutdown begins.
- **PluginObservers.** `EveryRemainingIsTold` rests on `StillToBeTold`: a
  subscription that stays and was not told lies at or below the index the loop
  is at, and below it once a callback has begun. Taking back moves elements down
  by one at most (`WithoutKeeps`), appending moves none, and the index falls by
  one per turn. When the loop ends the index is 1, and nothing lies below it.
- **PluginApi.** `RemovedIsForgotten` by the scans, which read the disk as it is;
  `MountIsRecorded` because mount, unmount and a fresh row write the three
  fields in one step, before any observer is called.

Induction. The theorems on induction of the library take an operator as parameter,
which the provers here cannot instantiate, but the well-foundedness of `<` does
not: `LeastNatural` says that a set of naturals that is not empty has a least
element, and an induction is the refutation of a least counterexample
(`UpToExists` and the lemmas after it in `PanelStoreProofs`, `EntryFinds` in
`PluginProofs`, the loads of `RuleProofs`).

Definitions written for the proofs. `Subsequence` (PanelStore), `Without`
(PluginObservers) and `OrderedEntries` (PluginHost) say by a recursive function,
a choice of the index and a set of sorted permutations what SelectSeq, Remove and
SortSeq would say, which have no theory in the prover. `OrderedEntries` also
leaves open the order of two entries that tie, as `std::sort` does. On the bus and
in the rule service `Listed` lists a set by counting predecessors, and `ByPriority`,
`Keeping` and `OrderedRules` are built on it; `Depth` is the cardinality of the open
publishes; `With` is an insertion into a hash; the loads are recursive functions
over the documents and, in any order, over the instances.

## 7. What is only model-checked

Liveness: `StopContract`'s two liveness conjuncts, `RestartIsExecuted`,
`DeleteCompletes`, `ExitHappens`, `SwitchIsDecided`, `EveryPublishReturns`,
`CancelIsAnswered`, `EveryExpectationEnds`, `UnreadyIsDropped`,
`OrphanRendererCloses`, `PausedIsResumed`. Fairness and ENABLED are beyond the
prover. Where such a property shares a name with a safety part
(`ExitIsOrderly`, `StopContractHolds`, `OnlyTheLatestCounts`), that part is proved:
`QuitsOnlyWhenDownHolds`, `KeepsStopContract`, `OnlyTheLatestIsHeardHolds`.

Also not proved is that a definition reads the code as it should: that the lemmas
about `Compiles`, `MatchCondition` and the other predicates of RuleEngine are few
is because the theorems hold whatever they answer; the run `rules` evaluates them
on the documents of `MCRules`.

## 8. Findings

Statements of the repository that the code does not keep. Two are runs, with
the quotation in `PROJECT.json`, "findings":

| Run | Statement | What happens instead |
|---|---|---|
| `session_crash_retried` | `CrashIsRetried`, `docs/system/fault-tolerance.md:38` | The session's manual flag is raised by `stop()` and lowered only by a parked start: after stop and a plain start, a crash is silently dropped |
| `renderer_gap_ends` | `DrawingGapEnds`, `renderer/src/LAppDelegate.cpp:331` ("the head of the next loop iteration recreates the swapchain") | `_isSwapchainInvalid` is set (`VulkanBackend.cpp:713, 718, 780, 798`) and cleared nowhere: after the first resize or out-of-date image every pass of the loop recreates the swapchain and draws nothing |

Each of the others is defined in its module, under "What the sources say and the
code does not do" or marked REFUTED, and is refuted when it is added to the
`.cfg` of the module's run as INVARIANT, or as PROPERTY where it is a temporal
formula. Differences to that configuration are given in brackets. The
counterexamples are short (two to a dozen states).

Processes, sessions and manager:

| Statement | Where it is said | What happens instead |
|---|---|---|
| `ManualFlagIsReset` (ProcessManager) [`PMSpec`, `KillReaps` not needed] | `core/ProcessManager.cpp:297` | A launch that fails during a stop delivers no `finished()`; the flag stays up and hides a crash of the next renderer |
| `RetryFindsNoProcess` | `core/InstanceSession.cpp:141` | Crash, user start within the back-off, retry: `start()` registers a fresh token before the launch is ignored, and the live renderer's next reconnection is rejected |
| `RetryIsNotAfterStop` | `core/InstanceSession.cpp:143` | A crash arms a retry, the user stops the instance (no process, so nothing cancels the timer), the timer starts it again |
| `ConnectingIsNotStuck` | `core/ProcessManager.hpp:153` | A launch refused synchronously sets "error" inside `startRenderer()`, then `start()` sets "connecting"; with the ladder used up nothing moves it |
| `StopExitFindsStopped` | `core/InstanceSession.cpp:812` | A `ready` under way at `stop()`, or a start refused for want of a server, has changed the status before the exit |
| `StopExitIsSilent` | `core/InstanceSession.hpp:464` | Of two queued completions the first executes a parked start and lowers the session's flag while the second stop is in flight; its exit emits `startFailed` |
| `DisconnectPausesIdle` | `docs/system/fault-tolerance.md:73` | The disconnect only clears `connected`; the idle scheduler goes on |
| `WiredOnce` [safety part, `KillReaps = TRUE`; so the next four] | `core/InstanceManager.cpp:442` | `setDialogueSink()` wires every restored session a second time |
| `RemovalAwaitsOwnStop` | `core/InstanceManager.cpp:196` | The completion of an earlier stop removes the row while its own stop is in flight; the destructor then waits synchronously |
| `WaveEndsDown` | `core/InstanceManager.hpp:244` | The session tells the manager before it executes a parked start: the wave ends, the panel quits, and a renderer has just been launched |
| `WaveIsBacked` | `controller_qt/qml/Main.qml:255` | A row started after `stopAll()` is alive at the last completion: no other one comes and only the watchdog ends the exit |
| `RemovedStaysDown` | `core/InstanceSession.cpp:664` | Deleting a stopped instance skips `setDeletePending()`: a start parked by a restart just before it fires in the removed session |

Persistence, images, directories and layout:

| Statement | Where it is said | What happens instead |
|---|---|---|
| `DefaultsAreNotPersisted` | `core/PanelStateManager.cpp:61` | `persistRoster()` loads with one manager and saves with another: the refusal flag is on the wrong one and a failed query resets every preference |
| `CreateReachesStore` | `controller_qt/src/app/PanelApplication.cpp:111` | The host's manager loads once; if that query fails every roster write of the run is refused, with nobody told |
| `ShownIsPersisted` | `core/PanelConfigController.cpp:87` | A plugin's settings write does not reach the settings page's cache; picking the cached value again writes nothing |
| `RefusesWhileUsed` | `core/AssetManager.hpp:15` | A count of the uses that fails is taken for zero and the image in use is deleted |
| `RowsHaveFiles` | `core/AssetManager.hpp:50` | The file goes before the row: a delete that stops in between leaves a row without file, a later import of the image answers "duplicate" and writes nothing |
| `ShownLogoIsUsed` | `core/AssetManager.hpp:70` | The write of the logo's id is not checked: the reference protects another image than the one shown |
| `LegacyArrives` | `core/ConfigDir.hpp:30` | The migration runs before the lock is taken: a second launch, or the boot after a crash, finds the directory populated, and starts from defaults |
| `ResetIsSaved` | `core/PluginContextImpl.cpp:1335` | `reset_layout` emits no `layout_changed`: the next load or restart brings the old layout back |
| `ReadBackIsOnDisk` | `core/InstanceSessionHandlers.cpp:536` | A read-back between a load and its re-push puts the default into the configuration, and the next save of anything writes it |
| `DialsAreSaved` | `docs/controller_qt/qt-ui-manual-test.md:342` | Opacity, frame rate, volume and mute reach the row only if something else saves it |
| `CentreIsStable` | `renderer/src/LAppDelegate.cpp:712` | Two ticks of a ctrl-scroll in one frame use one old width and two positions |

Model switch and behaviour:

| Statement | Where it is said | What happens instead |
|---|---|---|
| `FailedNameIsNotKept` | `core/InstanceSession.hpp:826` | A verdict of an earlier load clears the in-flight flag, the failure of the switch meant is taken for a startup failure and its name stays configured |
| `FailureShowsNothing` | `core/InstanceSessionHandlers.cpp:563` | The renderer looks for the file first and leaves the drawn model alone |
| `LoadedIsAlive` | `docs/controller_qt/qt-ui-manual-test.md:351` | A `model_loaded` handled after `stop()` sets the flag again, and the exit of a user stop returns before clearing it |
| `TwinIsTold` | `core/InstanceSession.cpp:344` | A plugin model that is gone is sent by its bare name; if the host has a model of that name it is loaded and reported as a success |
| `NoPriorityOutlivesMotion` | `renderer/src/LAppModel.cpp:520` | `stop_motion` empties the queue and leaves the priority: later motions of that priority or a lower one are refused |
| `NothingToIdleStops` | `core/InstanceSessionCommands.cpp:289` | Unmounting the pack of a model without Idle group leaves the scheduler running with the pack's callback |
| `PauseEnds` | `core/InstanceSessionHandlers.cpp:182` | A behaviour whose motion is unreadable, refused or lost with the link brings no report: the scheduler stays paused |

Messages, rules, downloads and plugins:

| Statement | Where it is said | What happens instead |
|---|---|---|
| `NobodyIsOverwritten` | `network/PendingRequests.hpp:25` | A slot that expects the superseded id again is overwritten by the outer call: its observer is never told, its timer ends the newer one early. No host code expects responses today |
| `SweepSparesNeighbours` | `core/RuleEngineService.hpp:55` | The prefix `plugin.org.a.` also matches the rules of a plugin `org.a.b` |
| `FailedLeaveNoRules` | `core/PluginHost.cpp:452` ("live rules ... firing forever") | A plugin registers a rule in `initialize()`, which then returns an error or throws: only the sweeps of an unload take rules back, and a failed plugin is never unloaded. The rule stays and fires |
| `FailedAreNotCalled` | `core/PluginHost.cpp:433` ("dangling pointers") | The same of a subscription: the next event of that id, `plugin_loaded` of another plugin for one, is dispatched to the destroyed listener |
| `ErrorIsFinal` | `api/IDownloadApi.hpp:40` | A listener that cancels from the error callback of a failed staging write is told a second verdict, and the handler goes on with the deleted job |
| `CallsReachTheLiving` | `core/PluginHost.cpp:431` | A plugin that subscribes and whose `initialize()` then fails is destroyed without the sweeps |
| `OneVisitEach` | `core/PluginContextImpl.cpp:1187` | A callback that takes back a subscription made before its own is visited again |
| `LoopStaysInside` | `core/PluginContextImpl.cpp:1187` | A callback that takes back two subscriptions moves the end of the list below the next index |
| `UnionIsThere` | `core/PluginContextImpl.cpp:1944` | A removal that fails half-way returns before the refresh: the union still resolves the model |
| `MountedIsRead` | `core/InstanceSessionCommands.cpp:255` | An observer that unmounts inside the notification leaves the optional empty that the caller then reads |
| `SwitchRevokes` | `core/PluginContextImpl.cpp:2148` | The switch is asked when a surface is handed out and never again |

Renderer:

| Statement | Where it is said | What happens instead |
|---|---|---|
| `ReconnectionSaysReady` | `docs/system/fault-tolerance.md:66` | A socket that closes and reopens between two polls never says `ready` again, and the controller's ready timer closes it |
| `NeverWaitsForever` | `renderer/src/graphics/VulkanBackend.cpp:740` ("no tail command buffer, skipping frame!") | `BeginFrame` has reset the fence of the slot by then and the counter is not advanced: the next `BeginFrame` waits for that fence without a timeout |
| `OneFrameOfLatency` | `renderer/src/graphics/VulkanBackend.cpp:1300` ("typically last frame's pixel, i.e. one frame of latency") | A drag or a press keeps the loop from sampling while frames go on; the sample before it ages out of the ring unread, and the next answer is the pixel cached before the drag |
| `TailsAreFreed` | `renderer/src/graphics/VulkanBackend.cpp:656` | Each recreation of the swapchain forgets the tail command buffers of the one before, two per pass while the swapchain stays invalid |
| `InitializedIsWhole` | `renderer/src/graphics/IGraphicsBackend.hpp:33` | A command pool, swapchain or sync object that could not be created is logged and the answer is still true |
| `NumbersMatch` | `renderer/src/LAppModel.cpp:803` | Behind a texture that does not decode every texture is bound under the number before its own |

Where such a behaviour would also refute a property of a passing run, that
property says so: `LoadedIsShown` and `RejectedIsUndone` are about users who
await each verdict (`overlapped`), the former not about `Twins`; `VerifiedIsWhole` excepts jobs that share
their name and torn tails; the properties of the store, of the images and of the
migration name the faults they survive; `LayoutIsRestored` and
`WindowIsRestored` except an edit that met a replay on its way.

Seen while modelling, in the models but stated nowhere in the repository:

- `stop()` after `restart()` does not withdraw the parked start: an instance
  stopped last comes up again.
- Two jobs of one `destName` share a `.part`, and the cleanup of the first after
  its error unlinks that of its retry; the result of the last write is not looked
  at; a replacing install removes the old item before the rename; no transfer has
  a timeout; the listeners of an unloaded plugin are not cancelled.
- Observers of roster, monitor, packs and downloads are not swept at unload, and
  an observer that was just unsubscribed is still called from the copy; plugins
  skipped by the shutdown budget stay Started; a Failed entry of an id blocks a
  later good file.
- A `loadModel` called from an observer of another leaves the configuration with
  the inner model and the last command with the outer.
- A pack whose hit group uses the file of its idle group is judged idle when it
  ends, and the scheduler stays paused; a hit while disconnected pauses it too.
- While the swapchain is invalid `Update` is not called, so motions freeze.
- A negative start position is left off the command line; edits made while
  disconnected are not reported.
- The retry ladder is reset by a connection, not by `ready`
  (`core/InstanceSession.cpp:862`): a renderer that connects and then crashes is
  never given up. No property covers this: it would need a bound on connections.

## 9. Abstractions, and what is not modelled

- *Time.* The two windows of a stop are three phases (`elapsed`), so that the
  tick may find any of them; back-off delays are dropped, a retry timer fires at
  any time after it was armed; so do the ready timer and the timers of
  expectations. The 12 s watchdog may fire at any time after the exit was asked.
  That the post-kill window is measured from the start of the stop and may be
  over when the kill is issued is included: `TickAbandons` may follow `TickKills`
  at once. Only the rules have a clock, for cooldowns and idle thresholds.
- *Tokens* are fresh random strings; a connection carries the registered one or
  a stale one. InstanceSession has its own slot of the server; that WsServer
  implements that slot is not shown.
- *Configuration.* The renderer executable and the server may be missing at any
  start (`StartReturnsEarly`). What is passed on the command line is left out,
  but for the model and the place.
- *Deletion.* In InstanceSession a session without process is not deleted (the
  object is gone); that case is InstanceManager's `DeleteStopped` and `Reap`.
  `Reap` waits for the completions posted earlier, as `deleteLater` does.
- *Store.* A statement of SQLite is atomic and durable when it succeeds. A read
  that fails yields the defaults, one unreadable instance row drops that
  instance. In AssetStore a crash is the failure of all later steps.
- *Files.* Downloads are inodes with the chunks they hold; an archive is a
  sequence of entries with paths of components; inflating one is one outcome. In
  ConfigMigration a crash falls between two files.
- *Layout.* The window lies on a line: a left edge and a width. The clamps of the
  code bound the sets. Opacity stands for the dials.
- *Names.* Two models have different files, except `Twins`: plugin models that are
  gone, whose bare name is that of the host's model `HostTwin`.
- *ModelSwitch* has one command queue and one event queue, in order, lost with
  the link. Events of a process already gone are still handled. The hit-area
  cache, the salvo's other commands and failing saves of the configuration are
  left out.
- *Callbacks.* A listener, observer or plugin makes a bounded number of calls of
  a bounded depth from inside a callback. Fan-outs nested in fan-outs are left
  out of PluginObservers.
- *Driver.* Acquire answers success, suboptimal, out-of-date or another error, present
  success or out-of-date; a submit of a frame's tail may fail, and so may the
  allocation of tail command buffers. An acquire that fails otherwise is logged and
  the frame drawn: the model lets it get stuck in `vkQueueWaitIdle` behind a semaphore
  nobody signals (`RenderHangs`), or pass with its fence not reset, as on a lost
  device. Fences and semaphores exist in FramePacing: their creation may fail in
  GraphicsObjects only, where those of a slot are one object. The submits of Render,
  and the waits themselves, do not fail. The wait for a framebuffer of size zero
  (`LAppDelegate.cpp:310-314`) is left out: `WindowManager` does not let the window be
  minimised. A suboptimal acquire skips the frame, although `VulkanBackend.cpp:718`
  says that it is finished.
- *Undefined behaviour.* A call into a plugin that was destroyed (`CallsDestroyed`)
  ends the behaviour of RuleService: what follows is not modelled, and the
  properties are about what happens until then.
- *Handlers that only draw, log or notify* are left out everywhere.

Not modelled, and why: system integration (registry, tray, statistics, log
sinks), environment probes, model and theme parsers, the OpenGL backend, window
attributes, audio decoding and lip sync are I/O, device or numeric code without
protocol; `CreateTexture` and `DeleteTexture` of the backend have no caller in
this build; the draws of the Cubism SDK, SQLite, Qt and miniz are external; QML
pages and UI models are projections of what is modelled; the catalogue of events
and the builders of outgoing JSON are data; build scripts and vendored headers
are not the program.

## 10. Plan

The order so far was by importance: the stop machine, on which everything that
ends waits; the session, which composes it with the network and the retries; the
manager; what survives; the model switch; then the parts around them: messages,
bus and rules, downloads, plugins, renderer, behaviour, layout, images,
migration. Then the proofs, in the same order. What is left:

1. That WsServer implements the slot of InstanceSession, by refinement.
2. Models still to write: the notification stream (six entries against their
   timers), a restart policy with a clock (that a crash loop which never reaches
   `ready` is given up or not), avatar and statistics handlers of the session.
