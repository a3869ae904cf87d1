----------------------------- MODULE RendererLoop -----------------------------
(***************************************************************************)
(* The renderer's main loop with its WebSocket client: the socket thread   *)
(* fills an inbound queue that drops its oldest message when it is full,   *)
(* the loop draws a frame, then polls the network, and the timers of the   *)
(* connection decide when a renderer nobody controls closes.               *)
(*                                                                         *)
(* A message is the number of its arrival; what it says is chosen when it  *)
(* is dispatched, nobody looks at it before.                               *)
(***************************************************************************)
EXTENDS FramePacing, Sequences, SequencesExt

CONSTANTS
    kMaxQueueSize,       \* capacity of the inbound queue
    MaxDrained,          \* messages one poll takes
    MaxReceived          \* bound: messages of a run

ASSUME LoopAssumption ==
    {kMaxQueueSize, MaxDrained, MaxReceived} \subseteq Nat \ {0}

VARIABLES
    pc,                  \* where the main thread is: "frame", "poll", "dispatch", "gone"
    link,                \* the socket: "connecting", "open"
    queue,               \* _messageQueue
    received,            \* messages arrived so far
    batch,               \* drained and not yet dispatched
    handled,             \* ghost: number of the last message dispatched
    networkReady, wasEverConnected,
    startTimer,          \* since InitializeNetwork: "running", "elapsed" (over 10 s)
    lostTimer,           \* "off", "running", "elapsed" (over 30 s)
    shouldClose,
    saidReady            \* ghost: ready was sent on the present connection

netVars == <<link, queue, received, batch, handled, networkReady, wasEverConnected,
             startTimer, lostTimer, shouldClose, saidReady>>
loopVars == <<pc, frameVars, netVars>>

LoopInit ==
    /\ FrameInit
    /\ pc = "frame" /\ link = "connecting" /\ queue = <<>> /\ received = 0
    /\ batch = <<>> /\ handled = 0 /\ networkReady = FALSE /\ wasEverConnected = FALSE
    /\ startTimer = "running" /\ lostTimer = "off" /\ shouldClose = FALSE
    /\ saidReady = FALSE

-----------------------------------------------------------------------------
(* The socket thread *)

SocketOpens ==
    /\ pc # "gone" /\ link = "connecting"
    /\ link' = "open" /\ saidReady' = FALSE
    /\ UNCHANGED <<pc, frameVars, queue, received, batch, handled, networkReady,
                   wasEverConnected, startTimer, lostTimer, shouldClose>>

(* Closed by either side; IXWebSocket goes on to reconnect by itself.      *)
SocketCloses ==
    /\ pc # "gone" /\ link = "open"
    /\ link' = "connecting" /\ saidReady' = FALSE
    /\ UNCHANGED <<pc, frameVars, queue, received, batch, handled, networkReady,
                   wasEverConnected, startTimer, lostTimer, shouldClose>>

PushedOrRefused(q, m) == IF Len(q) >= kMaxQueueSize THEN q ELSE Append(q, m)
Pushed(q, m) == Append(IF Len(q) >= kMaxQueueSize THEN Tail(q) ELSE q, m)

OnMessage ==
    /\ pc # "gone" /\ link = "open" /\ received < MaxReceived
    /\ received' = received + 1
    /\ queue' = Pushed(queue, received')
    /\ UNCHANGED <<pc, frameVars, link, batch, handled, networkReady, wasEverConnected,
                   startTimer, lostTimer, shouldClose, saidReady>>

-----------------------------------------------------------------------------
(* The main thread *)

(* PollNetworkMessages without a connection.  A loss is timed from the     *)
(* poll that saw it; the messages that are queued stay queued.             *)
LostTimerRestarted == IF networkReady \/ wasEverConnected THEN "running" ELSE lostTimer
LostTimerSeen == IF networkReady THEN "running" ELSE lostTimer

PollDisconnected ==
    /\ pc = "poll" /\ link # "open"
    /\ networkReady' = FALSE
    /\ lostTimer' = LostTimerSeen
    /\ shouldClose' = \/ shouldClose
                      \/ ~wasEverConnected /\ startTimer = "elapsed"
                      \/ wasEverConnected /\ lostTimer' = "elapsed"
    /\ pc' = "frame"
    /\ UNCHANGED <<frameVars, link, queue, received, batch, handled, wasEverConnected,
                   startTimer, saidReady>>

(* PollNetworkMessages with one: ready once per connection as far as the   *)
(* polls can tell, and the oldest queued messages.                         *)
PollConnected ==
    /\ pc = "poll" /\ link = "open"
    /\ wasEverConnected' = TRUE
    /\ networkReady' = TRUE
    /\ saidReady' = (saidReady \/ ~networkReady)
    /\ lostTimer' = IF networkReady THEN lostTimer ELSE "off"
    /\ LET n == IF Len(queue) < MaxDrained THEN Len(queue) ELSE MaxDrained
       IN  batch' = SubSeq(queue, 1, n) /\ queue' = SubSeq(queue, n + 1, Len(queue))
    /\ pc' = "dispatch"
    /\ UNCHANGED <<frameVars, link, received, handled, startTimer, shouldClose>>

(* MessageHandler::dispatch and the handler that touches the loop's own    *)
(* state; a response, an unknown action, a handler that throws and a text  *)
(* that does not deserialize change nothing here.                          *)
Dispatch ==
    /\ pc = "dispatch" /\ batch # <<>>
    /\ handled' = Head(batch)
    /\ \E shutdown \in BOOLEAN : shouldClose' = (shouldClose \/ shutdown)
    /\ batch' = Tail(batch)
    /\ UNCHANGED <<pc, frameVars, link, queue, received, networkReady, wasEverConnected,
                   startTimer, lostTimer, saidReady>>

EndOfPoll ==
    /\ pc = "dispatch" /\ batch = <<>>
    /\ pc' = "frame"
    /\ UNCHANGED <<frameVars, link, queue, received, batch, handled, networkReady,
                   wasEverConnected, startTimer, lostTimer, shouldClose, saidReady>>

(* The frame, drawn or skipped; the poll runs in either case, unless the   *)
(* frame never ends.                                                       *)
DrawOrSkip ==
    /\ pc = "frame" /\ ~shouldClose
    /\ Pass
    /\ pc' = IF hung' THEN pc ELSE "poll"
    /\ UNCHANGED <<link, queue, received, batch, handled, networkReady, wasEverConnected,
                   startTimer, lostTimer, shouldClose, saidReady>>

(* Run() leaves the loop and Release() stops the socket.                   *)
Leave ==
    /\ pc = "frame" /\ ~hung /\ shouldClose
    /\ pc' = "gone" /\ link' = "connecting"
    /\ UNCHANGED <<frameVars, queue, received, batch, handled, networkReady, wasEverConnected,
                   startTimer, lostTimer, shouldClose, saidReady>>

-----------------------------------------------------------------------------
(* Clocks and the GPU *)

StartTimerElapses ==
    /\ pc # "gone" /\ startTimer = "running"
    /\ startTimer' = "elapsed"
    /\ UNCHANGED <<pc, frameVars, link, queue, received, batch, handled, networkReady,
                   wasEverConnected, lostTimer, shouldClose, saidReady>>

LostTimerElapses ==
    /\ pc # "gone" /\ lostTimer = "running"
    /\ lostTimer' = "elapsed"
    /\ UNCHANGED <<pc, frameVars, link, queue, received, batch, handled, networkReady,
                   wasEverConnected, startTimer, shouldClose, saidReady>>

Gpu ==
    /\ \E s \in Slots : GpuFinishes(s)
    /\ UNCHANGED <<pc, link, queue, received, batch, handled, networkReady, wasEverConnected,
                   startTimer, lostTimer, shouldClose, saidReady>>

MainThread == DrawOrSkip \/ PollDisconnected \/ PollConnected \/ Dispatch \/ EndOfPoll \/ Leave

LoopNext ==
    \/ SocketOpens \/ SocketCloses
    \/ OnMessage
    \/ MainThread
    \/ StartTimerElapses \/ LostTimerElapses \/ Gpu

(* The main thread, the clocks and the GPU go on; the controller promises  *)
(* nothing.                                                                *)
LoopSpec ==
    /\ LoopInit /\ [][LoopNext]_loopVars
    /\ WF_loopVars(MainThread) /\ WF_loopVars(Gpu)
    /\ WF_loopVars(StartTimerElapses) /\ WF_loopVars(LostTimerElapses)

-----------------------------------------------------------------------------
(* Properties *)

Numbers(q) == {q[k] : k \in 1 .. Len(q)}
InQueue == Numbers(queue)
InBatch == Numbers(batch)

(* Whatever bursts overflow the queue and however long the connection was  *)
(* lost, commands run in the order they came, none twice, and the newest   *)
(* is never the one that is dropped.                                       *)
NewestIsKept ==
    /\ received > 0 => received \in InQueue \cup InBatch \cup {handled}
    /\ \A b \in InBatch : handled < b
    /\ \A q \in InQueue : handled < q /\ \A b \in InBatch : b < q

(* Messages under way carry the numbers of their arrival, in that order.   *)
Messages == Nat
Ordered(q) == \A j, k \in 1 .. Len(q) : j < k => q[j] < q[k]

QueueTypeOK ==
    /\ queue \in Seq(Messages) /\ batch \in Seq(Messages)
    /\ received \in Nat /\ handled \in 0 .. received
    /\ Len(queue) <= kMaxQueueSize
    /\ \A n \in InQueue \cup InBatch : n <= received

(* With all it rests on: only a dispatch under way has messages drained.   *)
LoopInv ==
    /\ QueueTypeOK
    /\ Ordered(queue) /\ Ordered(batch)
    /\ pc # "dispatch" => batch = <<>>
    /\ NewestIsKept

(* A renderer whose controller is gone for good, from the start or after   *)
(* any number of reconnections, closes: no frame it draws, skips or fails  *)
(* to submit keeps it, unless one of them wedges the main thread.          *)
OrphanCloses == []<>(link = "open") \/ <>(pc = "gone") \/ <>Wedged

(* REFUTED: the loop says of a swapchain that was invalidated that the     *)
(* next pass recreates it, and calls the time until then a gap             *)
(* (LAppDelegate.cpp:331-334): it is valid again, and drawn on, after it.  *)
GapEnds == invalid ~> (~invalid \/ pc = "gone" \/ Wedged)

(* REFUTED: fault-tolerance.md:66 has a renderer that reconnected send     *)
(* ready again.  A poll compares what it sees with what it saw: a socket   *)
(* that closed and reopened between two polls is never noticed.            *)
ReconnectionSaysReady ==
    [][(pc = "poll" /\ pc' # "poll" /\ link = "open") => saidReady']_loopVars
=============================================================================
