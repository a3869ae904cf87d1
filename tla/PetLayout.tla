------------------------------ MODULE PetLayout ------------------------------
(***************************************************************************)
(* Where a pet stands, how large it is, how its model is laid out inside   *)
(* the window, and the dials of the panel (opacity stands for them): what  *)
(* the session holds in m_config, what the configuration on disk holds,    *)
(* and what the renderer shows.  The user changes the first three in the   *)
(* renderer's window, which reports them; the panel sends them back with   *)
(* the startup salvo and, for the layout, after every model load.  Both    *)
(* directions are queues that a lost connection cuts short.                *)
(*                                                                         *)
(* The window lies on a line: a left edge and a width.                     *)
(***************************************************************************)
EXTENDS Integers, Sequences, SequencesExt

CONSTANTS
    Places,      \* left edges the user drags the window to
    Widths,      \* widths a scroll reaches, those of the clamp
    Layouts,     \* offset and scale of the model, within the clamp
    Configs,     \* configurations a run starts with
    Fresh,       \* layout of a model that was just loaded
    Dials,       \* values of a dial
    FreshDial,   \* that of a new renderer
    MaxEdits,    \* bound: edits of the user
    MaxAsked,    \* bound: commands of the panel's own
    MaxLosses,   \* bound: lost connections and ended programs
    MaxMoves     \* bound: all of these together

ASSUME LayoutAssumption ==
    /\ Places \subseteq Int /\ Widths \subseteq Nat \ {0}
    /\ Fresh \in Layouts /\ FreshDial \in Dials
    /\ Configs \subseteq [x : Places, w : Widths, layout : Layouts, dial : Dials]
    /\ {MaxEdits, MaxAsked, MaxLosses, MaxMoves} \subseteq Nat

VARIABLES
    config,          \* m_config: x, w, layout, dial
    disk,            \* the instance's row
    greeted,         \* the `ready` of the present connection was handled
    link,            \* the socket is open
    toRenderer, toPanel,
    alive, visible,  \* the process, its window
    said,            \* _networkReady: ready was said on this connection
    window,          \* x and w of the window
    frameWidth,      \* _windowWidth: the width the last frame saw
    layout, dial,    \* of the model on screen, of the window
    dragging,        \* _isDragging
    adjusting,       \* _isModelDragging
    layoutCrossed,   \* ghost: an edit of the layout met a replay of it, or
                     \* went unreported, and nothing has settled it since
    windowCrossed,   \* ghost: the same of the window
    edits, asked, losses

panel == <<config, disk, greeted>>
wire == <<link, toRenderer, toPanel>>
petProcess == <<alive, visible, said>>
shown == <<window, frameWidth, layout, dial>>
hands == <<dragging, adjusting>>
ghosts == <<layoutCrossed, windowCrossed>>
budget == <<edits, asked, losses>>
layoutVars == <<panel, wire, petProcess, shown, hands, ghosts, budget>>

Command(do, to) == [do |-> do, to |-> to]
Event(of, what) == [of |-> of, what |-> what]

\* There is no window.
Nowhere == [x |-> 0, w |-> 1]

LayoutInit ==
    /\ config \in Configs
    /\ disk = config /\ greeted = FALSE
    /\ link = FALSE /\ toRenderer = <<>> /\ toPanel = <<>>
    /\ alive = FALSE /\ visible = FALSE /\ said = FALSE
    /\ window = Nowhere /\ frameWidth = Nowhere.w
    /\ layout = Fresh /\ dial = FreshDial
    /\ dragging = FALSE /\ adjusting = FALSE
    /\ layoutCrossed = FALSE /\ windowCrossed = FALSE
    /\ edits = 0 /\ asked = 0 /\ losses = 0

-----------------------------------------------------------------------------
(* What crosses what *)

Asked == {toRenderer[k].do : k \in DOMAIN toRenderer}
Told(q) == {q[k].of : k \in DOMAIN q}

\* A replay of the layout is on its way to the screen, or about to be sent.
LayoutReplay == Asked \cap {"load", "layout", "reset"} # {} \/ Told(toPanel) \cap {"ready", "loaded"} # {}
WindowReplay == Asked \cap {"position", "size"} # {} \/ "ready" \in Told(toPanel)

Reported(event) == toPanel' = IF link THEN Append(toPanel, event) ELSE toPanel

MayMove == edits + asked + losses < MaxMoves

-----------------------------------------------------------------------------
(* The renderer's window: what the user does *)

Touched ==
    /\ alive /\ visible
    /\ edits < MaxEdits /\ MayMove
    /\ edits' = edits + 1 /\ UNCHANGED <<asked, losses>>

(* Middle-drag: the window follows the pointer, the release reports.       *)
DragWindow(x) ==
    /\ Touched /\ x # window.x
    /\ window' = [window EXCEPT !.x = x] /\ dragging' = TRUE
    /\ UNCHANGED <<panel, wire, petProcess, frameWidth, layout, dial, adjusting, ghosts>>

DropWindow ==
    /\ alive /\ dragging
    /\ dragging' = FALSE
    /\ Reported(Event("drag_end", window.x))
    /\ windowCrossed' = (windowCrossed \/ ~link \/ WindowReplay)
    /\ UNCHANGED <<panel, link, toRenderer, petProcess, shown, adjusting, layoutCrossed, budget>>

\* Integer division of the code, for positive numbers.
Centred(x, from, to) == x + from \div 2 - to \div 2

(* Ctrl-scroll: the window grows or shrinks about its centre, the old      *)
(* width being the one the last frame saw.                                 *)
ResizeWindow(w) ==
    /\ Touched /\ w # frameWidth
    /\ window' = [x |-> Centred(window.x, frameWidth, w), w |-> w]
    /\ Reported(Event("window_resized", window'))
    /\ windowCrossed' = (~link \/ WindowReplay)
    /\ UNCHANGED <<panel, link, toRenderer, petProcess, frameWidth, layout, dial, hands,
                   layoutCrossed>>

(* Shift-drag moves the model and reports at the release.                  *)
DragModel(l) ==
    /\ Touched /\ l # layout
    /\ layout' = l /\ adjusting' = TRUE
    /\ UNCHANGED <<panel, wire, petProcess, window, frameWidth, dial, dragging, ghosts>>

DropModel ==
    /\ alive /\ adjusting
    /\ adjusting' = FALSE
    /\ Reported(Event("layout_changed", layout))
    /\ layoutCrossed' = (~link \/ LayoutReplay)
    /\ UNCHANGED <<panel, link, toRenderer, petProcess, shown, dragging, windowCrossed, budget>>

(* Shift-scroll scales it and reports at once.                             *)
ScaleModel(l) ==
    /\ Touched /\ l # layout
    /\ layout' = l
    /\ Reported(Event("layout_changed", l))
    /\ layoutCrossed' = (~link \/ LayoutReplay)
    /\ UNCHANGED <<panel, link, toRenderer, petProcess, window, frameWidth, dial, hands,
                   windowCrossed>>

NewFrame ==
    /\ alive /\ frameWidth # window.w
    /\ frameWidth' = window.w
    /\ UNCHANGED <<panel, wire, petProcess, window, layout, dial, hands, ghosts, budget>>

(* Nobody placed the window for five seconds.                              *)
ShowAnyway ==
    /\ alive /\ ~visible
    /\ visible' = TRUE
    /\ UNCHANGED <<panel, wire, alive, said, shown, hands, ghosts, budget>>

-----------------------------------------------------------------------------
(* The renderer's command handlers *)

PlaceWindow(x) ==
    /\ window' = [window EXCEPT !.x = x] /\ visible' = TRUE
    /\ UNCHANGED <<toPanel, layout, dial, layoutCrossed>>

SizeWindow(w) ==
    /\ window' = [x |-> Centred(window.x, frameWidth, w), w |-> w]
    /\ UNCHANGED <<toPanel, visible, layout, dial, layoutCrossed>>

(* A load gives a new model with its default layout, or is refused and     *)
(* leaves the present one; the user's drag goes on with the new model.     *)
LoadModel ==
    \/ /\ layout' = Fresh
       /\ Reported(Event("loaded", Fresh))
       /\ UNCHANGED <<window, visible, dial, layoutCrossed>>
    \/ /\ Reported(Event("failed", Fresh))
       /\ UNCHANGED <<window, visible, layout, dial, layoutCrossed>>

SetLayout(l) ==
    /\ layout' = l
    /\ UNCHANGED <<toPanel, window, visible, dial, layoutCrossed>>

(* No layout_changed is emitted.                                           *)
ResetLayout ==
    /\ layout' = Fresh /\ layoutCrossed' = TRUE
    /\ UNCHANGED <<toPanel, window, visible, dial>>

(* The answer is an event, not a response.                                 *)
GetLayout ==
    /\ Reported(Event("layout_state", layout))
    /\ layoutCrossed' = (~link \/ LayoutReplay)
    /\ UNCHANGED <<window, visible, layout, dial>>

SetDialShown(d) ==
    /\ dial' = d
    /\ UNCHANGED <<toPanel, window, visible, layout, layoutCrossed>>

RunCommand ==
    /\ alive /\ toRenderer # <<>>
    /\ LET c == Head(toRenderer)
       IN  CASE c.do = "load" -> LoadModel
             [] c.do = "position" -> PlaceWindow(c.to)
             [] c.do = "size" -> SizeWindow(c.to)
             [] c.do = "layout" -> SetLayout(c.to)
             [] c.do = "reset" -> ResetLayout
             [] c.do = "get" -> GetLayout
             [] c.do = "dial" -> SetDialShown(c.to)
    /\ toRenderer' = Tail(toRenderer)
    /\ UNCHANGED <<panel, link, alive, said, frameWidth, hands, windowCrossed, budget>>

-----------------------------------------------------------------------------
(* The session's event handlers *)

SentTo(q, commands) == IF link THEN q \o commands ELSE q

(* StartupSalvo::sendSalvo                                                 *)
Salvo ==
    << Command("load", Fresh), Command("position", config.x), Command("size", config.w),
       Command("dial", config.dial), Command("layout", config.layout) >>

LayoutNews == {"layout_changed", "layout_state"}
WindowNews == {"drag_end", "window_resized"}

OnReady ==
    /\ greeted' = TRUE
    /\ toRenderer' = SentTo(toRenderer, Salvo)
    /\ layoutCrossed' = (layoutCrossed /\ Told(Tail(toPanel)) \cap LayoutNews # {})
    /\ windowCrossed' = \/ windowCrossed /\ Told(Tail(toPanel)) \cap WindowNews # {}
                        \/ {frameWidth, window.w} # {config.w}
                        \/ "size" \in Asked
    /\ UNCHANGED <<config, disk>>

\* Mutant of OnModelLoaded: the salvo's set_layout is thought to be enough.
OnModelLoadedSilently ==
    /\ layoutCrossed' = (layoutCrossed /\ Told(Tail(toPanel)) \cap LayoutNews # {})
    /\ UNCHANGED <<panel, toRenderer, windowCrossed>>

OnModelLoaded ==
    /\ toRenderer' = SentTo(toRenderer, <<Command("layout", config.layout)>>)
    /\ layoutCrossed' = (layoutCrossed /\ Told(Tail(toPanel)) \cap LayoutNews # {})
    /\ UNCHANGED <<panel, windowCrossed>>

Saved(c) == config' = c /\ disk' = c

OnLayoutChanged(l) ==
    /\ Saved([config EXCEPT !.layout = l])
    /\ UNCHANGED <<greeted, toRenderer, ghosts>>

(* A read-back is not saved by itself.                                     *)
OnLayoutState(l) ==
    /\ config' = [config EXCEPT !.layout = l]
    /\ UNCHANGED <<disk, greeted, toRenderer, ghosts>>

OnDragEnd(x) ==
    /\ Saved([config EXCEPT !.x = x])
    /\ UNCHANGED <<greeted, toRenderer, ghosts>>

OnWindowResized(win) ==
    /\ Saved([config EXCEPT !.x = win.x, !.w = win.w])
    /\ UNCHANGED <<greeted, toRenderer, ghosts>>

(* The name is rolled back and saved, with everything else.                *)
OnLoadFailed == Saved(config) /\ UNCHANGED <<greeted, toRenderer, ghosts>>

OnLost == greeted' = FALSE /\ UNCHANGED <<config, disk, toRenderer, ghosts>>

HandleEvent ==
    /\ toPanel # <<>>
    /\ LET e == Head(toPanel)
       IN  CASE e.of = "ready" -> OnReady
             [] e.of = "loaded" -> OnModelLoaded
             [] e.of = "failed" -> OnLoadFailed
             [] e.of = "layout_changed" -> OnLayoutChanged(e.what)
             [] e.of = "layout_state" -> OnLayoutState(e.what)
             [] e.of = "drag_end" -> OnDragEnd(e.what)
             [] e.of = "window_resized" -> OnWindowResized(e.what)
             [] e.of = "lost" -> OnLost
    /\ toPanel' = Tail(toPanel)
    /\ UNCHANGED <<link, petProcess, shown, hands, budget>>

-----------------------------------------------------------------------------
(* The panel's own operations *)

Sends(command) ==
    /\ asked < MaxAsked /\ MayMove /\ asked' = asked + 1
    /\ toRenderer' = SentTo(toRenderer, <<command>>)
    /\ UNCHANGED <<greeted, link, toPanel, petProcess, shown, hands, ghosts, edits, losses>>

(* setOpacity and its like: a same value is nothing, nothing is saved.     *)
SetDial(d) ==
    /\ d # config.dial
    /\ config' = [config EXCEPT !.dial = d] /\ UNCHANGED disk
    /\ Sends(Command("dial", d))

(* loadModel while connected saves the whole row before it sends.          *)
SwitchModel == link /\ Saved(config) /\ Sends(Command("load", Fresh))

AskReset == link /\ UNCHANGED <<config, disk>> /\ Sends(Command("reset", Fresh))

AskLayout == link /\ UNCHANGED <<config, disk>> /\ Sends(Command("get", Fresh))

(* setAutoStart, mountVoicePack, setAvatar...: any of them saves the row.  *)
SaveRow == disk # config /\ Saved(config) /\ UNCHANGED <<greeted, wire, petProcess, shown, hands, ghosts, budget>>

-----------------------------------------------------------------------------
(* Processes and connections *)

\* A negative position is left off the command line.
StartPlaces == IF config.x >= 0 THEN {config.x} ELSE Places

StartRenderer ==
    /\ ~alive
    /\ \E x \in StartPlaces : window' = [x |-> x, w |-> config.w]
    /\ frameWidth' = config.w /\ layout' = Fresh /\ dial' = FreshDial
    /\ alive' = TRUE /\ visible' = FALSE /\ said' = FALSE
    /\ dragging' = FALSE /\ adjusting' = FALSE
    /\ layoutCrossed' = FALSE /\ windowCrossed' = FALSE
    /\ UNCHANGED <<panel, wire, budget>>

(* The new socket replaces the old one, of which nothing is heard any more. *)
Connect ==
    /\ alive /\ ~link
    /\ link' = TRUE /\ greeted' = FALSE /\ toPanel' = <<>>
    /\ UNCHANGED <<config, disk, toRenderer, petProcess, shown, hands, ghosts, budget>>

(* The first poll that sees the connection says ready; what the user did   *)
(* before it is reported before it.                                        *)
SayReady ==
    /\ link /\ ~said
    /\ said' = TRUE
    /\ toPanel' = Append(toPanel, Event("ready", Fresh))
    /\ UNCHANGED <<panel, link, toRenderer, alive, visible, shown, hands, ghosts, budget>>

Loss == losses < MaxLosses /\ MayMove /\ losses' = losses + 1 /\ UNCHANGED <<edits, asked>>

\* What the next process starts with anyway.
NoRenderer ==
    /\ alive' = FALSE /\ visible' = FALSE /\ said' = FALSE /\ link' = FALSE
    /\ window' = Nowhere /\ frameWidth' = Nowhere.w /\ layout' = Fresh /\ dial' = FreshDial
    /\ dragging' = FALSE /\ adjusting' = FALSE
    /\ layoutCrossed' = FALSE /\ windowCrossed' = FALSE
    /\ toRenderer' = <<>>

(* What has arrived is still handled, on either side.                      *)
Cut(q) == {SubSeq(q, 1, n) : n \in 0 .. Len(q)}

LoseLink ==
    /\ alive /\ link /\ Loss
    /\ link' = FALSE /\ said' = FALSE
    /\ toRenderer' \in Cut(toRenderer)
    /\ toPanel' \in {Append(q, Event("lost", Fresh)) : q \in Cut(toPanel)}
    /\ UNCHANGED <<panel, alive, visible, shown, hands, ghosts>>

RendererDies ==
    /\ alive /\ Loss /\ NoRenderer
    /\ toPanel' \in IF link THEN {Append(q, Event("lost", Fresh)) : q \in Cut(toPanel)} ELSE {toPanel}
    /\ UNCHANGED panel

(* A panel that is started anew reads the row and starts its own renderer. *)
PanelRestarts ==
    /\ Loss /\ NoRenderer
    /\ config' = disk /\ greeted' = FALSE /\ toPanel' = <<>>
    /\ UNCHANGED disk

LayoutNext ==
    \/ \E x \in Places : DragWindow(x)
    \/ DropWindow
    \/ \E w \in Widths : ResizeWindow(w)
    \/ \E l \in Layouts : DragModel(l) \/ ScaleModel(l)
    \/ DropModel \/ NewFrame \/ ShowAnyway
    \/ RunCommand \/ HandleEvent
    \/ \E d \in Dials : SetDial(d)
    \/ SwitchModel \/ AskReset \/ AskLayout \/ SaveRow
    \/ StartRenderer \/ Connect \/ SayReady \/ LoseLink \/ RendererDies \/ PanelRestarts

LayoutSpec == LayoutInit /\ [][LayoutNext]_layoutVars

-----------------------------------------------------------------------------
(* Properties *)

Settled == greeted /\ link /\ toRenderer = <<>> /\ toPanel = <<>> /\ ~dragging /\ ~adjusting

(* Through model switches, refused loads, lost links, restarts of either   *)
(* program and the user's edits in between, the layout on screen is the    *)
(* one the panel keeps as soon as both queues are empty, unless an edit or *)
(* a read-back met a replay of the layout on its way, the panel reset the  *)
(* layout, or the edit was made while nobody listened.                     *)
LayoutIsRestored == Settled /\ ~layoutCrossed => layout = config.layout

(* The same of the window, which is moved, resized about its centre and    *)
(* restored by two commands of which the second moves it again; the dials  *)
(* are the panel's alone and agree without exception.                      *)
WindowIsRestored ==
    Settled => /\ dial = config.dial
               /\ ~windowCrossed => window = [x |-> config.x, w |-> config.w]

(* What comes back is what was kept, of the model and of its window.       *)
PetIsRestored == LayoutIsRestored /\ WindowIsRestored

(* REFUTED: a reset is said to be saved through the layout_changed it      *)
(* causes (PluginContextImpl.cpp:1335-1337); it causes none.               *)
ResetIsSaved == Settled /\ Fresh = layout /\ ~LayoutReplay => disk.layout = layout

(* REFUTED: a read-back needs no saving, its values "are already on disk   *)
(* or will be when the user edits" (InstanceSessionHandlers.cpp:536-538).  *)
ReadBackIsOnDisk == Settled => config.layout = disk.layout

(* REFUTED: the dials outlive a restart of the panel                       *)
(* (qt-ui-manual-test.md:342).                                             *)
DialsAreSaved == Settled => config.dial = disk.dial

(* REFUTED: a resize keeps the centre of the window stable                 *)
(* (LAppDelegate.cpp:712), also when two ticks come within one frame.      *)
CentreIsStable ==
    [][\A w \in Widths : ResizeWindow(w) =>
           window'.x + window'.w \div 2 = window.x + window.w \div 2]_layoutVars
-----------------------------------------------------------------------------
(* The inductive invariant: what the two queues will still do to the       *)
(* screen and to the configuration.                                        *)

Kept == [x : Int, w : Nat, layout : Layouts, dial : Dials]
Commands ==
    [do : {"load", "layout", "reset", "get"}, to : Layouts] \cup [do : {"position"}, to : Int]
    \cup [do : {"size"}, to : Nat] \cup [do : {"dial"}, to : Dials]
Events ==
    [of : {"ready", "loaded", "failed", "lost"} \cup LayoutNews, what : Layouts]
    \cup [of : {"drag_end"}, what : Int] \cup [of : {"window_resized"}, what : [x : Int, w : Nat]]

LayoutTypeOK ==
    /\ config \in Kept /\ disk \in Kept /\ greeted \in BOOLEAN
    /\ link \in BOOLEAN /\ toRenderer \in Seq(Commands) /\ toPanel \in Seq(Events)
    /\ alive \in BOOLEAN /\ visible \in BOOLEAN /\ said \in BOOLEAN
    /\ window \in [x : Int, w : Nat] /\ frameWidth \in Nat /\ layout \in Layouts /\ dial \in Dials
    /\ dragging \in BOOLEAN /\ adjusting \in BOOLEAN
    /\ layoutCrossed \in BOOLEAN /\ windowCrossed \in BOOLEAN
    /\ edits \in Nat /\ asked \in Nat /\ losses \in Nat

Lacks(q, kinds) == \A j \in DOMAIN q : q[j].do \notin kinds
Untold(q, kinds) == \A j \in DOMAIN q : q[j].of \notin kinds

\* Every command of its kind, and the last one, asks for v; the last event
\* of these kinds stores v.
AllAsk(q, kind, v) == \A j \in DOMAIN q : q[j].do = kind => q[j].to = v
LastAsks(q, kind, v) ==
    \E k \in DOMAIN q : /\ q[k].do = kind /\ q[k].to = v
                        /\ \A j \in DOMAIN q : j > k => q[j].do # kind

Value(e, field) == IF e.of = "window_resized" THEN e.what[field] ELSE e.what
LastStores(q, kinds, field, v) ==
    \E k \in DOMAIN q : /\ q[k].of \in kinds /\ Value(q[k], field) = v
                        /\ \A j \in DOMAIN q : j > k => q[j].of \notin kinds

NoneAfter(q, marks, kinds) ==
    \A k, j \in DOMAIN q : q[k].of \in marks /\ j > k => q[j].of \notin kinds

LostAfterReady(q) ==
    \A k \in DOMAIN q : q[k].of = "ready" => \E j \in DOMAIN q : j > k /\ q[j].of = "lost"

(* A session that was greeted is connected, or is about to hear that it    *)
(* no longer is.                                                           *)
GreetingIsSound ==
    /\ said => link
    /\ link => alive /\ Untold(toPanel, {"lost"})
    /\ greeted => said \/ ~Untold(toPanel, {"lost"})
    /\ said \/ LostAfterReady(toPanel)

\* The salvo of this connection was sent.
Opened == said /\ Untold(toPanel, {"ready"})

DialSettles == Opened =>
    LastAsks(toRenderer, "dial", config.dial) \/ (Lacks(toRenderer, {"dial"}) /\ dial = config.dial)

Placing == ~Lacks(toRenderer, {"position", "size"})
WindowFollows ==
    /\ Untold(toPanel, WindowNews) /\ window.w = config.w
    /\ AllAsk(toRenderer, "size", config.w) /\ (Lacks(toRenderer, {"size"}) \/ frameWidth = config.w)
    /\ \/ LastAsks(toRenderer, "position", config.x)
       \/ Lacks(toRenderer, {"position"}) /\ (window.x = config.x \/ dragging)
WindowIsFollowed ==
    /\ \/ LastStores(toPanel, {"window_resized"}, "w", window.w)
       \/ Untold(toPanel, {"window_resized"}) /\ config.w = window.w
    /\ \/ dragging
       \/ LastStores(toPanel, WindowNews, "x", window.x)
       \/ Untold(toPanel, WindowNews) /\ config.x = window.x
WindowSettles == ~windowCrossed =>
    /\ link => NoneAfter(toPanel, {"ready"}, WindowNews)
    /\ Opened => IF Placing THEN WindowFollows ELSE WindowIsFollowed

\* The layout that will be kept is the one that will be shown.
WillKeep(l) ==
    LastStores(toPanel, LayoutNews, "layout", l) \/ (Untold(toPanel, LayoutNews) /\ config.layout = l)
WillShow(l) ==
    LastAsks(toRenderer, "layout", l) \/ (Lacks(toRenderer, {"layout"}) /\ (layout = l \/ adjusting))
LayoutSettles == ~layoutCrossed =>
    /\ link => NoneAfter(toPanel, {"ready", "loaded"}, LayoutNews)
    /\ Opened /\ Untold(toPanel, {"loaded"}) /\ Lacks(toRenderer, {"reset"}) =>
           \E l \in Layouts : WillKeep(l) /\ WillShow(l)

PetInv == LayoutTypeOK /\ GreetingIsSound /\ DialSettles /\ WindowSettles /\ LayoutSettles
=============================================================================
