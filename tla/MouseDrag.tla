------------------------------ MODULE MouseDrag ------------------------------
(***************************************************************************)
(* plugins/tiling/mouse.cpp with the locks of vspace.cpp and the event tap *)
(* of common/dispatch/cgeventtap.cpp: a window is moved or resized with    *)
(* the mouse.                                                              *)
(*                                                                         *)
(* The tap's callback runs on the main thread, once for each event of the  *)
(* mouse.  A drag begins in one callback and ends in a later one.  When    *)
(* the window below the cursor is tiled, the lock of the virtual space is  *)
(* taken in the first and given back in the last; when it floats, the lock *)
(* is given back at once.  Meanwhile the event thread handles events, which *)
(* take the same locks to change trees and which free windows.             *)
(*                                                                         *)
(* What points to a window points to one of its structures: an application *)
(* that is hidden and shown again gets new ones.                           *)
(* Nodes are told apart by the generation of their tree: whenever a tree   *)
(* changes, what pointed to its nodes may point to memory that was freed.  *)
(* VirtualSpacesLock is held only for a lookup and is left out.            *)
(***************************************************************************)
EXTENDS Naturals, Sequences, FiniteSets

CONSTANTS Window,
          Floating,     \* windows with the flag Window_Float, which a rule gives them
          Space, User,  \* the spaces of the display, and those that are desktops
          HomeOf,       \* the space of each window
          Application,
          OwnerOf,      \* the application of each window
          None,
          MaySwitch,    \* whether the user switches spaces in the middle of a drag
          MaxTap,       \* bound on mouse events under way
          MaxHandlers   \* bound on the handlers that change a tree

ASSUME DragAssumption ==
    /\ Floating \subseteq Window /\ User \subseteq Space /\ HomeOf \in [Window -> User]
    /\ OwnerOf \in [Window -> Application]
    /\ None \notin Window \cup Space
    /\ MaySwitch \in BOOLEAN
    /\ MaxTap \in Nat /\ MaxHandlers \in Nat

VARIABLES lock,      \* who holds VirtualSpace->Lock
          tree,      \* the windows and the generation of each tree
          known,     \* Windows, the plugin's collection
          made,      \* how many structures of each window came before the current one
          freed,     \* structures that were freed
          active,    \* the space that is shown
          ev,        \* the event thread: pc, handler, space, window and windows to come
          handlers,  \* handlers begun so far
          main,      \* the main thread inside the callback: pc, space and action
          drag,      \* ResizeState
          borders,   \* the structures ResizeBorders points to
          button,    \* whether the user holds a mouse button
          tap        \* whether the event tap is enabled, and its events

shared == <<lock, tree, known, made, freed>>
vars == <<shared, active, ev, handlers, main, drag, borders, button, tap>>

StructOf(w) == [window |-> w, made |-> made[w]]
EventIdle == [pc |-> "idle", job |-> "none", space |-> None, window |-> None, rest |-> {}]
MainIdle == [pc |-> "idle", space |-> None, action |-> None]
NoDrag == [mode |-> "none", window |-> None, target |-> None, space |-> None, gen |-> 0]

Action == {"move", "resize"}
TiledMode == {"swap", "resize"}
FloatingMode == {"move floating", "resize floating"}
Tiled(action) == IF action = "move" THEN "swap" ELSE "resize"
Floats(action) == IF action = "move" THEN "move floating" ELSE "resize floating"

Init == /\ lock = [s \in Space |-> "free"]
        /\ tree = [s \in Space |-> [windows |-> {w \in Window \ Floating : HomeOf[w] = s}, gen |-> 0]]
        /\ known = Window /\ made = [w \in Window |-> 0] /\ freed = {}
        /\ active \in Space
        /\ ev = EventIdle /\ handlers = 0
        /\ main = MainIdle /\ drag = NoDrag /\ borders = {}
        /\ button = FALSE /\ tap = [enabled |-> TRUE, events |-> <<>>]

IsMouseActionInProgress == drag.mode # "none"
AcquireVirtualSpace(s, who) == lock[s] = "free" /\ lock' = [lock EXCEPT ![s] = who]
ReleaseVirtualSpace(s) == lock' = [lock EXCEPT ![s] = "free"]

----
(* The event thread.  WindowDestroyedHandler takes the window out of the    *)
(* collection, takes it out of the tree of the space that is shown unless   *)
(* it floats, and frees its structure.  ApplicationUnhiddenHandler puts a   *)
(* new structure in the place of the old one, for each window of the        *)
(* application, with no lock, whether or not the window is in the tree.     *)
(* Every other handler or command that changes a tree does so with the lock *)
(* of the space that is shown, and frees no structure of the collection;    *)
(* Deinit is left out.                                                      *)
mouseVars == <<active, main, drag, borders, button, tap>>

HandlerBegins == /\ ev.pc = "idle" /\ handlers < MaxHandlers
                 /\ handlers' = handlers + 1
                 /\ UNCHANGED <<lock, tree, made, freed, mouseVars>>

\* A fault: the structure is freed before the window has left the tree.
FaultWindowDestroyed(w) ==
    /\ HandlerBegins /\ w \in known
    /\ known' = known \ {w}
    /\ ev' = [EventIdle EXCEPT !.pc = "free", !.window = w]

WindowDestroyed(w) ==
    /\ HandlerBegins /\ w \in known
    /\ known' = known \ {w}
    /\ ev' = IF w \notin Floating /\ active \in User
             THEN [EventIdle EXCEPT !.pc = "wait", !.job = "destroy", !.space = active, !.window = w]
             ELSE [EventIdle EXCEPT !.pc = "free", !.window = w]

TreeChanges == /\ HandlerBegins /\ active \in User
               /\ ev' = [EventIdle EXCEPT !.pc = "wait", !.job = "change", !.space = active]
               /\ UNCHANGED known

\* AXLibWindowListForApplication lists windows of the application, which need not be all.
ApplicationUnhidden(a) ==
    /\ HandlerBegins /\ active \in User
    /\ \E list \in SUBSET {w \in known : OwnerOf[w] = a} :
           /\ list # {}
           /\ ev' = [EventIdle EXCEPT !.pc = "next", !.job = "unhide", !.rest = list]
    /\ UNCHANGED known

\* The window is out of the collection until its new structure is in.
UnhiddenRemoves(w) ==
    /\ ev.pc = "next" /\ w \in ev.rest
    /\ known' = known \ {w}
    /\ ev' = [ev EXCEPT !.pc = "old", !.window = w, !.rest = @ \ {w}]
    /\ UNCHANGED <<lock, tree, made, freed, handlers, mouseVars>>

UnhiddenFrees == /\ ev.pc = "old"
                 /\ freed' = freed \cup {StructOf(ev.window)}
                 /\ ev' = [ev EXCEPT !.pc = "new"]
                 /\ UNCHANGED <<lock, tree, known, made, handlers, mouseVars>>

NextWindow == IF ev.rest = {} THEN EventIdle
              ELSE [ev EXCEPT !.pc = "next", !.space = None, !.window = None]

\* Whether the lock is taken depends on the rules, on where the window is and on whether
\* it can be tiled (ApplyRulesForWindow, AXLibSpaceHasWindow, TileWindow).
UnhiddenAdds ==
    /\ ev.pc = "new"
    /\ known' = known \cup {ev.window} /\ made' = [made EXCEPT ![ev.window] = @ + 1]
    /\ \/ ev' = NextWindow
       \/ active \in User /\ ev' = [ev EXCEPT !.pc = "wait", !.space = active]
    /\ UNCHANGED <<lock, tree, freed, handlers, mouseVars>>

EventAcquires == /\ ev.pc = "wait" /\ AcquireVirtualSpace(ev.space, "event")
                 /\ ev' = [ev EXCEPT !.pc = "hold"]
                 /\ UNCHANGED <<tree, known, made, freed, handlers, mouseVars>>

TileableOn(s) == {w \in known \ Floating : HomeOf[w] = s}

\* Windows of the space are tiled and untiled: one that was destroyed is untiled, and
\* ApplicationUnhiddenHandler tiles or untiles none but the window it has come to.
EventReleases ==
    /\ ev.pc = "hold" /\ ReleaseVirtualSpace(ev.space)
    /\ \E windows \in SUBSET (tree[ev.space].windows \cup TileableOn(ev.space)) :
           /\ ev.job = "destroy" => ev.window \notin windows
           /\ ev.job = "unhide" => windows \ {ev.window} = tree[ev.space].windows \ {ev.window}
           /\ tree' = [tree EXCEPT ![ev.space] = [windows |-> windows, gen |-> @.gen + 1]]
    /\ ev' = IF ev.job = "destroy" THEN [EventIdle EXCEPT !.pc = "free", !.window = ev.window]
             ELSE NextWindow
    /\ UNCHANGED <<known, made, freed, handlers, mouseVars>>

AXLibDestroyWindow == /\ ev.pc = "free"
                      /\ freed' = freed \cup {StructOf(ev.window)}
                      /\ ev' = EventIdle
                      /\ UNCHANGED <<lock, tree, known, made, handlers, mouseVars>>

HandlerStep == \/ EventReleases \/ AXLibDestroyWindow
               \/ (\E w \in Window : UnhiddenRemoves(w)) \/ UnhiddenFrees \/ UnhiddenAdds
EventThread == \/ \E w \in Window : WindowDestroyed(w)
               \/ \E a \in Application : ApplicationUnhidden(a)
               \/ TreeChanges \/ EventAcquires \/ HandlerStep

----
(* The callback of the event tap.                                           *)
eventVars == <<tree, known, made, freed, active, ev, handlers, button>>

\* A fault: a button that is pressed during a drag begins another one.
FaultCanBegin == active \in User
CanBegin == ~IsMouseActionInProgress /\ active \in User

EventTapCallback(kind) ==
    /\ main.pc = "idle" /\ tap.events # <<>> /\ Head(tap.events) = kind
    /\ tap' = [tap EXCEPT !.events = Tail(@)]
    /\ UNCHANGED eventVars

\* MouseMoveWindowBegin, MouseResizeWindowBegin
WindowBegin(action) ==
    /\ EventTapCallback(action)
    /\ main' = IF CanBegin THEN [pc |-> "wait", space |-> active, action |-> action] ELSE main
    /\ UNCHANGED <<lock, drag, borders>>

MainAcquires == /\ main.pc = "wait" /\ AcquireVirtualSpace(main.space, "main")
                /\ main' = [main EXCEPT !.pc = "begin"]
                /\ UNCHANGED <<eventVars, drag, borders, tap>>

BeginReturns == main.pc = "begin" /\ main' = MainIdle /\ UNCHANGED <<eventVars, tap>>

\* The pointer is kept for the callbacks to come, the lock is not.
BeginFloatingWindow(w) ==
    /\ BeginReturns
    /\ w \in Floating \cap known /\ HomeOf[w] = main.space
    /\ drag' = [NoDrag EXCEPT !.mode = Floats(main.action), !.window = StructOf(w)]
    /\ ReleaseVirtualSpace(main.space)
    /\ UNCHANGED borders

Remember(w) ==
    drag' = [NoDrag EXCEPT !.mode = Tiled(main.action), !.window = StructOf(w),
                           !.space = main.space, !.gen = tree[main.space].gen]

\* A fault: the lock is given back, as after BeginFloatingWindow.
FaultBeginTiled(w) ==
    /\ BeginReturns /\ w \in tree[main.space].windows \cap known
    /\ Remember(w) /\ borders' = {StructOf(w)} /\ ReleaseVirtualSpace(main.space)

\* A resize has borders for all windows below the ancestor of what it moves.
\* GetWindowByID must find each of them: see TickFindsWindow.
BeginTiledWindow(w) ==
    /\ BeginReturns
    /\ w \in tree[main.space].windows \cap known
    /\ Remember(w)
    /\ IF main.action = "move" THEN borders' = {StructOf(w)}
       ELSE \E below \in SUBSET (tree[main.space].windows \cap known) :
                borders' = {StructOf(v) : v \in below \cup {w}}
    /\ UNCHANGED lock

BeginNothing == BeginReturns /\ ReleaseVirtualSpace(main.space) /\ UNCHANGED <<drag, borders>>

\* MouseMoveWindowTick, MouseResizeWindowTick: a tick over a node that was not
\* the last one remembers it, and the first one makes the second border, for
\* which GetWindowByID must find the window; other ticks change no pointer.
TickOverNode(w) ==
    /\ EventTapCallback("drag") /\ drag.mode = "swap"
    /\ w \in tree[drag.space].windows \ {drag.target}
    /\ drag.target = None => w \in known
    /\ drag' = [drag EXCEPT !.target = w]
    /\ borders' = IF drag.target = None THEN borders \cup {StructOf(w)} ELSE borders
    /\ UNCHANGED <<lock, main>>

WindowTick == EventTapCallback("drag") /\ UNCHANGED <<lock, main, drag, borders>>

\* A fault: a button that is let go before the mouse has moved over a node does
\* not end the drag.
FaultMoveWindowEnd ==
    /\ drag.mode \in {"swap", "move floating"}
    /\ IF drag.target # None
       THEN drag' = NoDrag /\ borders' = {} /\ ReleaseVirtualSpace(drag.space)
       ELSE UNCHANGED <<lock, drag, borders>>

\* SwapNodeIds changes which window a node shows, not the nodes.
MouseMoveWindowEnd ==
    /\ drag.mode \in {"swap", "move floating"}
    /\ drag' = NoDrag
    /\ IF drag.mode = "swap" THEN borders' = {} /\ ReleaseVirtualSpace(drag.space)
       ELSE UNCHANGED <<lock, borders>>

MouseResizeWindowEnd ==
    /\ drag.mode \in {"resize", "resize floating"}
    /\ drag' = NoDrag
    /\ IF drag.mode = "resize" THEN borders' = {} /\ ReleaseVirtualSpace(drag.space)
       ELSE UNCHANGED <<lock, borders>>

\* Any button that is let go ends a drag.
WindowEnd ==
    /\ EventTapCallback("up")
    /\ \/ MouseMoveWindowEnd \/ MouseResizeWindowEnd
       \/ ~IsMouseActionInProgress /\ UNCHANGED <<lock, drag, borders>>
    /\ UNCHANGED main

\* kCGEventTapDisabledByTimeout
EnableTap == /\ main.pc = "idle" /\ tap.events = <<>> /\ ~tap.enabled
             /\ tap' = [tap EXCEPT !.enabled = TRUE]
             /\ UNCHANGED <<eventVars, lock, main, drag, borders>>

Begin == \/ MainAcquires \/ BeginNothing
         \/ \E w \in Window : BeginFloatingWindow(w) \/ BeginTiledWindow(w)
Tick == WindowTick \/ \E w \in Window : TickOverNode(w)
MainThread == (\E action \in Action : WindowBegin(action)) \/ Begin \/ Tick \/ WindowEnd \/ EnableTap

----
(* The user and the window server.  The server disables a tap that does not *)
(* answer; what the user does until it is enabled again is not heard.       *)
Heard(e) == tap' = IF tap.enabled THEN [tap EXCEPT !.events = Append(@, e)] ELSE tap
Room == Len(tap.events) < MaxTap
userVars == <<shared, active, ev, handlers, main, drag, borders>>

Press(action) == /\ ~button /\ Room /\ button' = TRUE /\ Heard(action) /\ UNCHANGED userVars
MoveMouse == /\ button /\ Room /\ tap.enabled /\ Heard("drag") /\ UNCHANGED <<userVars, button>>
Release == /\ button /\ Room /\ button' = FALSE /\ Heard("up") /\ UNCHANGED userVars
ReleaseHeard == Release /\ tap.enabled

DisableTap == /\ tap.enabled /\ main.pc = "wait"
              /\ tap' = [tap EXCEPT !.enabled = FALSE]
              /\ UNCHANGED <<userVars, button>>

SwitchSpace == /\ IsMouseActionInProgress \/ main.pc # "idle" => MaySwitch
               /\ active' \in Space \ {active}
               /\ UNCHANGED <<shared, ev, handlers, main, drag, borders, button, tap>>

Outside == (\E action \in Action : Press(action)) \/ MoveMouse \/ Release \/ DisableTap \/ SwitchSpace

Next == EventThread \/ MainThread \/ Outside
Spec == Init /\ [][Next]_vars

(* Threads run; a lock that is free again and again is had by whoever waits. *)
(* The user goes on using the mouse, and when a button is let go again and   *)
(* again while the tap is enabled, one time is heard.                        *)
FairSpec == /\ Spec
            /\ SF_vars(EventAcquires) /\ WF_vars(HandlerStep)
            /\ SF_vars(MainAcquires) /\ WF_vars(MainThread)
            /\ WF_vars(\E action \in Action : Press(action)) /\ SF_vars(ReleaseHeard)

----
(* Properties.                                                              *)

(* Every variable has a value of its kind; no border outlives its drag, and *)
(* there are never more than two while windows change places.               *)
TypeOK ==
    /\ lock \in [Space -> {"free", "main", "event"}]
    /\ known \subseteq Window /\ \A w \in known : StructOf(w) \notin freed
    /\ drag.mode \in {"none"} \cup TiledMode \cup FloatingMode
    /\ borders # {} => drag.mode \in TiledMode
    /\ drag.mode = "swap" => Cardinality(borders) \in 1 .. 2
    /\ Len(tap.events) <= MaxTap /\ handlers \in 0 .. MaxHandlers

(* The nodes that ResizeState points to from one callback to the next are   *)
(* nodes of the tree all the time: nobody changes the tree of the space     *)
(* during the drag of a tiled window (BeginTiledWindow keeps the lock).     *)
DragKeepsNodes ==
    drag.mode \in TiledMode => lock[drag.space] = "main" /\ tree[drag.space].gen = drag.gen

(* A structure that a border points to is not freed because its window was  *)
(* destroyed, which waits for the lock (WindowDestroyedHandler); if it is    *)
(* freed, then ApplicationUnhiddenHandler puts another in its place.        *)
Replaced(p) == \/ p.made < made[p.window]
               \/ ev.pc = "new" /\ ev.window = p.window
DestroyedIsKept == \A p \in borders \cap freed : Replaced(p)

(* Both, and the types: the nodes that a drag remembers from one callback   *)
(* to the next are there when the next callback uses them (ResizeState), and *)
(* so are the windows (ResizeBorders) unless their application is hidden    *)
(* and shown again, see BordersAreLive.                                     *)
DragIsSafe == TypeOK /\ DragKeepsNodes /\ DestroyedIsKept

(* The main thread never waits for a lock that it holds itself, or for the  *)
(* event thread while that waits for the main thread.                       *)
MainNeverBlocksItself ==
    main.pc = "wait" => \A s \in Space : lock[s] # "main"

(* A handler that needs the lock of a space which is being dragged in gets  *)
(* it in the end, also when the end of the drag was not heard: the next     *)
(* button that is let go ends it, and the tap is enabled again.             *)
HandlerProceeds == ev.pc = "wait" ~> ev.pc # "wait"

(* The structures of the borders are not freed before the drag ends: it     *)
(* does not hold, since ApplicationUnhiddenHandler frees them with no lock.  *)
BordersAreLive == borders \cap freed = {}

(* The window of a floating drag is not protected: its structure may be     *)
(* freed by the event thread while ResizeState.Window points to it.         *)
FloatingDragIsLive == drag.mode \in FloatingMode => drag.window \notin freed

(* ASSERT(Window) in MouseMoveWindowTick and CreateResizeBorders: a window  *)
(* of the tree is in the collection.                                        *)
TickFindsWindow == drag.mode \in TiledMode => tree[drag.space].windows \subseteq known
====
