------------------------------- MODULE Desktops -------------------------------
(***************************************************************************)
(* plugins/tiling/plugin.mm, vspace.cpp, rule.cpp and the commands of      *)
(* controller.cpp that move a window into or out of a tree: which windows  *)
(* the tiling plugin keeps in the tree of which desktop, while windows     *)
(* come and go, the user switches desktops and monitors, resolutions       *)
(* change and rules move windows on their own.                             *)
(*                                                                         *)
(* The window server acts at any time.  The plugin hears of it through     *)
(* events, handled one at a time in order by the event thread, and every   *)
(* handler looks at the desktops as they are when it runs, not as they     *)
(* were when the event was posted.  A handler is one step: its reads of    *)
(* the window server are not told apart.                                   *)
(*                                                                         *)
(* A tree is the set of its windows here (BspTree models its shape); no    *)
(* tree and the empty set are the same.  One application has one window.   *)
(* Sticky windows are left out.                                            *)
(***************************************************************************)
EXTENDS Naturals, Sequences, FiniteSets, FiniteSetsExt

CONSTANTS Window,
          Running,       \* windows of the applications that run before the plugin is loaded
          Dialog,        \* windows that are not standard, movable and resizable
          Sheet,         \* windows that are sheets of another window
          Display, Space,
          User,          \* the spaces of type kCGSSpaceUser; the others are fullscreen windows
          DisplayOf,     \* the display of each space
          None,
          Layout,        \* "float" and the tiling modes
          Rule,          \* rules the user may add: [window, state, desktop]
          Command,       \* commands the user may send
          Circumstance,  \* which of the circumstances named below may arise
          MaxQueue,      \* bound on the events under way
          MaxChanges     \* bound on what the user and the windows do

ASSUME DesktopsAssumption ==
    /\ Running \subseteq Window /\ Dialog \subseteq Window /\ Sheet \subseteq Window
    /\ User \subseteq Space /\ DisplayOf \in [Space -> Display]
    /\ Circumstance \subseteq {"behind", "unseen", "dupe", "late rule", "float next", "launch", "moved"}
    /\ MaxQueue \in Nat /\ MaxChanges \in Nat

VARIABLES active,   \* the current space of each display
          to,       \* the space a display is changing to, or None
          focus,    \* the display that has the focus
          shown,    \* each window: "none", "open", "minimized", "hidden" or "closed"
          queue,    \* events posted and not yet handled
          changes,  \* how often the user or a window acted
          p         \* what the plugin knows, and where windows are

world == <<active, to, focus, shown>>
vars == <<world, queue, changes, p>>

(* p.at:     the space the window server has each window on                 *)
(* p.known:  Windows, the plugin's collection                               *)
(* p.float, p.forced: flags Window_Float and Window_ForceTile               *)
(* p.tiled:  the windows in the tree of each virtual space                  *)
(* p.mode:   the mode of each virtual space                                 *)
(* p.resize, p.update: Virtual_Space_Require_Resize and _Region_Update      *)
(* p.floatNext: CVAR_WINDOW_FLOAT_NEXT                                      *)
(* p.rules:  WindowRules                                                    *)
(* Three parts only record what happened: p.stale, the trees whose regions  *)
(* are of an old resolution; p.placed, the windows that are where their     *)
(* region is; p.vacant, the trees left alone because no window was visible. *)

----
(* What the plugin asks the window server.                                  *)
AXLibActiveSpace == active[focus]
IsChanging(s) == to[DisplayOf[s]] # None
IsCurrent(s) == active[DisplayOf[s]] = s
On(q, s) == {w \in Window : shown[w] = "open" /\ q.at[w] = s}

\* The accessibility list of an application: its windows on the current spaces.
ListedWindows(q) == {w \in Window : shown[w] \notin {"none", "closed"} /\ IsCurrent(q.at[w])}

IsWindowValid(q, w) == w \in q.forced \/ w \notin Dialog
IsTiledKind(q, w) == IsWindowValid(q, w) /\ w \notin q.float

GetAllVisibleWindowsForSpace(q, s) == {w \in On(q, s) \cap q.known : IsTiledKind(q, w)}

----
(* The plugin's building blocks.  Each takes what the plugin knows and      *)
(* returns it changed.                                                      *)
FloatWindow(q, w) == [q EXCEPT !.float = @ \cup {w}]
UnfloatWindow(q, w) == [q EXCEPT !.float = @ \ {w}]

CanTileOn(q, w, s) == q.mode[s] # "float" /\ ~IsChanging(s) /\ w \notin q.tiled[s]

\* The first window makes a new tree, with the regions of the current resolution.
TileWindowOnSpace(q, w, s) ==
    IF ~CanTileOn(q, w, s) THEN q
    ELSE [q EXCEPT !.tiled[s] = @ \cup {w}, !.placed = @ \cup {w},
                   !.stale = IF q.tiled[s] = {} THEN @ \ {s} ELSE @]

TileWindow(q, w) ==
    IF w \in q.float THEN q
    ELSE IF ~IsWindowValid(q, w) THEN FloatWindow(q, w)
    ELSE IF q.floatNext THEN [FloatWindow(q, w) EXCEPT !.floatNext = FALSE]
    ELSE IF AXLibActiveSpace \in User THEN TileWindowOnSpace(q, w, AXLibActiveSpace)
    ELSE q

UntileWindowFromSpace(q, w, s) ==
    IF q.mode[s] = "float" THEN q ELSE [q EXCEPT !.tiled[s] = @ \ {w}]

\* The window's display is found by where the window is, its space by what is active there.
UntileWindow(q, w) ==
    LET s == active[DisplayOf[q.at[w]]]
    IN IF IsTiledKind(q, w) /\ s \in User THEN UntileWindowFromSpace(q, w, s) ELSE q

CreateWindowTreeForSpace(q, s) ==
    LET visible == GetAllVisibleWindowsForSpace(q, s)
    IN IF q.mode[s] = "float" \/ q.tiled[s] # {} \/ visible = {} THEN q
       ELSE [q EXCEPT !.tiled[s] = visible, !.placed = @ \cup visible, !.stale = @ \ {s},
                      !.vacant = @ \ {s}]

\* The order in which windows are added is the window server's.
AddToTree(q, add, s) ==
    LET Add(w, r) == IF r.floatNext THEN [FloatWindow(r, w) EXCEPT !.floatNext = FALSE]
                                    ELSE TileWindowOnSpace(r, w, s)
    IN FoldSet(Add, q, add)

\* Faults: windows that left are kept; windows that came are not added.
FaultRebalanceKeeps(q, s, visible) ==
    AddToTree([q EXCEPT !.vacant = @ \ {s}], visible \ q.tiled[s], s)
FaultRebalanceOnlyRemoves(q, s, visible) ==
    [q EXCEPT !.tiled[s] = @ \cap visible, !.vacant = @ \ {s}]

RebalanceWindowTreeForSpaceWithWindows(q, s, visible) ==
    LET kept == [q EXCEPT !.tiled[s] = @ \cap visible, !.vacant = @ \ {s}]
    IN AddToTree(kept, visible \ q.tiled[s], s)

RebalanceWindowTree(q) ==
    LET s == AXLibActiveSpace
    IN IF IsChanging(s) \/ s \notin User \/ q.mode[s] = "float" \/ q.tiled[s] = {} THEN q
       ELSE RebalanceWindowTreeForSpaceWithWindows(q, s, GetAllVisibleWindowsForSpace(q, s))

CreateWindowTree(q) ==
    LET s == AXLibActiveSpace
    IN IF IsChanging(s) \/ s \notin User THEN q ELSE CreateWindowTreeForSpace(q, s)

----
(* Sending a window away.  The source is the current space of the window's  *)
(* display, wherever the window really is.  A window that is sent to a      *)
(* desktop another monitor shows is tiled there at once.                    *)
SourceOf(q, w) == active[DisplayOf[q.at[w]]]

Move(q, w, s) ==
    LET left == IF IsTiledKind(q, w) THEN UntileWindowFromSpace(q, w, SourceOf(q, w)) ELSE q
    IN [left EXCEPT !.at[w] = s]

CanSendToDesktop(q, w, s) == SourceOf(q, w) \in User /\ SourceOf(q, w) # s

SendWindowToDesktop(q, w, s) ==
    LET sent == Move(q, w, s)
    IN IF ~CanSendToDesktop(q, w, s) THEN q
       ELSE IF DisplayOf[s] # DisplayOf[q.at[w]] /\ IsTiledKind(q, w) /\ IsCurrent(s)
            THEN TileWindowOnSpace(sent, w, s)
            ELSE sent

SendWindowToMonitor(q, w, d) ==
    LET s == active[d]
    IN IF SourceOf(q, w) \notin User \/ s \notin User \/ DisplayOf[q.at[w]] = d THEN q
       ELSE IF IsTiledKind(q, w) THEN TileWindowOnSpace(Move(q, w, s), w, s)
       ELSE Move(q, w, s)

----
(* Rules.  A window that enters the collection is given to every rule; a    *)
(* rule that is added, to every window of the collection.                   *)
ApplyWindowRuleState(q, w, state) ==
    CASE state = "float" /\ w \notin q.float -> FloatWindow(UntileWindow(q, w), w)
      [] state = "tile" /\ w \notin q.forced ->
            LET forced == [UnfloatWindow(q, w) EXCEPT !.forced = @ \cup {w}]
            IN IF q.at[w] = AXLibActiveSpace /\ shown[w] = "open"
               THEN TileWindow(forced, w) ELSE forced
      [] OTHER -> q

ApplyWindowRule(q, w, rule) ==
    IF rule.window # w THEN q
    ELSE ApplyWindowRuleState(IF rule.desktop = None THEN q
                              ELSE SendWindowToDesktop(q, w, rule.desktop), w, rule.state)

ApplyRulesForWindow(q, w) == FoldSet(LAMBDA rule, r : ApplyWindowRule(r, w, rule), q, q.rules)

AddWindowRule(q, rule) ==
    LET added == [q EXCEPT !.rules = @ \cup {rule}]
    IN IF rule.window \in q.known THEN ApplyWindowRule(added, rule.window, rule) ELSE added

\* Rule_Desktop_Changed: a rule has sent the window away.
RuleChangedDesktop(q, w) ==
    \E rule \in q.rules : rule.window = w /\ rule.desktop # None /\ CanSendToDesktop(q, w, rule.desktop)

\* The new structure has no flags; one that was there before is overwritten.
AddWindowToCollection(q, w) ==
    ApplyRulesForWindow([q EXCEPT !.known = @ \cup {w}, !.float = @ \ {w}, !.forced = @ \ {w}], w)

RemoveWindowFromCollection(q, w) == [q EXCEPT !.known = @ \ {w}]

UpdateWindowCollection(q) ==
    FoldSet(LAMBDA w, r : AddWindowToCollection(r, w), q,
            (ListedWindows(q) \cap Running) \ q.known)

AddAndTile(q, w) ==
    IF RuleChangedDesktop(q, w) THEN AddWindowToCollection(q, w)
    ELSE TileWindow(AddWindowToCollection(q, w), w)

----
(* The handlers of PluginMain.                                              *)
Event(type, who) == [type |-> type, who |-> who]
Post(e) == Len(queue) < MaxQueue /\ queue' = Append(queue, e)
Take(types) == /\ queue # <<>> /\ ~p.dead /\ Head(queue).type \in types
               /\ queue' = Tail(queue)
               /\ UNCHANGED <<world, changes>>
Who == Head(queue).who

EventsSubscribed == Take({"subscribed"}) /\ p' = CreateWindowTree(p)

WindowCreatedHandler == Take({"created"}) /\ p' = AddAndTile(p, Who)

WindowSheetCreatedHandler == Take({"sheet"}) /\ p' = FloatWindow(AddWindowToCollection(p, Who), Who)

ApplicationLaunchedHandler ==
    /\ Take({"launched"})
    /\ p' = IF Who \in ListedWindows(p) \ p.known THEN AddAndTile(p, Who) ELSE p

\* A window the plugin does not know is invalid by now: nothing is done for it.
WindowDestroyedHandler ==
    /\ Take({"destroyed"})
    /\ LET removed == RemoveWindowFromCollection(p, Who)
       IN p' = IF Who \notin p.known THEN p
               ELSE IF IsWindowValid(p, Who) THEN UntileWindow(removed, Who)
               ELSE RebalanceWindowTree(removed)

\* ApplicationTerminatedHandler and ApplicationHiddenHandler
ApplicationGoneHandler == Take({"terminated", "hidden"}) /\ p' = RebalanceWindowTree(p)

\* The window is removed and added again, which applies the rules anew.
ApplicationUnhiddenHandler ==
    /\ Take({"unhidden"})
    /\ p' = IF AXLibActiveSpace \notin User \/ Who \notin ListedWindows(p) THEN p
            ELSE LET added == AddWindowToCollection(RemoveWindowFromCollection(p, Who), Who)
                 IN IF added.at[Who] = AXLibActiveSpace THEN TileWindow(added, Who) ELSE added

\* ASSERT(Copy): without the window in the collection the process dies.
WindowMinimizedHandler ==
    /\ Take({"minimized"})
    /\ p' = IF Who \in p.known THEN UntileWindow(p, Who) ELSE [p EXCEPT !.dead = TRUE]

WindowDeminimizedHandler ==
    /\ Take({"deminimized"})
    /\ p' = IF AXLibActiveSpace \notin User \/ p.at[Who] # AXLibActiveSpace THEN p
            ELSE IF Who \in p.known THEN TileWindow(p, Who) ELSE [p EXCEPT !.dead = TRUE]

\* A fault: a window that is not on a current space is ignored.
FaultConstrain(q, w) ==
    IF w \notin q.float /\ ~IsChanging(q.at[w]) /\ IsCurrent(q.at[w]) /\ w \in q.tiled[q.at[w]]
    THEN [q EXCEPT !.placed = @ \cup {w}] ELSE q

\* WindowMovedHandler and WindowResizedHandler with CVAR_WINDOW_REGION_LOCKED.
ConstrainWindowToRegion(q, w) ==
    LET s == q.at[w]
    IN IF w \in q.float \/ IsChanging(s) THEN q
       ELSE IF IsCurrent(s)
            THEN IF s \in User /\ w \in q.tiled[s] THEN [q EXCEPT !.placed = @ \cup {w}] ELSE q
       ELSE IF s \in User /\ q.tiled[s] # {} THEN [q EXCEPT !.update = @ \cup {s}] ELSE q

\* Unless the circumstance "moved" arises, the handler does not run during an animation.
WindowMovedHandler ==
    /\ Take({"moved"})
    /\ IsChanging(p.at[Who]) => "moved" \in Circumstance
    /\ p' = IF Who \in p.known THEN ConstrainWindowToRegion(p, Who) ELSE p

WindowTitleChangedHandler ==
    /\ Take({"title"})
    /\ p' = IF Who \in p.known THEN ApplyRulesForWindow(p, Who) ELSE p

VirtualSpaceRecreateRegions(q, s) ==
    IF s \notin q.resize THEN q
    ELSE [q EXCEPT !.resize = @ \ {s}, !.stale = @ \ {s}, !.placed = @ \cup q.tiled[s]]

VirtualSpaceUpdateRegions(q, s) ==
    IF s \notin q.update THEN q
    ELSE [q EXCEPT !.update = @ \ {s}, !.placed = @ \cup q.tiled[s]]

SpaceAndDisplayChangedHandler ==
    /\ Take({"changed"})
    /\ LET q == UpdateWindowCollection(p)
           s == AXLibActiveSpace
           visible == GetAllVisibleWindowsForSpace(q, s)
       IN p' = IF s \notin User \/ q.mode[s] = "float" THEN q
               ELSE IF visible = {}
               THEN [q EXCEPT !.vacant = IF q.tiled[s] = {} THEN @ \ {s} ELSE @ \cup {s}]
               ELSE IF q.tiled[s] = {} THEN CreateWindowTreeForSpace(q, s)
               ELSE RebalanceWindowTreeForSpaceWithWindows(
                        VirtualSpaceUpdateRegions(VirtualSpaceRecreateRegions(q, s), s), s, visible)

\* A fault: the desktops that are not shown are not flagged.
FaultRecreate(q, d) ==
    [q EXCEPT !.stale = @ \ {active[d]}, !.placed = @ \cup q.tiled[active[d]]]

RecreateVirtualSpaceRegionsForDisplay(q, d) ==
    LET trees == {s \in Space : DisplayOf[s] = d /\ q.tiled[s] # {}}
        now == trees \cap {active[d]}
    IN [q EXCEPT !.stale = @ \ now, !.resize = @ \cup (trees \ now),
                 !.placed = @ \cup UNION {q.tiled[s] : s \in now}]

DisplayResizedHandler ==
    Take({"resized"}) /\ p' = RecreateVirtualSpaceRegionsForDisplay(p, Who)

(* Commands act on the focused window, if there is one, when they run.      *)
ToggleWindowFloat(q, w) ==
    IF w \in q.float THEN TileWindow(UnfloatWindow(q, w), w) ELSE FloatWindow(UntileWindow(q, w), w)

\* A fault: the tree is kept when the mode changes.
FaultLayout(q, layout) == [q EXCEPT !.mode[AXLibActiveSpace] = layout]

ActivateSpaceLayout(q, layout) ==
    LET s == AXLibActiveSpace
        emptied == [q EXCEPT !.tiled[s] = {}, !.mode[s] = layout]
    IN IF s \notin User \/ q.mode[s] = layout THEN q ELSE CreateWindowTreeForSpace(emptied, s)

OnWindow(q, c, w) == CASE c.op = "float" -> ToggleWindowFloat(q, w)
                       [] c.op = "desktop" -> SendWindowToDesktop(q, w, c.who)
                       [] c.op = "monitor" -> SendWindowToMonitor(q, w, c.who)
                       [] OTHER -> q

CommandCallback ==
    /\ Take({"command"})
    /\ CASE Who.op = "layout" -> p' = ActivateSpaceLayout(p, Who.who)
         [] Who.op = "float next" -> p' = [p EXCEPT !.floatNext = ~@]
         [] Who.op = "rule" -> p' = AddWindowRule(p, Who.who)
         [] OTHER -> LET focusable == On(p, AXLibActiveSpace) \cap p.known
                     IN IF focusable = {} THEN p' = p
                        ELSE \E w \in focusable : p' = OnWindow(p, Who, w)

PluginMain == \/ EventsSubscribed \/ WindowCreatedHandler \/ WindowSheetCreatedHandler
              \/ ApplicationLaunchedHandler \/ WindowDestroyedHandler \/ ApplicationGoneHandler
              \/ ApplicationUnhiddenHandler \/ WindowMinimizedHandler \/ WindowDeminimizedHandler
              \/ WindowMovedHandler \/ WindowTitleChangedHandler \/ SpaceAndDisplayChangedHandler
              \/ DisplayResizedHandler \/ CommandCallback

----
(* The window server, the applications and the user.  A window opens on the *)
(* space that has the focus.  Unless the circumstances "behind" and         *)
(* "unseen" arise, only windows on that space act, and only those the       *)
(* plugin has heard of.                                                     *)
Acts == changes < MaxChanges /\ changes' = changes + 1
InFront(w) == /\ p.at[w] = AXLibActiveSpace \/ "behind" \in Circumstance
              /\ \/ w \in p.known \/ "unseen" \in Circumstance
                 \/ \E i \in 1 .. Len(queue) : queue[i].who = w
Shows(w, how) == shown' = [shown EXCEPT ![w] = how]
Pending(type) == \E i \in 1 .. Len(queue) : queue[i].type = type
Still == UNCHANGED <<active, to, focus>>

OpenWindow(w) ==
    /\ shown[w] = "none" /\ Acts /\ Shows(w, "open")
    /\ w \notin Running /\ IsChanging(AXLibActiveSpace) => "launch" \in Circumstance
    /\ Pending("changed") => "dupe" \in Circumstance
    /\ \E s \in Space : /\ s = AXLibActiveSpace \/ ("behind" \in Circumstance /\ s \in User)
                        /\ p' = [p EXCEPT !.at[w] = s]
    /\ Post(Event(IF w \in Sheet THEN "sheet"
                  ELSE IF w \in Running THEN "created" ELSE "launched", w))
    /\ Still

\* The window is closed, or its application quits.
CloseWindow(w) ==
    /\ shown[w] \in {"open", "minimized", "hidden"} /\ InFront(w) /\ Acts /\ Shows(w, "closed")
    /\ \E type \in {"destroyed", "terminated"} : Post(Event(type, w))
    /\ UNCHANGED p /\ Still

Minimize(w) == /\ shown[w] = "open" /\ InFront(w) /\ Acts /\ Shows(w, "minimized")
               /\ Post(Event("minimized", w))
               /\ UNCHANGED p /\ Still

\* A window is deminimized on the space that has the focus.
Deminimize(w) == /\ shown[w] = "minimized" /\ Acts /\ Shows(w, "open")
                 /\ p' = [p EXCEPT !.at[w] = AXLibActiveSpace]
                 /\ Post(Event("deminimized", w))
                 /\ Still

Hide(w) == /\ shown[w] = "open" /\ InFront(w) /\ Acts /\ Shows(w, "hidden")
           /\ Post(Event("hidden", w))
           /\ UNCHANGED p /\ Still

Unhide(w) == /\ shown[w] = "hidden" /\ InFront(w) /\ Acts /\ Shows(w, "open")
             /\ Post(Event("unhidden", w))
             /\ UNCHANGED p /\ Still

MoveWindow(w) == /\ shown[w] = "open" /\ InFront(w) /\ Acts
                 /\ p' = [p EXCEPT !.placed = @ \ {w}]
                 /\ Post(Event("moved", w))
                 /\ UNCHANGED shown /\ Still

Rename(w) == /\ shown[w] = "open" /\ InFront(w) /\ Acts
             /\ Post(Event("title", w))
             /\ UNCHANGED <<shown, p>> /\ Still

\* The space the window server calls current changes when the animation
\* begins or when it ends; the event follows.
SwitchBegins(d) ==
    /\ to[d] = None /\ Acts
    /\ Pending("launched") => "launch" \in Circumstance
    /\ \E s \in Space \ {active[d]} :
          /\ DisplayOf[s] = d
          /\ to' = [to EXCEPT ![d] = s]
          /\ active' \in {active, [active EXCEPT ![d] = s]}
    /\ UNCHANGED <<focus, shown, queue, p>>

SwitchEnds(d) == /\ to[d] # None
                 /\ active' = [active EXCEPT ![d] = to[d]]
                 /\ to' = [to EXCEPT ![d] = None]
                 /\ Post(Event("changed", d))
                 /\ UNCHANGED <<focus, shown, changes, p>>

FocusDisplay(d) == /\ d # focus /\ Acts
                   /\ focus' = d
                   /\ Post(Event("changed", d))
                   /\ UNCHANGED <<active, to, shown, p>>

ResizeDisplay(d) ==
    /\ Acts
    /\ p' = [p EXCEPT !.stale = @ \cup {s \in Space : DisplayOf[s] = d /\ p.tiled[s] # {}}]
    /\ Post(Event("resized", d))
    /\ UNCHANGED world

Send(c) == /\ Acts /\ Post(Event("command", c))
           /\ c.op = "float next" => "float next" \in Circumstance
           /\ c.op = "rule" /\ c.who.state # "float" /\ "late rule" \notin Circumstance =>
                 c.who.window \notin Sheet /\ shown[c.who.window] = "none"
           /\ UNCHANGED <<world, p>>

World == \/ \E w \in Window : \/ OpenWindow(w) \/ CloseWindow(w) \/ Minimize(w) \/ Deminimize(w)
                              \/ Hide(w) \/ Unhide(w) \/ MoveWindow(w) \/ Rename(w)
         \/ \E d \in Display : SwitchBegins(d) \/ SwitchEnds(d) \/ FocusDisplay(d) \/ ResizeDisplay(d)
         \/ \E c \in Command : Send(c)

\* Init of the plugin knows the windows on the current spaces; the flags of
\* a virtual space are not initialised.
Init ==
    \E open \in SUBSET (Running \ Sheet), at \in [Window -> Space], flags \in {{}, Space} :
        /\ active \in {a \in [Display -> User] : \A d \in Display : DisplayOf[a[d]] = d}
        /\ to = [d \in Display |-> None] /\ focus \in Display
        /\ shown = [w \in Window |-> IF w \in open THEN "open" ELSE "none"]
        /\ \A w \in Window : IF w \in open THEN at[w] \in User ELSE at[w] = AXLibActiveSpace
        /\ queue = <<Event("subscribed", None)>> /\ changes = 0
        /\ p = [at |-> at, known |-> {w \in open : IsCurrent(at[w])},
                float |-> {}, forced |-> {}, tiled |-> [s \in Space |-> {}],
                mode |-> [s \in Space |-> "bsp"], resize |-> flags, update |-> flags,
                floatNext |-> FALSE, rules |-> {}, dead |-> FALSE,
                stale |-> {}, placed |-> {}, vacant |-> {}]

Next == PluginMain \/ World
Spec == Init /\ [][Next]_vars

----
(* Properties.                                                              *)

(* Every part has values of its kind; only desktops that tile have trees,   *)
(* and only windows that were opened are in one.                            *)
TypeOK ==
    /\ active \in [Display -> Space] /\ to \in [Display -> Space \cup {None}] /\ focus \in Display
    /\ shown \in [Window -> {"none", "open", "minimized", "hidden", "closed"}]
    /\ Len(queue) <= MaxQueue /\ changes \in 0 .. MaxChanges
    /\ p.at \in [Window -> Space] /\ p.mode \in [Space -> Layout]
    /\ \A s \in Space : \A w \in p.tiled[s] : s \in User /\ p.mode[s] # "float" /\ shown[w] # "none"

Settled == queue = <<>> /\ ~p.dead /\ \A d \in Display : to[d] = None
Tileable(s) == {w \in On(p, s) : IsTiledKind(p, w)}
ShowsTree(s) == s = AXLibActiveSpace /\ s \in User /\ p.mode[s] # "float"

(* When every event has been handled, each tileable window of the desktop   *)
(* that has the focus is in its tree, whatever was switched, sent, hidden   *)
(* or closed while the events were under way (TileWindow and                *)
(* SpaceAndDisplayChangedHandler).                                          *)
WindowsAreTiled ==
    Settled => \A s \in Space : ShowsTree(s) => Tileable(s) \subseteq p.tiled[s]

(* And no other window is: what was closed, sent away or minimized has left *)
(* the tree, except where the plugin found the desktop empty                *)
(* (RebalanceWindowTreeForSpaceWithWindows).                                *)
NothingElseIsTiled ==
    Settled => \A s \in Space :
        ShowsTree(s) /\ Tileable(s) # {} /\ s \notin p.vacant => p.tiled[s] \subseteq Tileable(s)

(* Both, and the types: once all events are handled, the tree of the        *)
(* desktop in use holds exactly the windows that are to be tiled on it.     *)
TreesAreExact == TypeOK /\ WindowsAreTiled /\ NothingElseIsTiled

(* The same without the exception, as the comment in                        *)
(* RebalanceWindowTreeForSpace wants it.                                    *)
EmptyDesktopIsRebalanced ==
    Settled => \A s \in Space :
        ShowsTree(s) /\ Tileable(s) # {} => p.tiled[s] \subseteq Tileable(s)

(* A change of resolution reaches every tree by the time its desktop is     *)
(* used, also when the desktop was not shown when it changed                *)
(* (RecreateVirtualSpaceRegionsForDisplay, Virtual_Space_Require_Resize).   *)
RegionsAreCurrent ==
    Settled => \A s \in Space :
        ShowsTree(s) /\ Tileable(s) # {} /\ s \notin p.vacant => s \notin p.stale

(* With locked regions, a tiled window that was moved is back in its region *)
(* once the event is handled, or as soon as its desktop is used             *)
(* (ConstrainWindowToRegion, Virtual_Space_Require_Region_Update).          *)
LockedWindowsInPlace ==
    Settled => \A s \in Space :
        ShowsTree(s) /\ s \notin p.vacant => Tileable(s) \cap p.tiled[s] \subseteq p.placed

(* The handlers that dereference what the collection returns find the       *)
(* window: ASSERT(Copy) in WindowMinimizedHandler and                       *)
(* WindowDeminimizedHandler.                                                *)
MinimizedIsKnown == ~p.dead

(* A window is in one tree only (UntileWindow before each move).            *)
OneTree == Settled => \A s, t \in Space : s # t => p.tiled[s] \cap p.tiled[t] = {}

(* A window that a user or a rule made float stays floating until one of    *)
(* them tiles it.                                                           *)
FloatIsKept == [][\A w \in p.float : w \in p'.float \/ shown[w] = "closed"
                                     \/ (queue # <<>> /\ Head(queue).type = "command")]_vars

(* AddWindowToCollection: the caller makes sure the window is not a dupe.   *)
NoDuplicate == [][\A w \in Window : WindowCreatedHandler /\ Who = w => w \notin p.known]_vars
====
