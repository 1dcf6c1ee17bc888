-------------------------- MODULE WindowLifecycle --------------------------
(***************************************************************************)
(* core/state.cpp and the window handlers of core/callback.cpp: how the    *)
(* macos_window structs that represent the windows of the applications are *)
(* allocated, found, flagged, announced to the plugins and freed.          *)
(*                                                                         *)
(* Two threads take part.  The main thread runs ApplicationCallback for    *)
(* the accessibility notifications it receives and adds events to the      *)
(* queue.  The event thread handles them (see EventLoop, whose channel is  *)
(* the variable queue here).  The environment is the user and the window   *)
(* server.                                                                 *)
(*                                                                         *)
(* The windows are those of one application.  The behaviour starts when    *)
(* the main thread has added it to Applications (in the block of its       *)
(* launch, or in InitState) and is about to look for the windows it has.   *)
(*                                                                         *)
(* A window id is used once.  A struct is allocated for a window by the    *)
(* main thread, in this first search or for its creation notification, or  *)
(* by the event thread, when UpdateWindowCollection finds it: Struct names *)
(* all three.  A struct that is constructed and destroyed inside one call  *)
(* without being shared is not represented.                                *)
(***************************************************************************)
EXTENDS Naturals, Sequences

CONSTANTS Id,         \* window ids, 0 excluded
          NoWindow,   \* NULL
          MaySwitch,  \* whether the user may switch to another space
          MaxPending  \* bound on notifications and events under way at once

Struct == Id \X {"first", "note", "scan"}

ASSUME WindowAssumption == /\ MaySwitch \in BOOLEAN /\ MaxPending \in Nat
                           /\ NoWindow \notin Struct

First(id) == <<id, "first">>
Noted(id) == <<id, "note">>
Scanned(id) == <<id, "scan">>

VARIABLES screen,      \* the window server's view of each window
          notes,       \* notifications on their way to the main thread
          heap,        \* whether each struct is allocated
          invalid,     \* its flag Window_Invalid
          minimized,   \* its flag Window_Minimized
          windows,     \* the map Windows, guarded by WindowsLock
          registered,  \* the struct whose pointer the observers of a window hold
          main,        \* the main thread inside its search or ApplicationCallback
          queue,       \* the event loop's queue
          ev,          \* the event thread inside a handler
          told,        \* history: what the plugins know of a struct
          focusDue     \* history: a focus event is owed to the plugins

axVars == <<screen, notes, registered>>
structVars == <<heap, invalid, minimized, windows>>
history == <<told, focusDue>>
vars == <<axVars, structVars, main, queue, ev, history>>

Lookup == {"focused", "changed"}
EventType == {"created", "destroyed", "focused", "changed", "minimized", "deminimized", "space"}

Note(kind, id, ref) == [kind |-> kind, id |-> id, ref |-> ref]
Event(type, win) == [type |-> type, win |-> win]
MainIdle == [pc |-> "idle", type |-> "space", win |-> NoWindow, todo |-> {}]
EventIdle == [pc |-> "idle", type |-> "space", win |-> NoWindow, todo |-> {}, loaded |-> FALSE]

Init == /\ screen \in [Id -> {"unborn", "open", "minimized"}]
        /\ notes = <<>>
        /\ heap = [s \in Struct |-> "none"]
        /\ invalid = [s \in Struct |-> FALSE]
        /\ minimized = [s \in Struct |-> FALSE]
        /\ windows = [id \in Id |-> NoWindow]
        /\ registered = [id \in Id |-> NoWindow]
        /\ main = [MainIdle EXCEPT !.pc = "list"]
        /\ queue \in IF MaySwitch THEN {<<>>, <<Event("space", NoWindow)>>} ELSE {<<>>}
        /\ ev = EventIdle
        /\ told = [s \in Struct |-> "nothing"]
        /\ focusDue = [s \in Struct |-> FALSE]

Post(type, win) == queue' = Append(queue, Event(type, win))

----
(* The user and the window server.  The observer of the application gets    *)
(* the creation, focus and change of every window; the end of a window and  *)
(* its minimization are only sent when they were registered for it.         *)

Room == Len(notes) + Len(queue) < MaxPending

NoteIfRegistered(kind, id) ==
    IF registered[id] = NoWindow THEN <<>> ELSE <<Note(kind, id, registered[id])>>

(* The focus notification of a new window comes before its creation.       *)
OpenWindow(id) ==
    /\ Room
    /\ screen[id] = "unborn"
    /\ screen' = [screen EXCEPT ![id] = "open"]
    /\ notes' = notes \o <<Note("focused", id, NoWindow), Note("created", id, NoWindow)>>
    /\ UNCHANGED <<registered, structVars, main, queue, ev, history>>

CloseWindow(id) ==
    /\ Room
    /\ screen[id] \in {"open", "minimized"}
    /\ screen' = [screen EXCEPT ![id] = "closed"]
    /\ notes' = notes \o NoteIfRegistered("destroyed", id)
    /\ UNCHANGED <<registered, structVars, main, queue, ev, history>>

MinimizeWindow(id) ==
    /\ Room
    /\ screen[id] = "open"
    /\ screen' = [screen EXCEPT ![id] = "minimized"]
    /\ notes' = notes \o NoteIfRegistered("minimized", id)
    /\ UNCHANGED <<registered, structVars, main, queue, ev, history>>

(* ... and the focus notification of a deminimized one before that.        *)
DeminimizeWindow(id) ==
    /\ Room
    /\ screen[id] = "minimized"
    /\ screen' = [screen EXCEPT ![id] = "open"]
    /\ notes' = Append(notes, Note("focused", id, NoWindow)) \o NoteIfRegistered("deminimized", id)
    /\ UNCHANGED <<registered, structVars, main, queue, ev, history>>

TouchWindow(id) ==
    /\ Room
    /\ screen[id] = "open"
    /\ \E kind \in Lookup : notes' = Append(notes, Note(kind, id, NoWindow))
    /\ UNCHANGED <<screen, registered, structVars, main, queue, ev, history>>

(* NSWorkspace tells the main thread that the space has changed.           *)
SwitchSpace ==
    /\ MaySwitch
    /\ Room
    /\ main = MainIdle
    /\ Post("space", NoWindow)
    /\ UNCHANGED <<axVars, structVars, main, ev, history>>

----
(* AddApplicationWindowsToCollection, on either thread: a window that is    *)
(* listed, not tracked yet and can be observed gets a struct.  An observer  *)
(* that is already registered keeps the reference it has.                  *)

Listed == SUBSET {id \in Id : screen[id] \in {"open", "minimized"}}

CanTrack(id) == windows[id] = NoWindow /\ screen[id] # "closed"

Track(s) ==
    LET id == s[1]
    IN /\ registered' = [registered EXCEPT ![id] = IF @ = NoWindow THEN s ELSE @]
       /\ heap' = [heap EXCEPT ![s] = "live"]
       /\ minimized' = [minimized EXCEPT ![s] = screen[id] = "minimized"]

ListFirst ==
    /\ main.pc = "list"
    /\ \E listed \in Listed : main' = [main EXCEPT !.pc = "scan", !.todo = listed]
    /\ UNCHANGED <<axVars, structVars, queue, ev, history>>

ScanFirst(id) ==
    /\ main.pc = "scan"
    /\ id \in main.todo
    /\ IF CanTrack(id)
       THEN /\ Track(First(id))
            /\ main' = [main EXCEPT !.todo = @ \ {id}, !.pc = "insert", !.win = First(id)]
       ELSE /\ main' = [main EXCEPT !.todo = @ \ {id}]
            /\ UNCHANGED <<registered, heap, minimized>>
    /\ UNCHANGED <<screen, notes, invalid, windows, queue, ev, history>>

InsertFirst ==
    /\ main.pc = "insert"
    /\ windows' = [windows EXCEPT ![main.win[1]] = main.win]
    /\ main' = [main EXCEPT !.pc = "scan", !.win = NoWindow]
    /\ UNCHANGED <<axVars, heap, invalid, minimized, queue, ev, history>>

FirstDone ==
    /\ main.pc = "scan"
    /\ main.todo = {}
    /\ main' = MainIdle
    /\ UNCHANGED <<axVars, structVars, queue, ev, history>>

----
(* ApplicationCallback, on the main thread                                 *)

MainHandles(kinds) == /\ main = MainIdle
                      /\ notes # <<>>
                      /\ Head(notes).kind \in kinds
                      /\ notes' = Tail(notes)

(* AXLibConstructWindow, for a window or (the same code) a sheet.          *)
NotifyCreated ==
    /\ MainHandles({"created"})
    /\ LET s == Noted(Head(notes).id)
       IN /\ heap' = [heap EXCEPT ![s] = "live"]
          /\ minimized' = [minimized EXCEPT ![s] = screen[Head(notes).id] = "minimized"]
          /\ Post("created", s)
    /\ UNCHANGED <<screen, registered, invalid, windows, main, ev, history>>

(* AXLibGetWindowID gives 0 for a window that is gone, may give 0 for a     *)
(* minimized one, and no window has id 0; then GetWindowByID finds nothing. *)
NotifyLookup ==
    /\ MainHandles(Lookup)
    /\ LET id == Head(notes).id
           s == windows[id]
       IN \/ /\ screen[id] # "closed" /\ s # NoWindow
             /\ main' = [MainIdle EXCEPT !.pc = "post", !.type = Head(notes).kind, !.win = s]
          \/ /\ screen[id] # "open" \/ s = NoWindow
             /\ UNCHANGED main
    /\ UNCHANGED <<screen, registered, structVars, queue, ev, history>>

(* The reference registered with the notification is the struct itself.    *)
NotifyMinimized ==
    /\ MainHandles({"minimized", "deminimized"})
    /\ main' = [MainIdle EXCEPT !.pc = "post", !.type = Head(notes).kind, !.win = Head(notes).ref]
    /\ UNCHANGED <<screen, registered, structVars, queue, ev, history>>

(* The reference is the window id; what it stands for is looked up.        *)
NotifyDestroyed ==
    /\ MainHandles({"destroyed"})
    /\ LET s == windows[Head(notes).id]
       IN main' = IF s = NoWindow THEN MainIdle
                  ELSE [MainIdle EXCEPT !.pc = "erase", !.type = "destroyed", !.win = s]
    /\ UNCHANGED <<screen, registered, structVars, queue, ev, history>>

(* Fault: the window stays in the map. *)
EraseWindow_Keep ==
    /\ main.pc = "erase"
    /\ registered' = [registered EXCEPT ![main.win[1]] = NoWindow]
    /\ main' = [main EXCEPT !.pc = "flag"]
    /\ UNCHANGED <<screen, notes, structVars, queue, ev, history>>

(* RemoveWindowFromCollection erases whatever the id maps to by now.       *)
EraseWindow ==
    /\ main.pc = "erase"
    /\ windows' = [windows EXCEPT ![main.win[1]] = NoWindow]
    /\ registered' = [registered EXCEPT ![main.win[1]] = NoWindow]
    /\ main' = [main EXCEPT !.pc = "flag"]
    /\ UNCHANGED <<screen, notes, heap, invalid, minimized, queue, ev, history>>

FlagInvalid ==
    /\ main.pc = "flag"
    /\ invalid' = [invalid EXCEPT ![main.win] = TRUE]
    /\ main' = [main EXCEPT !.pc = "post"]
    /\ UNCHANGED <<axVars, heap, minimized, windows, queue, ev, history>>

PostEvent ==
    /\ main.pc = "post"
    /\ Post(main.type, main.win)
    /\ main' = MainIdle
    /\ UNCHANGED <<axVars, structVars, ev, history>>

----
(* The handlers, on the event thread                                       *)

EventGoto(l) == ev' = [ev EXCEPT !.pc = l]
HandlerReturns == ev' = EventIdle

FirstStep == [created |-> "register", destroyed |-> "tell", space |-> "scan",
              focused |-> "check", changed |-> "check", minimized |-> "check",
              deminimized |-> "check"]

TakeEvent ==
    /\ ev = EventIdle
    /\ queue # <<>>
    /\ queue' = Tail(queue)
    /\ \E listed \in Listed :
        LET e == Head(queue)
        IN /\ e.type # "space" => listed = {}
           /\ ev' = [EventIdle EXCEPT !.pc = FirstStep[e.type], !.type = e.type,
                                      !.win = e.win, !.todo = listed]
    /\ UNCHANGED <<axVars, structVars, main, history>>

(* AddWindowToCollection for Callback_ChunkWM_WindowCreated (and Sheet): a  *)
(* closed window cannot be observed, and its struct is freed at once.  Ids   *)
(* are not 0, and to observe a window that is on the screen succeeds.       *)
RegisterCreated ==
    /\ ev.pc = "register"
    /\ LET id == ev.win[1]
       IN IF screen[id] = "closed"
          THEN /\ heap' = [heap EXCEPT ![ev.win] = "freed"]
               /\ HandlerReturns
               /\ UNCHANGED registered
          ELSE /\ registered' = [registered EXCEPT ![id] = IF @ = NoWindow THEN ev.win ELSE @]
               /\ EventGoto("insert")
               /\ UNCHANGED heap
    /\ UNCHANGED <<screen, notes, invalid, minimized, windows, main, queue, history>>

(* AddApplicationWindowsToCollection, for UpdateWindowCollection.          *)
ScanWindow(id) ==
    /\ ev.pc = "scan"
    /\ id \in ev.todo
    /\ IF CanTrack(id)
       THEN /\ Track(Scanned(id))
            /\ ev' = [ev EXCEPT !.todo = @ \ {id}, !.pc = "insert", !.win = Scanned(id)]
       ELSE /\ ev' = [ev EXCEPT !.todo = @ \ {id}]
            /\ UNCHANGED <<registered, heap, minimized>>
    /\ UNCHANGED <<screen, notes, invalid, windows, main, queue, history>>

(* UpdateWindowCollection is done; the plugins get chunkwm_export_space_changed. *)
ScanDone ==
    /\ ev.pc = "scan"
    /\ ev.todo = {}
    /\ HandlerReturns
    /\ UNCHANGED <<axVars, structVars, main, queue, history>>

(* Fault: the window is tracked and nobody is told. *)
InsertWindow_Silent ==
    /\ ev.pc = "insert"
    /\ windows' = [windows EXCEPT ![ev.win[1]] = ev.win]
    /\ IF ev.type = "space" THEN EventGoto("scan") ELSE HandlerReturns
    /\ UNCHANGED <<axVars, heap, invalid, minimized, main, queue, history>>

(* Windows[Window->Id] = Window, whatever was there.                       *)
InsertWindow ==
    /\ ev.pc = "insert"
    /\ windows' = [windows EXCEPT ![ev.win[1]] = ev.win]
    /\ EventGoto(IF ev.type = "space" THEN "scan" ELSE "tell")
    /\ UNCHANGED <<axVars, heap, invalid, minimized, main, queue, history>>

(* The test of Window_Invalid (and, for a focus, Window_Minimized) in the  *)
(* other handlers.  Of a freed struct it reads anything.                   *)
CheckFlags ==
    /\ ev.pc = "check"
    /\ \E inv, mini \in BOOLEAN :
        /\ heap[ev.win] = "live" => inv = invalid[ev.win] /\ mini = minimized[ev.win]
        /\ IF inv \/ (ev.type = "focused" /\ mini)
           THEN HandlerReturns
           ELSE EventGoto(IF ev.type \in {"minimized", "deminimized"} THEN "load" ELSE "tell")
    /\ UNCHANGED <<axVars, structVars, main, queue, history>>

(* AXLibAddFlags and AXLibClearFlags: a load and a store, not atomic, of    *)
(* the word that holds both flags.                                          *)
LoadFlags ==
    /\ ev.pc = "load"
    /\ ev' = [ev EXCEPT !.pc = "store", !.loaded = invalid[ev.win]]
    /\ UNCHANGED <<axVars, structVars, main, queue, history>>

StoreFlags ==
    /\ ev.pc = "store"
    /\ invalid' = [invalid EXCEPT ![ev.win] = ev.loaded]
    /\ minimized' = [minimized EXCEPT ![ev.win] = ev.type = "minimized"]
    /\ EventGoto("tell")
    /\ UNCHANGED <<axVars, heap, windows, main, queue, history>>

(* ProcessPluginListThreaded *)
TellPlugins ==
    /\ ev.pc = "tell"
    /\ told' = [told EXCEPT ![ev.win] = IF ev.type \in {"created", "destroyed"} THEN ev.type ELSE @]
    /\ focusDue' = [focusDue EXCEPT ![ev.win] =
                        CASE ev.type \in {"created", "deminimized"} -> TRUE
                          [] ev.type = "focused" -> FALSE
                          [] OTHER -> @]
    /\ CASE ev.type \in {"created", "deminimized"} -> EventGoto("restore")
         [] ev.type = "destroyed" -> EventGoto("free")
         [] OTHER -> HandlerReturns
    /\ UNCHANGED <<axVars, structVars, main, queue>>

(* Fault: the discarded focus is not restored. *)
RestoreFocus_Not ==
    /\ ev.pc = "restore"
    /\ HandlerReturns
    /\ UNCHANGED <<axVars, structVars, main, queue, history>>

(* ConstructEvent(ChunkWM_WindowFocused, Window) at the end of a handler.  *)
RestoreFocus ==
    /\ ev.pc = "restore"
    /\ Post("focused", ev.win)
    /\ HandlerReturns
    /\ UNCHANGED <<axVars, structVars, main, history>>

(* Fault: the struct is leaked. *)
FreeWindow_Not ==
    /\ ev.pc = "free"
    /\ HandlerReturns
    /\ UNCHANGED <<axVars, structVars, main, queue, history>>

(* AXLibDestroyWindow *)
FreeWindow ==
    /\ ev.pc = "free"
    /\ heap' = [heap EXCEPT ![ev.win] = "freed"]
    /\ HandlerReturns
    /\ UNCHANGED <<axVars, invalid, minimized, windows, main, queue, history>>

----
User == \/ \E id \in Id : \/ OpenWindow(id)
                          \/ CloseWindow(id)
                          \/ MinimizeWindow(id)
                          \/ DeminimizeWindow(id)
                          \/ TouchWindow(id)
        \/ SwitchSpace

FirstSearch == \/ ListFirst
               \/ \E id \in Id : ScanFirst(id)
               \/ InsertFirst
               \/ FirstDone

ApplicationCallback == \/ NotifyCreated
                       \/ NotifyLookup
                       \/ NotifyMinimized
                       \/ NotifyDestroyed
                       \/ EraseWindow
                       \/ FlagInvalid
                       \/ PostEvent

HandleEvent == \/ TakeEvent
               \/ RegisterCreated
               \/ \E id \in Id : ScanWindow(id)
               \/ ScanDone
               \/ InsertWindow
               \/ CheckFlags
               \/ LoadFlags
               \/ StoreFlags
               \/ TellPlugins
               \/ RestoreFocus
               \/ FreeWindow

Next == User \/ FirstSearch \/ ApplicationCallback \/ HandleEvent

Spec == Init /\ [][Next]_vars

(* The run loop and the event thread are scheduled; the user need not act. *)
FairSpec == Spec /\ WF_vars(FirstSearch) /\ WF_vars(ApplicationCallback) /\ WF_vars(HandleEvent)

----
Reference == Struct \union {NoWindow}
Notification == [kind : EventType \ {"space"}, id : Id, ref : Reference]
QueuedEvent == [type : EventType, win : Reference]
MainState == [pc : {"list", "scan", "insert", "idle", "erase", "flag", "post"},
              type : EventType, win : Reference, todo : SUBSET Id]
HandlerState == [pc : {"idle", "register", "scan", "insert", "check", "load", "store", "tell",
                       "restore", "free"},
                 type : EventType, win : Reference, todo : SUBSET Id, loaded : BOOLEAN]

TypeOK ==
    /\ screen \in [Id -> {"unborn", "open", "minimized", "closed"}]
    /\ notes \in Seq(Notification)
    /\ heap \in [Struct -> {"none", "live", "freed"}]
    /\ invalid \in [Struct -> BOOLEAN]
    /\ minimized \in [Struct -> BOOLEAN]
    /\ windows \in [Id -> Reference]
    /\ registered \in [Id -> Reference]
    /\ main \in MainState
    /\ main.pc \in {"list", "scan", "idle"} <=> main.win = NoWindow
    /\ queue \in Seq(QueuedEvent)
    /\ ev \in HandlerState
    /\ told \in [Struct -> {"nothing", "created", "destroyed"}]
    /\ focusDue \in [Struct -> BOOLEAN]

Live(s) == heap[s] = "live"

(***************************************************************************)
(* GetWindowByID never returns a struct that has been freed or is about to *)
(* be: the map only holds live ones, and what the main thread looked up    *)
(* stays allocated after it has dropped WindowsLock and until it has used  *)
(* it.                                                                     *)
(***************************************************************************)
LookupIsLive == /\ \A id \in Id : windows[id] # NoWindow => Live(windows[id])
                /\ main.win # NoWindow => Live(main.win)

(***************************************************************************)
(* Every event refers to a struct that is still allocated, except a focus  *)
(* event (the event thread restores one on its own, see NoUseAfterFree).   *)
(***************************************************************************)
EventsAreLive ==
    /\ \A i \in DOMAIN queue : queue[i].type \notin {"focused", "space"} => Live(queue[i].win)
    /\ ev.type \notin {"focused", "space"} => Live(ev.win)

(***************************************************************************)
(* Both threads only ever hold structs that are allocated (GetWindowByID,  *)
(* ConstructEvent), whichever of them frees one.                           *)
(***************************************************************************)
StructsOutliveUse == TypeOK /\ LookupIsLive /\ EventsAreLive

(***************************************************************************)
(* Plugins hear of a struct in order: its creation first (a scanned window *)
(* is never announced), its end last.  Only a dangling focus can follow.   *)
(***************************************************************************)
PluginOrder ==
    ev.pc = "tell" =>
        /\ told[ev.win] = "destroyed" => ev.type = "focused"
        /\ ev.type = "created" => told[ev.win] = "nothing"
        /\ ev.type # "created" /\ ev.win \in {Noted(id) : id \in Id} => told[ev.win] # "nothing"

(***************************************************************************)
(* A struct whose window was found destroyed is freed in the end.          *)
(***************************************************************************)
DestroyedIsFreed == \A s \in Struct : invalid[s] ~> heap[s] = "freed"

(***************************************************************************)
(* The focus that comes too early is discarded and restored (the comments  *)
(* in ApplicationCallback): after plugins were told that a window was      *)
(* created or deminimized they are told of a focus, unless the window is   *)
(* closed or minimized first.  (Whether it is closed is asked of the window *)
(* server: StoreFlags can wipe out a Window_Invalid set since LoadFlags.)  *)
(***************************************************************************)
FocusRestored ==
    \A s \in Struct : focusDue[s] ~> (~focusDue[s] \/ screen[s[1]] = "closed" \/ minimized[s])

(***************************************************************************)
(* "We discard that notification and restore it when we have the window to *)
(* work with" (callback.cpp): a handler never reads a struct that is gone. *)
(***************************************************************************)
NoUseAfterFree == ev.pc \in {"check", "tell"} => Live(ev.win)

(***************************************************************************)
(* "Caller is responsible for making sure that the window is not a dupe"   *)
(* (state.cpp, AddWindowToCollection).                                     *)
(***************************************************************************)
NoDuplicate == ev.pc = "insert" => windows[ev.win[1]] = NoWindow
====
