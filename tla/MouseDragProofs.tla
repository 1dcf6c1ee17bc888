--------------------------- MODULE MouseDragProofs ---------------------------
(***************************************************************************)
(* Theorems about MouseDrag for any windows and spaces, any number of      *)
(* mouse events that wait and any number of handlers.                      *)
(***************************************************************************)
EXTENDS MouseDrag, FiniteSetTheorems, TLAPS

Kind == Action \cup {"drag", "up"}
Struct == [window : Window, made : Nat]
EventStates == [pc : {"idle", "next", "old", "new", "wait", "hold", "free"},
                job : {"none", "destroy", "change", "unhide"}, space : Space \cup {None},
                window : Window \cup {None}, rest : SUBSET Window]
DragStates == [mode : {"none"} \cup TiledMode \cup FloatingMode, window : Struct \cup {None},
               target : Window \cup {None}, space : Space \cup {None}, gen : Nat]

(***************************************************************************)
(* The full types of the variables.                                        *)
(***************************************************************************)
Types ==
    /\ lock \in [Space -> {"free", "main", "event"}]
    /\ tree \in [Space -> [windows : SUBSET (Window \ Floating), gen : Nat]]
    /\ known \in SUBSET Window /\ made \in [Window -> Nat] /\ freed \in SUBSET Struct
    /\ active \in Space
    /\ ev \in EventStates
    /\ handlers \in 0 .. MaxHandlers
    /\ main \in [pc : {"idle", "wait", "begin"}, space : Space \cup {None},
                 action : Action \cup {None}]
    /\ drag \in DragStates
    /\ borders \in SUBSET Struct
    /\ button \in BOOLEAN
    /\ tap \in [enabled : BOOLEAN, events : Seq(Kind)]
    /\ Len(tap.events) <= MaxTap

(***************************************************************************)
(* The event thread: the lock it holds, and the window that it took out of  *)
(* the collection before it frees its structure.                           *)
(***************************************************************************)
EventPhases ==
    /\ ev.pc \in {"wait", "hold"} => ev.space \in Space
    /\ ev.pc = "hold" => lock[ev.space] = "event"
    /\ ev.pc \in {"old", "new", "free"} \/ ev.job = "destroy" => ev.window \in Window \ known
    /\ ev.pc \in {"next", "old", "new"} \/ ev.rest # {} => ev.job = "unhide"
    /\ ev.job = "destroy" => ev.pc \in {"wait", "hold"}

(***************************************************************************)
(* A structure that was freed is an earlier one of its window, or the last  *)
(* one of a window that is not in the collection.                          *)
(***************************************************************************)
FreedAreGone ==
    \A p \in freed : p.made <= made[p.window] /\ (p.made = made[p.window] => p.window \notin known)

(***************************************************************************)
(* The main thread: a lock that it holds belongs to the callback that       *)
(* begins a drag or to the drag of a tiled window, and never to both.       *)
(***************************************************************************)
MainPhases ==
    /\ main.pc # "idle" => main.space \in User /\ drag.mode = "none"
    /\ main.pc = "begin" => lock[main.space] = "main"
    /\ drag.mode \in TiledMode => drag.space \in User /\ lock[drag.space] = "main"
                                  /\ tree[drag.space].gen = drag.gen
    /\ \A s \in Space : lock[s] = "main" => \/ main.pc = "begin" /\ main.space = s
                                            \/ drag.mode \in TiledMode /\ drag.space = s

(***************************************************************************)
(* How many borders there are.                                             *)
(***************************************************************************)
BorderCount ==
    /\ borders # {} => drag.mode \in TiledMode
    /\ drag.mode = "swap" => \E p, q \in Struct : borders = {p, q}
    /\ drag.mode = "swap" /\ drag.target = None => \E p \in Struct : borders = {p}

(***************************************************************************)
(* While nobody switches spaces during a drag, the current structure of a   *)
(* window that a border points to is in the collection, or with a handler   *)
(* that waits for the lock of the drag because the window was destroyed, or  *)
(* with the handler that replaces it.                                      *)
(***************************************************************************)
SpaceIsKept ==
    /\ main.pc # "idle" => main.space = active
    /\ drag.mode \in TiledMode => drag.space = active

WithHandler(p) == /\ ev.window = p.window
                  /\ \/ ev.pc = "old"
                     \/ ev.job = "destroy" /\ ev.pc = "wait" /\ ev.space = drag.space

BordersAreHeld ==
    \A p \in borders :
        /\ p.window \notin Floating /\ p.made <= made[p.window]
        /\ p.made = made[p.window] => \/ ev.pc = "new" /\ ev.window = p.window
                                      \/ p \notin freed /\ (p.window \in known \/ WithHandler(p))

DragInv ==
    /\ Types /\ EventPhases /\ FreedAreGone /\ MainPhases /\ BorderCount
    /\ ~MaySwitch => SpaceIsKept /\ BordersAreHeld

----
(***************************************************************************)
(* Nothing is dragged and no lock is held when the plugin is loaded.        *)
(***************************************************************************)
LEMMA InvInit == Init => DragInv
<1> SUFFICES ASSUME Init
             PROVE  DragInv
    OBVIOUS
<1> USE DragAssumption DEF DragAssumption
<1>1. Types
  <2>1. tree \in [Space -> [windows : SUBSET (Window \ Floating), gen : Nat]]
        BY DEF Init
  <2>2. drag \in DragStates /\ made \in [Window -> Nat]
        BY DEF Init, NoDrag, DragStates
  <2>3. tap \in [enabled : BOOLEAN, events : Seq(Kind)] /\ Len(tap.events) <= MaxTap
        BY DEF Init
  <2>4. /\ ev \in EventStates
        /\ main \in [pc : {"idle", "wait", "begin"}, space : Space \cup {None},
                      action : Action \cup {None}]
        BY DEF Init, EventIdle, MainIdle, EventStates
  <2>5. lock \in [Space -> {"free", "main", "event"}] /\ handlers \in 0 .. MaxHandlers
        BY DEF Init
  <2>6. QED
        BY <2>1, <2>2, <2>3, <2>4, <2>5 DEF Init, Types
<1>2. EventPhases /\ FreedAreGone
      BY DEF Init, EventPhases, FreedAreGone, EventIdle
<1>3. MainPhases
      BY DEF Init, MainPhases, MainIdle, NoDrag, TiledMode
<1>4. BorderCount /\ SpaceIsKept /\ BordersAreHeld
      BY DEF Init, BorderCount, SpaceIsKept, BordersAreHeld, MainIdle, NoDrag, TiledMode
<1>5. QED
      BY <1>1, <1>2, <1>3, <1>4 DEF DragInv

(***************************************************************************)
(* A callback takes the first of the mouse events, the user adds one if     *)
(* there is room: the tap keeps its type.                                  *)
(***************************************************************************)
LEMMA CallbackKeepsTap ==
  ASSUME Types, NEW kind \in Kind, EventTapCallback(kind)
  PROVE  /\ tap' \in [enabled : BOOLEAN, events : Seq(Kind)]
         /\ Len(tap'.events) <= MaxTap
<1>1. tap.events \in Seq(Kind) /\ tap.events # <<>>
      BY DEF Types, EventTapCallback
<1>2. Tail(tap.events) \in Seq(Kind) /\ Len(Tail(tap.events)) = Len(tap.events) - 1
      BY <1>1
<1>3. tap' = [tap EXCEPT !.events = Tail(tap.events)]
      BY DEF EventTapCallback
<1>4. tap' \in [enabled : BOOLEAN, events : Seq(Kind)] /\ tap'.events = Tail(tap.events)
      BY <1>2, <1>3 DEF Types
<1>5. Len(tap'.events) <= MaxTap
      BY <1>1, <1>2, <1>4, DragAssumption DEF Types, DragAssumption
<1>6. QED
      BY <1>4, <1>5

(* A mouse event that is heard waits at the tap, within the bound.         *)
LEMMA HeardKeepsTap ==
  ASSUME Types, Room, NEW kind \in Kind, Heard(kind)
  PROVE  /\ tap' \in [enabled : BOOLEAN, events : Seq(Kind)]
         /\ Len(tap'.events) <= MaxTap
<1>1. tap.events \in Seq(Kind)
      BY DEF Types
<1>2. Append(tap.events, kind) \in Seq(Kind) /\ Len(Append(tap.events, kind)) = Len(tap.events) + 1
      BY <1>1
<1>3. CASE tap.enabled
  <2>1. tap' = [tap EXCEPT !.events = Append(tap.events, kind)]
        BY <1>3 DEF Heard
  <2>2. tap' \in [enabled : BOOLEAN, events : Seq(Kind)] /\ tap'.events = Append(tap.events, kind)
        BY <1>2, <2>1 DEF Types
  <2>3. QED
        BY <1>1, <1>2, <2>2, DragAssumption DEF DragAssumption, Room
<1>4. CASE ~tap.enabled
      BY <1>4 DEF Heard, Types
<1>5. QED
      BY <1>3, <1>4

----
(***************************************************************************)
(* The event thread.                                                       *)
(***************************************************************************)
LEMMA EventStep ==
  ASSUME DragInv, EventThread
  PROVE  DragInv'
<1> USE DragAssumption DEF DragAssumption
<1>1. ASSUME NEW w \in Window, WindowDestroyed(w)
      PROVE  DragInv'
  <2>0. /\ ev.pc = "idle" /\ handlers < MaxHandlers /\ handlers' = handlers + 1
        /\ w \in known /\ known' = known \ {w}
        /\ UNCHANGED <<lock, tree, made, freed, active, main, drag, borders, button, tap>>
        BY <1>1 DEF WindowDestroyed, HandlerBegins, mouseVars
  <2>1. /\ ev' \in EventStates /\ ev'.window = w /\ ev'.rest = {}
        /\ \/ w \notin Floating /\ active \in User
              /\ ev'.pc = "wait" /\ ev'.job = "destroy" /\ ev'.space = active
           \/ /\ w \in Floating \/ active \notin User
              /\ ev'.pc = "free" /\ ev'.job = "none"
    <3>1. /\ EventIdle \in EventStates /\ EventIdle.job = "none" /\ EventIdle.rest = {}
          /\ active \in Space
          BY DEF EventIdle, EventStates, DragInv, Types
    <3>2. CASE w \notin Floating /\ active \in User
      <4>1. ev' = [EventIdle EXCEPT !.pc = "wait", !.job = "destroy", !.space = active, !.window = w]
            BY <1>1, <3>2 DEF WindowDestroyed
      <4>2. QED
            BY <3>1, <3>2, <4>1 DEF EventStates
    <3>3. CASE w \in Floating \/ active \notin User
      <4>1. ev' = [EventIdle EXCEPT !.pc = "free", !.window = w]
            BY <1>1, <3>3 DEF WindowDestroyed
      <4>2. QED
            BY <3>1, <3>3, <4>1 DEF EventStates
    <3>4. QED
          BY <3>2, <3>3
  <2>2. Types'
        BY <2>0, <2>1 DEF DragInv, Types
  <2>3. EventPhases' /\ FreedAreGone'
        BY <2>0, <2>1 DEF DragInv, EventPhases, FreedAreGone, Types
  <2>4. MainPhases' /\ BorderCount'
        BY <2>0 DEF DragInv, MainPhases, BorderCount
  <2>5. ~MaySwitch => SpaceIsKept' /\ BordersAreHeld'
        BY <2>0, <2>1 DEF DragInv, SpaceIsKept, BordersAreHeld, WithHandler, BorderCount, MainPhases
  <2>6. QED
        BY <2>2, <2>3, <2>4, <2>5 DEF DragInv
<1>2. ASSUME TreeChanges \/ \E a \in Application : ApplicationUnhidden(a)
      PROVE  DragInv'
  <2>0. /\ ev.pc = "idle" /\ handlers < MaxHandlers /\ handlers' = handlers + 1 /\ active \in User
        /\ UNCHANGED <<lock, tree, known, made, freed, active, main, drag, borders, button, tap>>
        BY <1>2 DEF TreeChanges, ApplicationUnhidden, HandlerBegins, mouseVars
  <2>1. \/ ev' = [pc |-> "wait", job |-> "change", space |-> active, window |-> None, rest |-> {}]
        \/ \E windows \in SUBSET Window :
               ev' = [pc |-> "next", job |-> "unhide", space |-> None, window |-> None, rest |-> windows]
    <3>1. CASE TreeChanges
          BY <3>1 DEF TreeChanges, EventIdle
    <3>2. ASSUME NEW a \in Application, ApplicationUnhidden(a)
          PROVE  \E windows \in SUBSET Window :
                   ev' = [pc |-> "next", job |-> "unhide", space |-> None, window |-> None, rest |-> windows]
      <4>1. PICK list \in SUBSET {w \in known : OwnerOf[w] = a} :
                ev' = [EventIdle EXCEPT !.pc = "next", !.job = "unhide", !.rest = list]
            BY <3>2 DEF ApplicationUnhidden
      <4>2. list \in SUBSET Window
            BY DEF DragInv, Types
      <4>3. QED
            BY <4>1, <4>2 DEF EventIdle
    <3>3. QED
          BY <1>2, <3>1, <3>2
  <2>2. Types'
        BY <2>0, <2>1 DEF DragInv, Types, EventStates
  <2>3. EventPhases' /\ FreedAreGone'
        BY <2>0, <2>1 DEF DragInv, EventPhases, FreedAreGone, Types
  <2>4. MainPhases' /\ BorderCount'
        BY <2>0 DEF DragInv, MainPhases, BorderCount
  <2>5. ~MaySwitch => SpaceIsKept' /\ BordersAreHeld'
        BY <2>0, <2>1 DEF DragInv, EventPhases, SpaceIsKept, BordersAreHeld, WithHandler
  <2>6. QED
        BY <2>2, <2>3, <2>4, <2>5 DEF DragInv
<1>3. ASSUME EventAcquires
      PROVE  DragInv'
  <2>0. /\ ev.pc = "wait" /\ lock[ev.space] = "free" /\ lock' = [lock EXCEPT ![ev.space] = "event"]
        /\ ev' = [ev EXCEPT !.pc = "hold"]
        /\ UNCHANGED <<tree, known, made, freed, handlers, active, main, drag, borders, button, tap>>
        BY <1>3 DEF EventAcquires, AcquireVirtualSpace, mouseVars
  <2>1. Types'
    <3>1. lock' \in [Space -> {"free", "main", "event"}] /\ ev' \in EventStates
          BY <2>0 DEF DragInv, Types, EventStates
    <3>2. QED
          BY <2>0, <3>1 DEF DragInv, Types
  <2>2. EventPhases' /\ FreedAreGone'
        BY <2>0 DEF DragInv, EventPhases, FreedAreGone, Types, EventStates
  <2>3. MainPhases' /\ BorderCount'
        BY <2>0 DEF DragInv, MainPhases, BorderCount, Types
  <2>4. ~MaySwitch => SpaceIsKept' /\ BordersAreHeld'
        BY <2>0 DEF DragInv, SpaceIsKept, BordersAreHeld, WithHandler, BorderCount, MainPhases, Types,
                    EventStates
  <2>5. QED
        BY <2>1, <2>2, <2>3, <2>4 DEF DragInv
<1>4. ASSUME EventReleases
      PROVE  DragInv'
  <2>0. /\ ev.pc = "hold" /\ lock' = [lock EXCEPT ![ev.space] = "free"]
        /\ UNCHANGED <<known, made, freed, handlers, active, main, drag, borders, button, tap>>
        BY <1>4 DEF EventReleases, ReleaseVirtualSpace, mouseVars
  <2>1. PICK windows \in SUBSET (tree[ev.space].windows \cup TileableOn(ev.space)) :
            tree' = [tree EXCEPT ![ev.space] = [windows |-> windows, gen |-> tree[ev.space].gen + 1]]
        BY <1>4 DEF EventReleases
  <2>2. ev.space \in Space /\ lock[ev.space] = "event"
        BY <2>0 DEF DragInv, EventPhases
  <2>3. /\ ev' \in EventStates
        /\ ev'.pc = "free" => ev.job = "destroy" /\ ev'.window = ev.window
        /\ ev'.pc \in {"free", "next", "idle"} /\ ev'.job # "destroy"
        /\ ev'.pc = "next" \/ ev'.rest # {} => ev'.job = "unhide"
    <3>1. CASE ev.job = "destroy"
      <4>1. ev' = [EventIdle EXCEPT !.pc = "free", !.window = ev.window]
            BY <1>4, <3>1 DEF EventReleases
      <4>2. QED
            BY <3>1, <4>1 DEF DragInv, Types, EventStates, EventIdle
    <3>2. CASE ev.job # "destroy"
      <4>1. ev' = IF ev.rest = {} THEN EventIdle
                  ELSE [ev EXCEPT !.pc = "next", !.space = None, !.window = None]
            BY <1>4, <3>2 DEF EventReleases, NextWindow
      <4>2. ev.job = "unhide" \/ ev.rest = {}
            BY <2>0 DEF DragInv, EventPhases
      <4>3. QED
            BY <3>2, <4>1, <4>2 DEF DragInv, Types, EventStates, EventIdle
    <3>3. QED
          BY <3>1, <3>2
  <2>4. Types'
    <3>1. tree[ev.space] \in [windows : SUBSET (Window \ Floating), gen : Nat]
          BY <2>2 DEF DragInv, Types
    <3>2. windows \in SUBSET (Window \ Floating)
          BY <2>1, <3>1 DEF DragInv, Types, TileableOn
    <3>3. tree' \in [Space -> [windows : SUBSET (Window \ Floating), gen : Nat]]
          BY <2>1, <2>2, <3>1, <3>2 DEF DragInv, Types
    <3>4. lock' \in [Space -> {"free", "main", "event"}]
          BY <2>0, <2>2 DEF DragInv, Types
    <3>5. QED
          BY <2>0, <2>3, <3>3, <3>4 DEF DragInv, Types
  <2>5. EventPhases' /\ FreedAreGone'
        BY <2>0, <2>3 DEF DragInv, EventPhases, FreedAreGone
  <2>6. MainPhases' /\ BorderCount'
        BY <2>0, <2>1, <2>2 DEF DragInv, MainPhases, BorderCount, Types
  <2>7. ~MaySwitch => SpaceIsKept' /\ BordersAreHeld'
        BY <2>0, <2>3 DEF DragInv, SpaceIsKept, BordersAreHeld, WithHandler
  <2>8. QED
        BY <2>4, <2>5, <2>6, <2>7 DEF DragInv
<1>5. ASSUME AXLibDestroyWindow \/ UnhiddenFrees
      PROVE  DragInv'
  <2>0. /\ freed' = freed \cup {[window |-> ev.window, made |-> made[ev.window]]}
        /\ \/ ev.pc = "free" /\ ev' = EventIdle
           \/ ev.pc = "old" /\ ev' = [ev EXCEPT !.pc = "new"]
        /\ UNCHANGED <<lock, tree, known, made, handlers, active, main, drag, borders, button, tap>>
        BY <1>5 DEF AXLibDestroyWindow, UnhiddenFrees, StructOf, mouseVars
  <2>1. ev.window \in Window \ known /\ [window |-> ev.window, made |-> made[ev.window]] \in Struct
        BY <2>0 DEF DragInv, EventPhases, Types, Struct
  <2>2. Types'
    <3>1. ev' \in EventStates
      <4>1. CASE ev' = EventIdle
            BY <4>1 DEF EventStates, EventIdle
      <4>2. CASE ev' = [ev EXCEPT !.pc = "new"]
            BY <4>2 DEF DragInv, Types, EventStates
      <4>3. QED
            BY <2>0, <4>1, <4>2
    <3>2. QED
          BY <2>0, <2>1, <3>1 DEF DragInv, Types
  <2>3. EventPhases'
    <3>1. CASE ev' = EventIdle
          BY <2>0, <3>1 DEF EventPhases, EventIdle
    <3>2. CASE ev.pc = "old" /\ ev' = [ev EXCEPT !.pc = "new"]
          BY <2>0, <2>1, <3>2 DEF DragInv, EventPhases, Types, EventStates
    <3>3. QED
          BY <2>0, <3>1, <3>2
  <2>4. FreedAreGone'
        BY <2>0, <2>1 DEF DragInv, FreedAreGone, Types
  <2>5. MainPhases' /\ BorderCount'
        BY <2>0 DEF DragInv, MainPhases, BorderCount
  <2>6. ~MaySwitch => SpaceIsKept' /\ BordersAreHeld'
    <3> SUFFICES ASSUME ~MaySwitch
                 PROVE  SpaceIsKept' /\ BordersAreHeld'
        OBVIOUS
    <3>1. SpaceIsKept'
          BY <2>0 DEF DragInv, SpaceIsKept
    <3>2. ASSUME NEW p \in borders
          PROVE  /\ p.window \notin Floating /\ p.made <= made[p.window]
                 /\ p.made = made[p.window] =>
                      \/ ev'.pc = "new" /\ ev'.window = p.window
                      \/ p \notin freed' /\ (p.window \in known \/ WithHandler(p)')
      <4>1. /\ p.window \notin Floating /\ p.made <= made[p.window]
            /\ p.made = made[p.window] => /\ p \notin freed
                                          /\ p.window \in known \/ WithHandler(p)
            BY <2>0, <3>2 DEF DragInv, BordersAreHeld
      <4>2. CASE p.window = ev.window /\ p.made = made[p.window]
            BY <2>0, <2>1, <4>1, <4>2 DEF WithHandler, DragInv, EventPhases, Types, EventStates
      <4>3. CASE p.window # ev.window
            BY <2>0, <4>1, <4>3 DEF WithHandler
      <4>4. QED
            BY <4>1, <4>2, <4>3
    <3>3. QED
          BY <2>0, <3>1, <3>2 DEF BordersAreHeld
  <2>7. QED
        BY <2>2, <2>3, <2>4, <2>5, <2>6 DEF DragInv
<1>6. ASSUME NEW w \in Window, UnhiddenRemoves(w)
      PROVE  DragInv'
  <2>0. /\ ev.pc = "next" /\ w \in ev.rest /\ known' = known \ {w}
        /\ ev' = [ev EXCEPT !.pc = "old", !.window = w, !.rest = ev.rest \ {w}]
        /\ UNCHANGED <<lock, tree, made, freed, handlers, active, main, drag, borders, button, tap>>
        BY <1>6 DEF UnhiddenRemoves, mouseVars
  <2>1. Types'
    <3>1. ev' \in EventStates
          BY <2>0 DEF DragInv, Types, EventStates
    <3>2. QED
          BY <2>0, <3>1 DEF DragInv, Types
  <2>2. EventPhases' /\ FreedAreGone'
        BY <2>0 DEF DragInv, EventPhases, FreedAreGone, Types, EventStates
  <2>3. MainPhases' /\ BorderCount'
        BY <2>0 DEF DragInv, MainPhases, BorderCount
  <2>4. ~MaySwitch => SpaceIsKept' /\ BordersAreHeld'
        BY <2>0 DEF DragInv, EventPhases, SpaceIsKept, BordersAreHeld, WithHandler, Types, EventStates
  <2>5. QED
        BY <2>1, <2>2, <2>3, <2>4 DEF DragInv
<1>7. ASSUME UnhiddenAdds
      PROVE  DragInv'
  <2>0. /\ ev.pc = "new" /\ known' = known \cup {ev.window}
        /\ made' = [made EXCEPT ![ev.window] = made[ev.window] + 1]
        /\ UNCHANGED <<lock, tree, freed, handlers, active, main, drag, borders, button, tap>>
        BY <1>7 DEF UnhiddenAdds, mouseVars
  <2>1. ev.window \in Window \ known /\ ev.job = "unhide"
        BY <2>0 DEF DragInv, EventPhases
  <2>2. /\ ev' \in EventStates
        /\ ev'.pc \in {"idle", "next", "wait"} /\ ev'.job # "destroy"
        /\ ev'.pc = "wait" => ev'.space \in Space
        /\ ev'.pc = "next" \/ ev'.rest # {} => ev'.job = "unhide"
    <3>1. \/ ev' = EventIdle
          \/ ev' = [ev EXCEPT !.pc = "next", !.space = None, !.window = None]
          \/ active \in User /\ ev' = [ev EXCEPT !.pc = "wait", !.space = active]
          BY <1>7 DEF UnhiddenAdds, NextWindow
    <3>2. CASE ev' = EventIdle
          BY <3>2 DEF EventStates, EventIdle
    <3>3. CASE ev' = [ev EXCEPT !.pc = "next", !.space = None, !.window = None]
          BY <2>1, <3>3 DEF DragInv, Types, EventStates
    <3>4. CASE active \in User /\ ev' = [ev EXCEPT !.pc = "wait", !.space = active]
          BY <2>1, <3>4 DEF DragInv, Types, EventStates
    <3>5. QED
          BY <3>1, <3>2, <3>3, <3>4
  <2>3. Types'
    <3>1. made' \in [Window -> Nat] /\ known' \in SUBSET Window
          BY <2>0, <2>1 DEF DragInv, Types
    <3>2. QED
          BY <2>0, <2>2, <3>1 DEF DragInv, Types
  <2>4. EventPhases'
        BY <2>0, <2>2 DEF EventPhases
  <2>5. FreedAreGone'
        BY <2>0, <2>1 DEF DragInv, FreedAreGone, Types, Struct
  <2>6. MainPhases' /\ BorderCount'
        BY <2>0 DEF DragInv, MainPhases, BorderCount
  <2>7. ~MaySwitch => SpaceIsKept' /\ BordersAreHeld'
    <3> SUFFICES ASSUME ~MaySwitch
                 PROVE  SpaceIsKept' /\ BordersAreHeld'
        OBVIOUS
    <3>1. SpaceIsKept'
          BY <2>0 DEF DragInv, SpaceIsKept
    <3>2. ASSUME NEW p \in borders
          PROVE  /\ p.window \notin Floating /\ p.made <= made'[p.window]
                 /\ p.made = made'[p.window] => p \notin freed /\ p.window \in known'
      <4>1. /\ p.window \in Window /\ p.made \in Nat /\ made[p.window] \in Nat
            /\ p.window \notin Floating /\ p.made <= made[p.window]
            BY <3>2 DEF DragInv, Types, Struct, BordersAreHeld
      <4>2. CASE p.window = ev.window
            BY <2>0, <2>1, <4>1, <4>2 DEF DragInv, Types
      <4>3. CASE p.window # ev.window
        <5>1. made'[p.window] = made[p.window]
              BY <2>0, <4>1, <4>3 DEF DragInv, Types
        <5>2. QED
              BY <2>0, <2>1, <3>2, <4>1, <4>3, <5>1 DEF DragInv, BordersAreHeld, WithHandler
      <4>4. QED
            BY <4>2, <4>3
    <3>3. QED
          BY <2>0, <3>1, <3>2 DEF BordersAreHeld
  <2>8. QED
        BY <2>3, <2>4, <2>5, <2>6, <2>7 DEF DragInv
<1>8. QED
      BY <1>1, <1>2, <1>3, <1>4, <1>5, <1>6, <1>7 DEF EventThread, HandlerStep

----
(***************************************************************************)
(* The main thread begins a drag.                                          *)
(***************************************************************************)
LEMMA BeginStep ==
  ASSUME DragInv, (\E action \in Action : WindowBegin(action)) \/ Begin
  PROVE  DragInv'
<1> USE DragAssumption DEF DragAssumption
<1>1. ASSUME NEW action \in Action, WindowBegin(action)
      PROVE  DragInv'
  <2>0. /\ main.pc = "idle"
        /\ main' = IF drag.mode = "none" /\ active \in User
                   THEN [pc |-> "wait", space |-> active, action |-> action] ELSE main
        /\ UNCHANGED <<lock, tree, known, made, freed, active, ev, handlers, drag, borders, button>>
        BY <1>1 DEF WindowBegin, EventTapCallback, eventVars, CanBegin, IsMouseActionInProgress
  <2>1. tap' \in [enabled : BOOLEAN, events : Seq(Kind)] /\ Len(tap'.events) <= MaxTap
        BY <1>1, CallbackKeepsTap DEF DragInv, WindowBegin, Kind
  <2>2. Types'
        BY <2>0, <2>1 DEF DragInv, Types
  <2>3. EventPhases' /\ FreedAreGone' /\ BorderCount'
        BY <2>0 DEF DragInv, EventPhases, FreedAreGone, BorderCount
  <2>4. MainPhases'
        BY <2>0 DEF DragInv, MainPhases, TiledMode
  <2>5. ~MaySwitch => SpaceIsKept' /\ BordersAreHeld'
        BY <2>0 DEF DragInv, SpaceIsKept, BordersAreHeld, WithHandler
  <2>6. QED
        BY <2>2, <2>3, <2>4, <2>5 DEF DragInv
<1>2. ASSUME MainAcquires
      PROVE  DragInv'
  <2>0. /\ main.pc = "wait" /\ lock[main.space] = "free"
        /\ lock' = [lock EXCEPT ![main.space] = "main"] /\ main' = [main EXCEPT !.pc = "begin"]
        /\ UNCHANGED <<tree, known, made, freed, active, ev, handlers, button, drag, borders, tap>>
        BY <1>2 DEF MainAcquires, AcquireVirtualSpace, eventVars
  <2>1. main.space \in Space /\ drag.mode \notin TiledMode
        BY <2>0 DEF DragInv, MainPhases, TiledMode
  <2>2. Types'
    <3>1. lock' \in [Space -> {"free", "main", "event"}]
          BY <2>0, <2>1 DEF DragInv, Types
    <3>2. QED
          BY <2>0, <3>1, ZenonT(60) DEF DragInv, Types
  <2>3. EventPhases' /\ FreedAreGone' /\ BorderCount'
        BY <2>0, <2>1 DEF DragInv, EventPhases, FreedAreGone, BorderCount, Types
  <2>4. MainPhases'
        BY <2>0, <2>1 DEF DragInv, MainPhases, Types
  <2>5. ~MaySwitch => SpaceIsKept' /\ BordersAreHeld'
        BY <2>0 DEF DragInv, SpaceIsKept, BordersAreHeld, WithHandler, Types
  <2>6. QED
        BY <2>2, <2>3, <2>4, <2>5 DEF DragInv
<1>3. ASSUME BeginNothing
      PROVE  DragInv'
  <2>0. /\ main.pc = "begin" /\ main' = MainIdle /\ lock' = [lock EXCEPT ![main.space] = "free"]
        /\ UNCHANGED <<tree, known, made, freed, active, ev, handlers, button, drag, borders, tap>>
        BY <1>3 DEF BeginNothing, BeginReturns, ReleaseVirtualSpace, eventVars
  <2>1. main.space \in Space /\ drag.mode \notin TiledMode /\ lock[main.space] = "main"
        BY <2>0 DEF DragInv, MainPhases, TiledMode
  <2>2. Types'
        BY <2>0, ZenonT(60) DEF DragInv, Types, MainIdle
  <2>3. EventPhases' /\ FreedAreGone' /\ BorderCount'
        BY <2>0, <2>1 DEF DragInv, EventPhases, FreedAreGone, BorderCount, Types
  <2>4. MainPhases'
        BY <2>0, <2>1 DEF DragInv, MainPhases, MainIdle, Types
  <2>5. ~MaySwitch => SpaceIsKept' /\ BordersAreHeld'
        BY <2>0 DEF DragInv, SpaceIsKept, BordersAreHeld, WithHandler, MainIdle
  <2>6. QED
        BY <2>2, <2>3, <2>4, <2>5 DEF DragInv
<1>4. ASSUME NEW w \in Window, BeginFloatingWindow(w)
      PROVE  DragInv'
  <2>0. /\ main.pc = "begin" /\ main' = MainIdle /\ lock' = [lock EXCEPT ![main.space] = "free"]
        /\ drag' = [NoDrag EXCEPT !.mode = Floats(main.action),
                                  !.window = [window |-> w, made |-> made[w]]]
        /\ UNCHANGED <<tree, known, made, freed, active, ev, handlers, button, borders, tap>>
        BY <1>4 DEF BeginFloatingWindow, BeginReturns, ReleaseVirtualSpace, StructOf, eventVars
  <2>1. main.space \in Space /\ drag.mode \notin TiledMode /\ lock[main.space] = "main"
        BY <2>0 DEF DragInv, MainPhases, TiledMode
  <2>2. drag' \in DragStates
        BY <2>0 DEF NoDrag, Floats, FloatingMode, DragStates, Struct, DragInv, Types
  <2>3. drag'.mode \notin TiledMode /\ borders = {}
        BY <2>0, <2>1 DEF NoDrag, Floats, TiledMode, DragInv, BorderCount
  <2>4. Types'
        BY <2>0, <2>2 DEF DragInv, Types, MainIdle
  <2>5. EventPhases' /\ FreedAreGone' /\ BorderCount'
        BY <2>0, <2>1, <2>3 DEF DragInv, EventPhases, FreedAreGone, BorderCount, Types, TiledMode
  <2>6. MainPhases'
        BY <2>0, <2>1, <2>3 DEF DragInv, MainPhases, MainIdle, Types
  <2>7. ~MaySwitch => SpaceIsKept' /\ BordersAreHeld'
        BY <2>0, <2>3 DEF DragInv, SpaceIsKept, BordersAreHeld, WithHandler, MainIdle
  <2>8. QED
        BY <2>4, <2>5, <2>6, <2>7 DEF DragInv
<1>5. ASSUME NEW w \in Window, BeginTiledWindow(w)
      PROVE  DragInv'
  <2>0. /\ main.pc = "begin" /\ main' = MainIdle
        /\ w \in tree[main.space].windows \cap known
        /\ drag' = [NoDrag EXCEPT !.mode = Tiled(main.action), !.window = StructOf(w),
                                  !.space = main.space, !.gen = tree[main.space].gen]
        /\ UNCHANGED <<lock, tree, known, made, freed, active, ev, handlers, button, tap>>
        BY <1>5 DEF BeginTiledWindow, BeginReturns, Remember, eventVars
  <2>1. main.space \in User /\ lock[main.space] = "main"
        BY <2>0 DEF DragInv, MainPhases
  <2>2. tree[main.space] \in [windows : SUBSET (Window \ Floating), gen : Nat]
        BY <2>1 DEF DragInv, Types
  <2>3. /\ \A p \in borders' : \E v \in tree[main.space].windows \cap known : p = StructOf(v)
        /\ main.action = "move" => borders' = {StructOf(w)}
    <3>1. CASE main.action = "move"
          BY <1>5, <2>0, <3>1 DEF BeginTiledWindow
    <3>2. CASE main.action # "move"
      <4>1. PICK below \in SUBSET (tree[main.space].windows \cap known) :
                borders' = {StructOf(v) : v \in below \cup {w}}
            BY <1>5, <3>2 DEF BeginTiledWindow
      <4>2. QED
            BY <2>0, <3>2, <4>1
    <3>3. QED
          BY <3>1, <3>2
  <2>4. ASSUME NEW v \in tree[main.space].windows \cap known
        PROVE  /\ v \notin Floating /\ StructOf(v) \in Struct /\ StructOf(v).window = v
               /\ StructOf(v).made = made[v] /\ StructOf(v) \notin freed
    <3>1. v \in Window \ Floating /\ made[v] \in Nat
          BY <2>2 DEF DragInv, Types
    <3>2. QED
          BY <3>1 DEF StructOf, Struct, DragInv, FreedAreGone
  <2>5. /\ drag' \in DragStates
        /\ drag'.mode \in TiledMode
        /\ drag'.mode = "swap" => main.action = "move"
        /\ drag'.space = main.space /\ drag'.gen = tree[main.space].gen
    <3>1. StructOf(w) \in Struct
          BY <2>0, <2>4
    <3>2. QED
          BY <2>0, <2>1, <2>2, <3>1 DEF NoDrag, Tiled, TiledMode, DragStates
  <2>6. Types'
    <3>1. borders' \in SUBSET Struct
          BY <2>3, <2>4
    <3>2. QED
          BY <2>0, <2>5, <3>1 DEF DragInv, Types, MainIdle
  <2>7. EventPhases' /\ FreedAreGone'
        BY <2>0 DEF DragInv, EventPhases, FreedAreGone
  <2>8. BorderCount'
        BY <2>0, <2>3, <2>4, <2>5 DEF BorderCount
  <2>9. MainPhases'
        BY <2>0, <2>1, <2>5 DEF DragInv, MainPhases, MainIdle, TiledMode
  <2>10. ~MaySwitch => SpaceIsKept' /\ BordersAreHeld'
    <3> SUFFICES ASSUME ~MaySwitch
                 PROVE  SpaceIsKept' /\ BordersAreHeld'
        OBVIOUS
    <3>1. SpaceIsKept'
          BY <2>0, <2>5 DEF DragInv, SpaceIsKept, MainIdle
    <3>2. ASSUME NEW p \in borders'
          PROVE  /\ p.window \notin Floating /\ p.made = made[p.window]
                 /\ p \notin freed /\ p.window \in known
          BY <2>3, <2>4, <3>2
    <3>3. ASSUME NEW p \in borders'
          PROVE  p.made <= made[p.window]
      <4>1. p \in Struct
            BY <2>3, <2>4, <3>3
      <4>2. QED
            BY <3>2, <3>3, <4>1 DEF Struct
    <3>4. QED
          BY <2>0, <3>1, <3>2, <3>3 DEF BordersAreHeld
  <2>11. QED
        BY <2>6, <2>7, <2>8, <2>9, <2>10 DEF DragInv
<1>6. QED
      BY <1>1, <1>2, <1>3, <1>4, <1>5 DEF Begin

(***************************************************************************)
(* The main thread goes on with a drag, ends it, or enables the tap.        *)
(***************************************************************************)
LEMMA TickStep ==
  ASSUME DragInv, Tick \/ WindowEnd \/ EnableTap
  PROVE  DragInv'
<1> USE DragAssumption DEF DragAssumption
<1>1. ASSUME WindowTick
      PROVE  DragInv'
  <2>0. UNCHANGED <<lock, tree, known, made, freed, active, ev, handlers, main, drag, borders, button>>
        BY <1>1 DEF WindowTick, EventTapCallback, eventVars
  <2>1. tap' \in [enabled : BOOLEAN, events : Seq(Kind)] /\ Len(tap'.events) <= MaxTap
        BY <1>1, CallbackKeepsTap DEF DragInv, WindowTick, Kind
  <2>2. QED
        BY <2>0, <2>1 DEF DragInv, Types, EventPhases, FreedAreGone, MainPhases, BorderCount,
                          SpaceIsKept, BordersAreHeld, WithHandler
<1>2. ASSUME NEW w \in Window, TickOverNode(w)
      PROVE  DragInv'
  <2>0. /\ main.pc = "idle" /\ drag.mode = "swap"
        /\ w \in tree[drag.space].windows /\ (drag.target = None => w \in known)
        /\ drag' = [drag EXCEPT !.target = w]
        /\ borders' = IF drag.target = None THEN borders \cup {StructOf(w)} ELSE borders
        /\ UNCHANGED <<lock, tree, known, made, freed, active, ev, handlers, main, button>>
        BY <1>2 DEF TickOverNode, EventTapCallback, eventVars
  <2>1. tap' \in [enabled : BOOLEAN, events : Seq(Kind)] /\ Len(tap'.events) <= MaxTap
        BY <1>2, CallbackKeepsTap DEF DragInv, TickOverNode, Kind
  <2>2. /\ drag' \in DragStates
        /\ drag'.mode = "swap" /\ drag'.target # None
        /\ drag'.space = drag.space /\ drag'.gen = drag.gen
        BY <2>0 DEF DragInv, Types, DragStates
  <2>3. drag.space \in User /\ w \notin Floating
        BY <2>0 DEF DragInv, MainPhases, TiledMode, Types
  <2>4. /\ StructOf(w) \in Struct /\ StructOf(w).window = w /\ StructOf(w).made = made[w]
        /\ w \in known => StructOf(w) \notin freed
        BY DEF DragInv, Types, FreedAreGone, StructOf, Struct
  <2>5. Types'
    <3>1. borders' \in SUBSET Struct
          BY <2>0, <2>4 DEF DragInv, Types
    <3>2. QED
          BY <2>0, <2>1, <2>2, <3>1 DEF DragInv, Types
  <2>6. EventPhases' /\ FreedAreGone' /\ MainPhases'
        BY <2>0, <2>2 DEF DragInv, EventPhases, FreedAreGone, MainPhases, TiledMode
  <2>7. BorderCount'
        BY <2>0, <2>2, <2>4 DEF DragInv, BorderCount, TiledMode
  <2>8. ~MaySwitch => SpaceIsKept' /\ BordersAreHeld'
    <3> SUFFICES ASSUME ~MaySwitch
                 PROVE  SpaceIsKept' /\ BordersAreHeld'
        OBVIOUS
    <3>1. SpaceIsKept'
          BY <2>0, <2>2 DEF DragInv, SpaceIsKept, TiledMode
    <3>2. \A p \in borders' : p \in borders \/ (p = StructOf(w) /\ w \in known)
      <4>1. CASE drag.target = None
            BY <2>0, <4>1
      <4>2. CASE drag.target # None
            BY <2>0, <4>2
      <4>3. QED
            BY <4>1, <4>2
    <3>3. made[w] <= made[w]
          BY DEF DragInv, Types
    <3>4. QED
          BY <2>0, <2>2, <2>3, <2>4, <3>1, <3>2, <3>3 DEF DragInv, BordersAreHeld, WithHandler
  <2>9. QED
        BY <2>5, <2>6, <2>7, <2>8 DEF DragInv
<1>3. ASSUME WindowEnd
      PROVE  DragInv'
  <2>0. /\ main.pc = "idle"
        /\ UNCHANGED <<tree, known, made, freed, active, ev, handlers, main, button>>
        BY <1>3 DEF WindowEnd, EventTapCallback, eventVars
  <2>1. tap' \in [enabled : BOOLEAN, events : Seq(Kind)] /\ Len(tap'.events) <= MaxTap
        BY <1>3, CallbackKeepsTap DEF DragInv, WindowEnd, Kind
  <2>2. CASE ~IsMouseActionInProgress /\ UNCHANGED <<lock, drag, borders>>
        BY <2>0, <2>1, <2>2 DEF DragInv, Types, EventPhases, FreedAreGone, MainPhases, BorderCount,
                                SpaceIsKept, BordersAreHeld, WithHandler
  <2>3. CASE MouseMoveWindowEnd \/ MouseResizeWindowEnd
    <3>1. /\ drag' = NoDrag
          /\ IF drag.mode \in TiledMode
             THEN borders' = {} /\ lock' = [lock EXCEPT ![drag.space] = "free"]
             ELSE UNCHANGED <<lock, borders>>
          BY <2>3 DEF MouseMoveWindowEnd, MouseResizeWindowEnd, ReleaseVirtualSpace, TiledMode
    <3>2. drag' \in DragStates /\ drag'.mode = "none"
          BY <3>1 DEF NoDrag, DragStates
    <3>3. borders' = {}
          BY <3>1 DEF DragInv, BorderCount
    <3>4. lock' \in [Space -> {"free", "main", "event"}]
          BY <3>1 DEF DragInv, Types
    <3>5. Types'
          BY <2>0, <2>1, <3>2, <3>3, <3>4 DEF DragInv, Types
    <3>6. EventPhases' /\ FreedAreGone'
          BY <2>0, <3>1 DEF DragInv, EventPhases, FreedAreGone, MainPhases, Types
    <3>7. MainPhases' /\ BorderCount'
      <4>1. CASE drag.mode \in TiledMode
        <5>1. /\ lock' = [lock EXCEPT ![drag.space] = "free"]
              /\ lock \in [Space -> {"free", "main", "event"}]
              BY <3>1, <4>1 DEF DragInv, Types
        <5>2. \A s \in Space : lock[s] = "main" => drag.space = s
              BY <2>0 DEF DragInv, MainPhases
        <5>3. QED
              BY <2>0, <3>2, <3>3, <5>1, <5>2 DEF MainPhases, BorderCount, TiledMode
      <4>2. CASE drag.mode \notin TiledMode
            BY <2>0, <3>1, <3>2, <3>3, <4>2 DEF DragInv, MainPhases, BorderCount, TiledMode
      <4>3. QED
            BY <4>1, <4>2
    <3>8. ~MaySwitch => SpaceIsKept' /\ BordersAreHeld'
          BY <2>0, <3>2, <3>3 DEF DragInv, SpaceIsKept, BordersAreHeld, TiledMode
    <3>9. QED
          BY <3>5, <3>6, <3>7, <3>8 DEF DragInv
  <2>4. QED
        BY <1>3, <2>2, <2>3 DEF WindowEnd
<1>4. ASSUME EnableTap
      PROVE  DragInv'
  <2>0. /\ tap' = [tap EXCEPT !.enabled = TRUE]
        /\ UNCHANGED <<lock, tree, known, made, freed, active, ev, handlers, main, drag, borders, button>>
        BY <1>4 DEF EnableTap, eventVars
  <2>1. tap' \in [enabled : BOOLEAN, events : Seq(Kind)] /\ Len(tap'.events) <= MaxTap
        BY <2>0, ZenonT(60) DEF DragInv, Types
  <2>2. QED
        BY <2>0, <2>1, SMTT(30) DEF DragInv, Types, EventPhases, FreedAreGone, MainPhases, BorderCount,
                          SpaceIsKept, BordersAreHeld, WithHandler
<1>5. QED
      BY <1>1, <1>2, <1>3, <1>4 DEF Tick

----
(***************************************************************************)
(* The user and the window server.                                         *)
(***************************************************************************)
LEMMA OutsideStep ==
  ASSUME DragInv, Outside
  PROVE  DragInv'
<1>1. ASSUME UNCHANGED <<lock, tree, known, made, freed, active, ev, handlers, main, drag, borders>>,
             button' \in BOOLEAN, tap' \in [enabled : BOOLEAN, events : Seq(Kind)],
             Len(tap'.events) <= MaxTap
      PROVE  DragInv'
      BY <1>1 DEF DragInv, Types, EventPhases, FreedAreGone, MainPhases, BorderCount, SpaceIsKept,
                  BordersAreHeld, WithHandler
<1>2. ASSUME NEW action \in Action, Press(action)
      PROVE  DragInv'
      BY <1>1, <1>2, HeardKeepsTap DEF DragInv, Press, userVars, shared, Kind
<1>3. ASSUME MoveMouse
      PROVE  DragInv'
      BY <1>1, <1>3, HeardKeepsTap DEF DragInv, Types, MoveMouse, userVars, shared, Kind
<1>4. ASSUME Release
      PROVE  DragInv'
      BY <1>1, <1>4, HeardKeepsTap DEF DragInv, Release, userVars, shared, Kind
<1>5. ASSUME DisableTap
      PROVE  DragInv'
  <2>1. tap' \in [enabled : BOOLEAN, events : Seq(Kind)] /\ Len(tap'.events) <= MaxTap
        BY <1>5 DEF DragInv, Types, DisableTap
  <2>2. QED
        BY <1>1, <1>5, <2>1 DEF DragInv, Types, DisableTap, userVars, shared
<1>6. ASSUME SwitchSpace
      PROVE  DragInv'
  <2>0. /\ IsMouseActionInProgress \/ main.pc # "idle" => MaySwitch
        /\ active' \in Space
        /\ UNCHANGED <<lock, tree, known, made, freed, ev, handlers, main, drag, borders, button, tap>>
        BY <1>6 DEF SwitchSpace, shared
  <2>1. Types' /\ EventPhases' /\ FreedAreGone' /\ MainPhases' /\ BorderCount'
        BY <2>0 DEF DragInv, Types, EventPhases, FreedAreGone, MainPhases, BorderCount
  <2>2. ~MaySwitch => SpaceIsKept' /\ BordersAreHeld'
        BY <2>0 DEF DragInv, SpaceIsKept, BordersAreHeld, WithHandler, IsMouseActionInProgress, TiledMode
  <2>3. QED
        BY <2>1, <2>2 DEF DragInv
<1>7. QED
      BY <1>2, <1>3, <1>4, <1>5, <1>6 DEF Outside

(* The strengthening holds all the time.                                   *)
LEMMA InvAlways == Spec => []DragInv
<1>1. DragInv /\ [Next]_vars => DragInv'
  <2> SUFFICES ASSUME DragInv, [Next]_vars
               PROVE  DragInv'
      OBVIOUS
  <2>1. CASE UNCHANGED vars
        BY <2>1 DEF vars, shared, DragInv, Types, EventPhases, FreedAreGone, MainPhases, BorderCount,
                    SpaceIsKept, BordersAreHeld, WithHandler
  <2>2. CASE Next
        BY <2>2, EventStep, BeginStep, TickStep, OutsideStep DEF Next, MainThread
  <2>3. QED
        BY <2>1, <2>2
<1>2. QED
      BY InvInit, <1>1, PTL DEF Spec

----
(***************************************************************************)
(* The theorems.                                                           *)
(***************************************************************************)
LEMMA TypesImplyTypeOK == ASSUME DragInv PROVE TypeOK
<1>1. drag.mode = "swap" => Cardinality(borders) \in 1 .. 2
  <2> SUFFICES ASSUME drag.mode = "swap"
               PROVE  Cardinality(borders) \in 1 .. 2
      OBVIOUS
  <2>1. PICK p \in Struct, q \in Struct : borders = {p, q}
        BY DEF DragInv, BorderCount
  <2>2. IsFiniteSet({p}) /\ Cardinality({p}) = 1
        BY FS_Singleton
  <2>3. borders = {p} \cup {q}
        BY <2>1
  <2>4. Cardinality(borders) \in {1, 2}
        BY <2>2, <2>3, FS_AddElement
  <2>5. QED
        BY <2>4
<1>2. \A w \in known : StructOf(w) \notin freed
      BY DEF DragInv, Types, FreedAreGone, StructOf
<1>3. QED
      BY <1>1, <1>2 DEF DragInv, Types, DragStates, BorderCount, TypeOK

(***************************************************************************)
(* The nodes that a drag remembers from one callback to the next are nodes  *)
(* of the tree all the time, whatever the user does (BeginTiledWindow       *)
(* returns with the lock of the space, WindowEnd gives it back).            *)
(***************************************************************************)
THEOREM NodesAreKept == Spec => []DragKeepsNodes
<1>1. DragInv => DragKeepsNodes
      BY DEF DragInv, MainPhases, DragKeepsNodes
<1>2. QED
      BY InvAlways, <1>1, PTL

(***************************************************************************)
(* The callback never waits for a lock that the main thread holds: a drag   *)
(* under way keeps another from beginning (IsMouseActionInProgress).        *)
(***************************************************************************)
THEOREM MainIsFree == Spec => []MainNeverBlocksItself
<1>1. DragInv => MainNeverBlocksItself
      BY DEF DragInv, MainPhases, MainNeverBlocksItself, TiledMode
<1>2. QED
      BY InvAlways, <1>1, PTL

(***************************************************************************)
(* If no space is switched to during a drag, a structure that a border      *)
(* points to is freed before the drag ends only if its application is hidden *)
(* and shown again (ApplicationUnhiddenHandler); a window that is destroyed *)
(* is freed after the drag (WindowDestroyedHandler).                       *)
(***************************************************************************)
THEOREM DragCorrect == ASSUME ~MaySwitch PROVE Spec => []DragIsSafe
<1>1. DragInv => DragIsSafe
  <2> SUFFICES ASSUME DragInv
               PROVE  DragIsSafe
      OBVIOUS
  <2>1. TypeOK
        BY TypesImplyTypeOK
  <2>2. DragKeepsNodes
        BY DEF DragInv, MainPhases, DragKeepsNodes
  <2>3. DestroyedIsKept
    <3>1. ASSUME NEW p \in borders, p \in freed
          PROVE  Replaced(p)
      <4>1. /\ p.made \in Nat /\ made[p.window] \in Nat /\ p.made <= made[p.window]
            /\ p.made = made[p.window] => ev.pc = "new" /\ ev.window = p.window
            BY <3>1 DEF DragInv, Types, Struct, BordersAreHeld
      <4>2. QED
            BY <4>1 DEF Replaced
    <3>2. QED
          BY <3>1 DEF DestroyedIsKept
  <2>4. QED
        BY <2>1, <2>2, <2>3 DEF DragIsSafe
<1>2. QED
      BY InvAlways, <1>1, PTL
====
