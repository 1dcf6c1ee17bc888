----------------------- MODULE WindowLifecycleProofs -----------------------
(***************************************************************************)
(* Proofs about WindowLifecycle, for any set of windows and any number of  *)
(* notifications and events under way: StructsOutliveUse and PluginOrder   *)
(* are invariants of Spec.                                                 *)
(*                                                                         *)
(* Neither is inductive.  The strengthening WindowInv says why a struct    *)
(* that is freed is out of use: it is only freed when its window is        *)
(* closed, and then the last notification of the window, and the event it  *)
(* becomes, follow every other use of the struct; or the struct was never  *)
(* registered, and then nobody but its creation event refers to it.        *)
(***************************************************************************)
EXTENDS WindowLifecycle, TLAPS

NotedStruct == Id \X {"note"}

Phase == [created |-> {"register", "insert", "tell", "restore"},
          destroyed |-> {"tell", "free"},
          space |-> {"idle", "scan", "insert"},
          focused |-> {"check", "tell"},
          changed |-> {"check", "tell"},
          minimized |-> {"check", "load", "store", "tell"},
          deminimized |-> {"check", "load", "store", "tell", "restore"}]

(* Which struct belongs to which window and to which kind of event.        *)
WindowShape ==
    /\ \A id \in Id : windows[id] # NoWindow => windows[id][1] = id
    /\ \A id \in Id : registered[id] # NoWindow => registered[id][1] = id

NoteShape ==
    \A i \in 1..Len(notes) :
        /\ notes[i].ref # NoWindow => notes[i].ref[1] = notes[i].id
        /\ notes[i].kind \in {"minimized", "deminimized"} => notes[i].ref # NoWindow

QueueShape ==
    \A i \in 1..Len(queue) :
        /\ queue[i].type = "space" <=> queue[i].win = NoWindow
        /\ queue[i].type = "created" => queue[i].win \in NotedStruct

MainShape ==
    /\ main.pc \in {"erase", "flag"} => main.type = "destroyed"
    /\ main.pc \in {"list", "scan", "idle", "insert"} => main.type = "space"
    /\ main.pc = "post" => main.type \notin {"space", "created"}
    /\ main.pc = "insert" => main.win = First(main.win[1])

EvShape ==
    /\ ev.pc \in Phase[ev.type]
    /\ ev.type # "space" => ev.win # NoWindow
    /\ ev.type = "created" => ev.win \in NotedStruct
    /\ ev.pc = "insert" => ev.win # NoWindow
    /\ ev.pc = "insert" /\ ev.type = "space" => ev.win = Scanned(ev.win[1])

Shape == WindowShape /\ NoteShape /\ QueueShape /\ MainShape /\ EvShape

(* What refers to a struct refers to an allocated one.                     *)
RefsAreLive ==
    /\ \A i \in 1..Len(notes) : notes[i].ref # NoWindow => Live(notes[i].ref)
    /\ \A id \in Id : registered[id] # NoWindow => heap[registered[id]] # "none"

(* A window is closed before its structs are freed.                        *)
FreedIsClosed == \A s \in Struct : heap[s] = "freed" => screen[s[1]] = "closed"

(* A window is created once, and its creation is announced once.           *)
CreatedOnce ==
    /\ \A i \in 1..Len(notes) : notes[i].kind = "created" =>
        /\ heap[Noted(notes[i].id)] = "none"
        /\ screen[notes[i].id] # "unborn"
    /\ \A i, j \in 1..Len(notes) :
        notes[i].kind = "created" /\ notes[j].kind = "created" /\ notes[i].id = notes[j].id => i = j
    /\ \A id \in Id : screen[id] = "unborn" => heap[Noted(id)] = "none"
    /\ \A i, j \in 1..Len(queue) :
        queue[i].type = "created" /\ queue[j].type = "created" /\ queue[i].win = queue[j].win => i = j
    /\ ev.type = "created" =>
        \A i \in 1..Len(queue) : queue[i].type = "created" => queue[i].win # ev.win

(* The event thread has registered the struct and is about to announce it. *)
Announcing(s) == ev.type = "created" /\ ev.pc \in {"insert", "tell"} /\ ev.win = s

Introduced(s) == s \in NotedStruct => told[s] # "nothing" \/ Announcing(s)

(* A struct of a creation event is not used before it is announced.        *)
UsesFollow ==
    /\ \A s \in Struct : heap[s] = "none" => told[s] = "nothing"
    /\ \A i \in 1..Len(queue) : queue[i].type = "created" => told[queue[i].win] = "nothing"
    /\ ev.type = "created" /\ ev.pc # "restore" => told[ev.win] = "nothing"
    /\ ev.type = "created" /\ ev.pc = "restore" => told[ev.win] # "nothing"
    /\ \A id \in Id : windows[id] # NoWindow => Introduced(windows[id])
    /\ \A id \in Id : registered[id] # NoWindow => Introduced(registered[id])
    /\ \A i \in 1..Len(notes) : notes[i].ref # NoWindow => Introduced(notes[i].ref)
    /\ main.win # NoWindow => Introduced(main.win)
    /\ \A i \in 1..Len(queue) : queue[i].type \notin {"created", "space"} => Introduced(queue[i].win)
    /\ ev.type \notin {"created", "space"} => told[ev.win] # "nothing" \/ ev.win \notin NotedStruct

(* A struct that is about to be put into the map is not there.             *)
Inserting(s) == ev.pc = "insert" /\ ev.win = s

NotYetThere ==
    ev.pc = "insert" => windows[ev.win[1]] # ev.win /\ Live(ev.win)

(* The notification that a window is destroyed is the last one about it.   *)
LastNote ==
    \A i \in 1..Len(notes) : notes[i].kind = "destroyed" =>
        /\ screen[notes[i].id] = "closed"
        /\ \A j \in 1..Len(notes) : i < j => notes[j].id # notes[i].id

Silent(id) == /\ screen[id] = "closed"
              /\ \A i \in 1..Len(notes) : notes[i].id # id

(* The main thread has the struct of a destroyed window.                   *)
MainEnds ==
    main.type = "destroyed" =>
        /\ Silent(main.win[1])
        /\ ~Inserting(main.win)
        /\ main.pc # "erase" => windows[main.win[1]] # main.win

(* The struct of a destroyed window has no use but by its last event.      *)
Unused(s) == /\ Silent(s[1])
             /\ ~Inserting(s)
             /\ main.win # NoWindow => main.win[1] # s[1]
             /\ windows[s[1]] # s

LastEvent ==
    /\ \A i \in 1..Len(queue) : queue[i].type = "destroyed" =>
        /\ Unused(queue[i].win)
        /\ \A j \in 1..Len(queue) :
            i < j /\ queue[j].win = queue[i].win => queue[j].type = "focused"
    /\ ev.type = "destroyed" =>
        /\ Unused(ev.win)
        /\ \A j \in 1..Len(queue) : queue[j].win = ev.win => queue[j].type = "focused"

(* What plugins were told is the last thing is followed by the free.       *)
ToldLast == \A s \in Struct : told[s] = "destroyed" =>
                heap[s] = "freed" \/ (ev.pc = "free" /\ ev.win = s)

WindowInv == /\ TypeOK /\ Shape
             /\ LookupIsLive /\ EventsAreLive /\ RefsAreLive
             /\ FreedIsClosed
             /\ CreatedOnce
             /\ UsesFollow
             /\ NotYetThere /\ LastNote /\ MainEnds /\ LastEvent
             /\ ToldLast
----
(* What the proofs use of structs and of sequences.                        *)

(* A struct belongs to one window, and only a noted one is the struct of a *)
(* creation event.                                                         *)
LEMMA StructFacts ==
    /\ NoWindow \notin Struct
    /\ \A s \in Struct : s[1] \in Id
    /\ \A s \in NotedStruct : s \in Struct /\ s = Noted(s[1])
    /\ \A id \in Id : /\ First(id) \in Struct /\ First(id)[1] = id /\ First(id) \notin NotedStruct
                      /\ Scanned(id) \in Struct /\ Scanned(id)[1] = id
                      /\ Scanned(id) \notin NotedStruct /\ First(id) # Scanned(id)
                      /\ Noted(id) \in NotedStruct /\ Noted(id)[1] = id
BY WindowAssumption DEF Struct, NotedStruct, First, Scanned, Noted

(* A sequence with one more element.                                       *)
LEMMA AppendFacts ==
    ASSUME NEW S, NEW s \in Seq(S), NEW e \in S, NEW t, t = Append(s, e)
    PROVE  /\ t \in Seq(S)
           /\ Len(s) \in Nat /\ Len(t) = Len(s) + 1
           /\ \A i \in 1..Len(s) : t[i] = s[i]
           /\ t[Len(t)] = e
OBVIOUS

(* A sequence without its head.                                            *)
LEMMA TailFacts ==
    ASSUME NEW S, NEW s \in Seq(S), s # <<>>, NEW t, t = Tail(s)
    PROVE  /\ t \in Seq(S)
           /\ Len(s) \in Nat /\ Len(s) >= 1 /\ Len(t) = Len(s) - 1
           /\ Head(s) = s[1] /\ s[1] \in S
           /\ \A i \in 1..Len(t) : t[i] = s[i + 1]
OBVIOUS

(* One sequence after another.                                             *)
LEMMA ConcatFacts ==
    ASSUME NEW S, NEW s \in Seq(S), NEW u \in Seq(S), NEW t, t = s \o u
    PROVE  /\ t \in Seq(S)
           /\ Len(s) \in Nat /\ Len(u) \in Nat /\ Len(t) = Len(s) + Len(u)
           /\ \A i \in 1..Len(s) : t[i] = s[i]
           /\ \A i \in 1..Len(t) : i > Len(s) => i - Len(s) \in 1..Len(u) /\ t[i] = u[i - Len(s)]
OBVIOUS

(* The elements of a sequence.                                             *)
LEMMA SeqFacts ==
    ASSUME NEW S, NEW s \in Seq(S)
    PROVE  /\ Len(s) \in Nat /\ DOMAIN s = 1..Len(s)
           /\ \A i \in 1..Len(s) : s[i] \in S
OBVIOUS

(* What the types say of each component.                                   *)
LEMMA TypeFacts ==
    ASSUME TypeOK
    PROVE  /\ Len(notes) \in Nat /\ Len(queue) \in Nat
           /\ DOMAIN queue = 1..Len(queue)
           /\ \A i \in 1..Len(notes) : /\ notes[i] \in Notification
                                       /\ notes[i].kind \in EventType \ {"space"}
                                       /\ notes[i].id \in Id /\ notes[i].ref \in Reference
           /\ \A i \in 1..Len(queue) : /\ queue[i] \in QueuedEvent
                                       /\ queue[i].type \in EventType
                                       /\ queue[i].win \in Reference
           /\ main.type \in EventType /\ main.win \in Reference /\ main.todo \in SUBSET Id
           /\ ev.type \in EventType /\ ev.win \in Reference /\ ev.todo \in SUBSET Id
           /\ \A id \in Id : windows[id] \in Reference /\ registered[id] \in Reference
<1>1. /\ notes \in Seq(Notification) /\ queue \in Seq(QueuedEvent)
      /\ main \in MainState /\ ev \in HandlerState
      /\ windows \in [Id -> Reference] /\ registered \in [Id -> Reference]
    BY DEF TypeOK
<1>2. Len(notes) \in Nat /\ \A i \in 1..Len(notes) : notes[i] \in Notification
    BY <1>1, SeqFacts
<1>3. /\ Len(queue) \in Nat /\ DOMAIN queue = 1..Len(queue)
      /\ \A i \in 1..Len(queue) : queue[i] \in QueuedEvent
    BY <1>1, SeqFacts
<1>4. \A n \in Notification : n.kind \in EventType \ {"space"} /\ n.id \in Id /\ n.ref \in Reference
    BY DEF Notification
<1>5. \A e \in QueuedEvent : e.type \in EventType /\ e.win \in Reference
    BY DEF QueuedEvent
<1>6. main.type \in EventType /\ main.win \in Reference /\ main.todo \in SUBSET Id
    BY <1>1 DEF MainState
<1>7. ev.type \in EventType /\ ev.win \in Reference /\ ev.todo \in SUBSET Id
    BY <1>1 DEF HandlerState
<1> QED
    BY <1>1, <1>2, <1>3, <1>4, <1>5, <1>6, <1>7

----
(* The user: the notifications u about the window id follow the others.    *)

Sends(id, u, x) ==
    /\ screen[id] # "closed"
    /\ screen' = [screen EXCEPT ![id] = x]
    /\ notes' = notes \o u
    /\ \A k \in 1..Len(u) :
        /\ u[k].id = id /\ u[k].ref \in {NoWindow, registered[id]}
        /\ u[k].kind \in {"minimized", "deminimized"} => u[k].ref # NoWindow
        /\ u[k].kind = "destroyed" => x = "closed" /\ k = Len(u)
        /\ u[k].kind = "created" => screen[id] = "unborn" /\ k = Len(u)
    /\ UNCHANGED <<registered, structVars, main, queue, ev, history>>

(* What the user does to a window changes its screen state and sends       *)
(* notifications about it alone.                                           *)
LEMMA UserSends ==
    ASSUME WindowInv, NEW id \in Id,
           \/ OpenWindow(id) \/ CloseWindow(id) \/ MinimizeWindow(id)
           \/ DeminimizeWindow(id) \/ TouchWindow(id)
    PROVE  \E u \in Seq(Notification), x \in {"open", "minimized", "closed"} : Sends(id, u, x)
<1>0. /\ registered[id] \in Reference /\ NoWindow \in Reference
      /\ notes \in Seq(Notification)
      /\ screen \in [Id -> {"unborn", "open", "minimized", "closed"}]
    BY TypeFacts DEF WindowInv, Reference, TypeOK
<1>1. \A k \in EventType \ {"space"}, r \in Reference : Note(k, id, r) \in Notification
    BY DEF Note, Notification
<1>2. \A k, r : Note(k, id, r).kind = k /\ Note(k, id, r).id = id /\ Note(k, id, r).ref = r
    BY DEF Note
<1>8. \A a, b \in Notification : <<a>> \in Seq(Notification) /\ <<a, b>> \in Seq(Notification)
    OBVIOUS
<1>9. \A r \in Reference, k \in {"created", "focused", "changed", "deminimized"} :
            Note(k, id, r) \in Notification
    BY <1>1 DEF EventType
<1>3. ASSUME OpenWindow(id)
      PROVE  Sends(id, <<Note("focused", id, NoWindow), Note("created", id, NoWindow)>>, "open")
    BY <1>2, <1>3 DEF OpenWindow, Sends
<1>4. ASSUME CloseWindow(id) PROVE Sends(id, NoteIfRegistered("destroyed", id), "closed")
    BY <1>2, <1>4 DEF CloseWindow, Sends, NoteIfRegistered
<1>5. ASSUME MinimizeWindow(id) PROVE Sends(id, NoteIfRegistered("minimized", id), "minimized")
    BY <1>2, <1>5 DEF MinimizeWindow, Sends, NoteIfRegistered
<1>6. ASSUME DeminimizeWindow(id)
      PROVE  \E u \in Seq(Notification) : Sends(id, u, "open")
  <2>1. CASE registered[id] = NoWindow
    <3>1. notes' = notes \o <<Note("focused", id, NoWindow)>>
        BY <1>0, <1>1, <1>6, <2>1 DEF DeminimizeWindow, NoteIfRegistered, EventType
    <3>2. Sends(id, <<Note("focused", id, NoWindow)>>, "open")
        BY <1>2, <1>6, <3>1 DEF DeminimizeWindow, Sends
    <3>3. <<Note("focused", id, NoWindow)>> \in Seq(Notification)
        BY <1>0, <1>8, <1>9
    <3> QED
        BY <3>2, <3>3
  <2>2. CASE registered[id] # NoWindow
    <3> DEFINE u == <<Note("focused", id, NoWindow), Note("deminimized", id, registered[id])>>
    <3>1. notes' = notes \o u
        BY <1>0, <1>1, <1>6, <2>2 DEF DeminimizeWindow, NoteIfRegistered, EventType
    <3>2. Sends(id, u, "open")
        BY <1>2, <1>6, <2>2, <3>1 DEF DeminimizeWindow, Sends
    <3>3. u \in Seq(Notification)
        BY <1>0, <1>8, <1>9
    <3> QED
        BY <3>2, <3>3
  <2> QED
    BY <2>1, <2>2
<1>7. ASSUME TouchWindow(id)
      PROVE  \E u \in Seq(Notification) : Sends(id, u, "open")
  <2>1. PICK kind \in Lookup : notes' = Append(notes, Note(kind, id, NoWindow))
    BY <1>7 DEF TouchWindow
  <2>2. Note(kind, id, NoWindow) \in Notification
    BY <1>0, <1>1, <2>1 DEF Lookup, EventType
  <2>3. notes' = notes \o <<Note(kind, id, NoWindow)>>
    BY <1>0, <2>1, <2>2, SMTT(30)
  <2>4. screen' = [screen EXCEPT ![id] = "open"]
    BY <1>0, <1>7 DEF TouchWindow
  <2>5. /\ screen[id] # "closed"
        /\ UNCHANGED <<registered, structVars, main, queue, ev, history>>
    BY <1>7 DEF TouchWindow
  <2>6. DEFINE u == <<Note(kind, id, NoWindow)>>
  <2>7. /\ Len(u) = 1 /\ u[1].id = id /\ u[1].ref = NoWindow /\ u[1].kind = kind
        /\ kind \notin {"minimized", "deminimized", "destroyed", "created"}
    BY <1>2, <2>1 DEF Lookup
  <2>8. u \in Seq(Notification)
    BY <1>8, <2>2
  <2>9. Sends(id, u, "open")
    <3> HIDE DEF u
    <3>1. notes' = notes \o u
        BY <2>3 DEF u
    <3> QED
        BY <2>4, <2>5, <2>7, <3>1 DEF Sends
  <2> QED
    BY <2>8, <2>9
<1> QED
  <2>1. ASSUME OpenWindow(id) PROVE \E u \in Seq(Notification) : Sends(id, u, "open")
    <3>1. <<Note("focused", id, NoWindow), Note("created", id, NoWindow)>> \in Seq(Notification)
        BY <1>0, <1>8, <1>9
    <3> QED
        BY <1>3, <2>1, <3>1
  <2>2. \A k \in EventType \ {"space"} : NoteIfRegistered(k, id) \in Seq(Notification)
    BY <1>0, <1>1 DEF NoteIfRegistered
  <2>3. ASSUME CloseWindow(id) PROVE \E u \in Seq(Notification) : Sends(id, u, "closed")
    BY <1>4, <2>2, <2>3 DEF EventType
  <2>4. ASSUME MinimizeWindow(id) PROVE \E u \in Seq(Notification) : Sends(id, u, "minimized")
    BY <1>5, <2>2, <2>4 DEF EventType
  <2> QED
    BY <1>6, <1>7, <2>1, <2>3, <2>4

(* Such a step keeps the strengthening.                                    *)
LEMMA UserStep ==
    ASSUME WindowInv, NEW id \in Id, NEW u \in Seq(Notification),
           NEW x \in {"open", "minimized", "closed"}, Sends(id, u, x)
    PROVE  WindowInv'
<1>1. /\ screen' = [screen EXCEPT ![id] = x] /\ screen[id] # "closed"
      /\ notes' = notes \o u
      /\ UNCHANGED <<registered, heap, invalid, minimized, windows, main, queue, ev, told,
                     focusDue>>
    BY DEF Sends, structVars, history
<1>2. \A k \in 1..Len(u) :
        /\ u[k] \in Notification
        /\ u[k].id = id /\ u[k].ref \in {NoWindow, registered[id]}
        /\ u[k].kind \in {"minimized", "deminimized"} => u[k].ref # NoWindow
        /\ u[k].kind = "destroyed" => x = "closed" /\ k = Len(u)
        /\ u[k].kind = "created" => screen[id] = "unborn" /\ k = Len(u)
    BY SeqFacts DEF Sends
<1>3. /\ TypeOK /\ notes \in Seq(Notification)
      /\ screen \in [Id -> {"unborn", "open", "minimized", "closed"}]
    BY DEF WindowInv, TypeOK
<1>4. /\ notes' \in Seq(Notification)
      /\ Len(notes) \in Nat /\ Len(u) \in Nat /\ Len(notes') = Len(notes) + Len(u)
      /\ \A i \in 1..Len(notes') :
            \/ i \in 1..Len(notes) /\ notes'[i] = notes[i]
            \/ \E k \in 1..Len(u) : i = Len(notes) + k /\ notes'[i] = u[k]
    BY <1>1, <1>3, ConcatFacts
<1>18. \A i \in 1..Len(notes') :
        \/ i \in 1..Len(notes) /\ notes'[i] = notes[i]
        \/ /\ notes'[i].id = id /\ notes'[i].ref \in {NoWindow, registered[id]}
           /\ notes'[i].kind \in {"minimized", "deminimized"} => notes'[i].ref # NoWindow
           /\ notes'[i].kind = "destroyed" => x = "closed" /\ i = Len(notes')
           /\ notes'[i].kind = "created" => screen[id] = "unborn" /\ i = Len(notes')
  <2> TAKE i \in 1..Len(notes')
  <2>1. CASE \E k \in 1..Len(u) : i = Len(notes) + k /\ notes'[i] = u[k]
    <3>1. PICK k \in 1..Len(u) : i = Len(notes) + k /\ notes'[i] = u[k]
        BY <2>1
    <3>2. k = Len(u) => i = Len(notes')
        BY <1>4, <3>1
    <3> QED
        BY <1>2, <3>1, <3>2
  <2> QED
    BY <1>4, <2>1
<1>5. \A j \in Id : screen'[j] = IF j = id THEN x ELSE screen[j]
    BY <1>1, <1>3
<1>6. TypeOK'
    BY <1>1, <1>3, <1>4 DEF TypeOK
<1>7. Shape'
  <2>1. WindowShape /\ NoteShape /\ QueueShape /\ MainShape /\ EvShape
    BY DEF WindowInv, Shape
  <2>2. WindowShape' /\ QueueShape' /\ MainShape' /\ EvShape'
    BY <1>1, <2>1 DEF WindowShape, QueueShape, MainShape, EvShape
  <2>3. NoteShape'
    BY <1>1, <1>18, <2>1 DEF WindowShape, NoteShape
  <2> QED
    BY <2>2, <2>3 DEF Shape
<1>8. LookupIsLive' /\ EventsAreLive'
    BY <1>1 DEF WindowInv, LookupIsLive, EventsAreLive, Live
<1>9. RefsAreLive'
  <2>1. registered[id] # NoWindow => Live(registered[id])
    BY <1>1, <1>3, TypeFacts DEF WindowInv, RefsAreLive, FreedIsClosed, Live, Shape, WindowShape,
                                TypeOK, Reference
  <2>2. \A k \in 1..Len(u) : u[k].ref # NoWindow => Live(u[k].ref)
    BY <1>2, <2>1
  <2> QED
    BY <1>1, <1>4, <2>2, SMTT(30) DEF WindowInv, RefsAreLive, Live
<1>10. FreedIsClosed' /\ ToldLast'
    BY <1>1, <1>5, StructFacts DEF WindowInv, FreedIsClosed, ToldLast
<1>11. CreatedOnce'
  <2>1. CreatedOnce
    BY DEF WindowInv
  <2>2. \A i \in 1..Len(notes') : notes'[i].kind = "created" =>
            heap'[Noted(notes'[i].id)] = "none" /\ screen'[notes'[i].id] # "unborn"
    BY <1>1, <1>3, <1>18, <1>5, <2>1, TypeFacts DEF CreatedOnce
  <2>3. \A i, j \in 1..Len(notes') :
            notes'[i].kind = "created" /\ notes'[j].kind = "created" /\ notes'[i].id = notes'[j].id
                => i = j
    <3> SUFFICES ASSUME NEW i \in 1..Len(notes'), NEW j \in 1..Len(notes'),
                        notes'[i].kind = "created", notes'[j].kind = "created",
                        notes'[i].id = notes'[j].id
                 PROVE  i = j
        OBVIOUS
    <3>1. \A k \in 1..Len(notes') : notes'[k].kind = "created" =>
            \/ /\ k \in 1..Len(notes) /\ notes'[k] = notes[k]
               /\ screen[notes'[k].id] # "unborn"
            \/ /\ k = Len(notes')
               /\ notes'[k].id = id /\ screen[id] = "unborn"
        BY <1>18, <2>1 DEF CreatedOnce
    <3>2. CASE screen[notes'[i].id] = "unborn"
        BY <3>1, <3>2
    <3>3. CASE screen[notes'[i].id] # "unborn"
      <4>1. /\ i \in 1..Len(notes) /\ notes'[i] = notes[i]
            /\ j \in 1..Len(notes) /\ notes'[j] = notes[j]
        BY <3>1, <3>3
      <4>2. notes[i].kind = "created" /\ notes[j].kind = "created" /\ notes[i].id = notes[j].id
        BY <4>1
      <4> QED
        BY <2>1, <4>1, <4>2 DEF CreatedOnce
    <3> QED
        BY <3>2, <3>3
  <2>4. \A j \in Id : screen'[j] = "unborn" => heap'[Noted(j)] = "none"
    BY <1>1, <1>5, <2>1 DEF CreatedOnce
  <2> QED
    BY <1>1, <2>1, <2>2, <2>3, <2>4 DEF CreatedOnce
<1>12. UsesFollow'
  <2>1. UsesFollow
    BY DEF WindowInv
  <2>2. \A s : Introduced(s)' <=> Introduced(s)
    BY <1>1 DEF Introduced, Announcing
  <2>3. \A i \in 1..Len(notes') : notes'[i].ref # NoWindow => Introduced(notes'[i].ref)
    BY <1>18, <2>1 DEF UsesFollow
  <2> QED
    BY <1>1, <2>1, <2>3 DEF UsesFollow, Introduced, Announcing
<1>13. NotYetThere'
    BY <1>1 DEF WindowInv, NotYetThere, Live
<1>14. LastNote'
  <2>1. \A i \in 1..Len(notes) :
            /\ notes[i].id \in Id
            /\ notes[i].kind = "destroyed" =>
                /\ screen[notes[i].id] = "closed"
                /\ \A j \in 1..Len(notes) : i < j => notes[j].id # notes[i].id
    BY <1>3, TypeFacts DEF WindowInv, LastNote
  <2> SUFFICES ASSUME NEW i \in 1..Len(notes'), notes'[i].kind = "destroyed"
               PROVE  /\ screen'[notes'[i].id] = "closed"
                      /\ \A j \in 1..Len(notes') : i < j => notes'[j].id # notes'[i].id
    BY DEF LastNote
  <2>2. CASE i \in 1..Len(notes) /\ notes'[i] = notes[i]
    <3>1. /\ screen[notes[i].id] = "closed" /\ notes[i].id # id /\ notes[i].id \in Id
          /\ \A j \in 1..Len(notes) : i < j => notes[j].id # notes[i].id
        BY <1>1, <2>1, <2>2
    <3>2. \A j \in 1..Len(notes') :
            notes'[j].id = id \/ (j \in 1..Len(notes) /\ notes'[j].id = notes[j].id)
        BY <1>18
    <3> QED
        BY <1>5, <2>2, <3>1, <3>2
  <2>3. CASE i = Len(notes') /\ x = "closed" /\ notes'[i].id = id
    BY <1>4, <1>5, <2>3
  <2> QED
    BY <1>18, <2>2, <2>3
<1>15. \A j \in Id : Silent(j) => Silent(j)'
    BY <1>1, <1>18, <1>5 DEF Silent
<1>16. MainEnds'
  <2>1. main.type = "destroyed" => main.win \in Struct
    BY <1>3 DEF WindowInv, Shape, MainShape, TypeOK, MainState, Reference
  <2>2. main.type = "destroyed" => Silent(main.win[1]) /\ main.win[1] \in Id
    BY <2>1, StructFacts DEF WindowInv, MainEnds
  <2>3. main.type = "destroyed" => Silent(main.win[1])'
    <3>1. \A k \in Id : Silent(k) => screen'[k] = "closed" /\ k # id
        BY <1>1, <1>5 DEF Silent
    <3>2. \A k \in Id : Silent(k) => \A i \in 1..Len(notes') : notes'[i].id # k
        BY <1>18, <3>1 DEF Silent
    <3> QED
        BY <1>1, <2>2, <3>1, <3>2 DEF Silent
  <2> QED
    BY <1>1, <2>3 DEF WindowInv, MainEnds, Inserting
<1>17. LastEvent'
    BY <1>1, <1>15, <1>3, StructFacts, TypeFacts
       DEF WindowInv, LastEvent, Unused, Inserting, Shape, QueueShape, EvShape, Reference
<1> QED
    BY <1>6, <1>7, <1>8, <1>9, <1>10, <1>11, <1>12, <1>13, <1>14, <1>16, <1>17 DEF WindowInv

----
(* The steps of the program.                                               *)

(* The queue after an event of the event loop has been added.              *)
LEMMA PostFacts ==
    ASSUME TypeOK, NEW type \in EventType, NEW win \in Reference, Post(type, win)
    PROVE  /\ queue' \in Seq(QueuedEvent)
           /\ Len(queue) \in Nat /\ Len(queue') = Len(queue) + 1
           /\ \A i \in 1..Len(queue') :
                \/ i \in 1..Len(queue) /\ queue'[i] = queue[i]
                \/ i = Len(queue') /\ queue'[i].type = type /\ queue'[i].win = win
<1>1. queue \in Seq(QueuedEvent) /\ Event(type, win) \in QueuedEvent
    BY DEF TypeOK, Event, QueuedEvent
<1>2. queue' = Append(queue, Event(type, win))
    BY DEF Post
<1>3. /\ queue' \in Seq(QueuedEvent)
      /\ Len(queue) \in Nat /\ Len(queue') = Len(queue) + 1
      /\ \A i \in 1..Len(queue) : queue'[i] = queue[i]
      /\ queue'[Len(queue')] = Event(type, win)
    BY <1>1, <1>2, AppendFacts
<1> QED
    BY <1>3 DEF Event

(* The notification that the main thread takes.                            *)
LEMMA MainTakes ==
    ASSUME TypeOK, NEW kinds, MainHandles(kinds)
    PROVE  /\ notes' \in Seq(Notification)
           /\ Len(notes) \in Nat /\ Len(notes) >= 1 /\ Len(notes') = Len(notes) - 1
           /\ Head(notes) = notes[1] /\ notes[1] \in Notification
           /\ notes[1].kind \in kinds /\ notes[1].kind \in EventType \ {"space"}
           /\ notes[1].id \in Id /\ notes[1].ref \in Reference
           /\ \A i \in 1..Len(notes') : i + 1 \in 1..Len(notes) /\ notes'[i] = notes[i + 1]
           /\ main = MainIdle
<1>1. notes \in Seq(Notification) /\ notes # <<>> /\ notes' = Tail(notes)
    BY DEF TypeOK, MainHandles
<1>2. /\ notes' \in Seq(Notification)
      /\ Len(notes) \in Nat /\ Len(notes) >= 1 /\ Len(notes') = Len(notes) - 1
      /\ Head(notes) = notes[1] /\ notes[1] \in Notification
      /\ \A i \in 1..Len(notes') : notes'[i] = notes[i + 1]
    BY <1>1, TailFacts
<1>3. /\ notes[1].kind \in kinds /\ main = MainIdle
    BY <1>2 DEF MainHandles
<1> QED
    BY <1>2, <1>3 DEF Notification

(* The event that the event thread takes.                                  *)
LEMMA HandlerTakes ==
    ASSUME TypeOK, TakeEvent
    PROVE  /\ queue' \in Seq(QueuedEvent)
           /\ Len(queue) \in Nat /\ Len(queue) >= 1 /\ Len(queue') = Len(queue) - 1
           /\ queue[1].type \in EventType /\ queue[1].win \in Reference
           /\ \A i \in 1..Len(queue') : i + 1 \in 1..Len(queue) /\ queue'[i] = queue[i + 1]
           /\ ev = EventIdle
           /\ ev'.pc = FirstStep[queue[1].type] /\ ev'.type = queue[1].type
           /\ ev'.win = queue[1].win /\ ev' \in HandlerState
           /\ UNCHANGED <<axVars, structVars, main, history>>
<1>1. queue \in Seq(QueuedEvent) /\ queue # <<>> /\ queue' = Tail(queue)
    BY DEF TypeOK, TakeEvent
<1>2. /\ queue' \in Seq(QueuedEvent)
      /\ Len(queue) \in Nat /\ Len(queue) >= 1 /\ Len(queue') = Len(queue) - 1
      /\ Head(queue) = queue[1] /\ queue[1] \in QueuedEvent
      /\ \A i \in 1..Len(queue') : queue'[i] = queue[i + 1]
    BY <1>1, TailFacts
<1>3. queue[1].type \in EventType /\ queue[1].win \in Reference
    BY <1>2 DEF QueuedEvent
<1>4. PICK listed \in Listed :
        ev' = [EventIdle EXCEPT !.pc = FirstStep[queue[1].type], !.type = queue[1].type,
                                !.win = queue[1].win, !.todo = listed]
    BY <1>2 DEF TakeEvent
<1>5. EventIdle \in HandlerState /\ listed \in SUBSET Id
    BY DEF EventIdle, HandlerState, Reference, EventType, Listed
<1>6. FirstStep[queue[1].type] \in {"register", "tell", "scan", "check"}
    BY <1>3 DEF FirstStep, EventType
<1>7. /\ ev'.pc = FirstStep[queue[1].type] /\ ev'.type = queue[1].type
      /\ ev'.win = queue[1].win /\ ev' \in HandlerState
    BY <1>3, <1>4, <1>5, <1>6 DEF HandlerState
<1> QED
    BY <1>2, <1>3, <1>7 DEF TakeEvent

----
(* The steps of the program.  Each has one step per conjunct of WindowInv; *)
(* Parts gives them the types of the components.                           *)

Parts ==
    /\ NoWindow \notin Struct /\ NoWindow \in Reference
    /\ \A r \in Reference : r # NoWindow => r \in Struct
    /\ \A s \in Struct : s[1] \in Id /\ s \in Reference
    /\ \A s \in NotedStruct : s \in Struct /\ s = Noted(s[1])
    /\ \A id \in Id : /\ First(id) \in Struct /\ First(id)[1] = id /\ First(id) \notin NotedStruct
                      /\ Scanned(id) \in Struct /\ Scanned(id)[1] = id
                      /\ Scanned(id) \notin NotedStruct /\ First(id) # Scanned(id)
                      /\ Noted(id) \in NotedStruct /\ Noted(id)[1] = id
    /\ Len(notes) \in Nat /\ Len(queue) \in Nat
    /\ DOMAIN queue = 1..Len(queue)
    /\ \A i \in 1..Len(notes) : /\ notes[i].kind \in EventType \ {"space"}
                                /\ notes[i].id \in Id /\ notes[i].ref \in Reference
    /\ \A i \in 1..Len(queue) : /\ queue[i].type \in EventType
                                /\ queue[i].win \in Reference
    /\ main.type \in EventType /\ main.win \in Reference
    /\ ev.type \in EventType /\ ev.win \in Reference
    /\ \A id \in Id : windows[id] \in Reference /\ registered[id] \in Reference
    /\ screen \in [Id -> {"unborn", "open", "minimized", "closed"}]
    /\ notes \in Seq(Notification) /\ queue \in Seq(QueuedEvent)
    /\ heap \in [Struct -> {"none", "live", "freed"}]
    /\ invalid \in [Struct -> BOOLEAN] /\ minimized \in [Struct -> BOOLEAN]
    /\ windows \in [Id -> Reference] /\ registered \in [Id -> Reference]
    /\ main \in MainState /\ ev \in HandlerState
    /\ main.pc \in {"list", "scan", "idle"} <=> main.win = NoWindow
    /\ told \in [Struct -> {"nothing", "created", "destroyed"}]
    /\ focusDue \in [Struct -> BOOLEAN]

(* The type invariant, component by component.                             *)
LEMMA PartsHold ==
    ASSUME WindowInv
    PROVE  Parts
<1>1. TypeOK
    BY DEF WindowInv
<1>2. /\ screen \in [Id -> {"unborn", "open", "minimized", "closed"}]
      /\ notes \in Seq(Notification) /\ queue \in Seq(QueuedEvent)
      /\ heap \in [Struct -> {"none", "live", "freed"}]
      /\ invalid \in [Struct -> BOOLEAN] /\ minimized \in [Struct -> BOOLEAN]
      /\ windows \in [Id -> Reference] /\ registered \in [Id -> Reference]
      /\ main \in MainState /\ ev \in HandlerState
      /\ main.pc \in {"list", "scan", "idle"} <=> main.win = NoWindow
      /\ told \in [Struct -> {"nothing", "created", "destroyed"}]
      /\ focusDue \in [Struct -> BOOLEAN]
    BY <1>1 DEF TypeOK
<1>3. /\ NoWindow \in Reference
      /\ \A r \in Reference : r # NoWindow => r \in Struct
      /\ \A s \in Struct : s \in Reference
    BY DEF Reference
<1> QED
    BY <1>1, <1>2, <1>3, StructFacts, TypeFacts DEF Parts

(* Where the event thread is in the handler of each type of event.         *)
LEMMA EvFacts ==
    ASSUME WindowInv
    PROVE  /\ ev.type = "created" => ev.pc \in {"register", "insert", "tell", "restore"}
           /\ ev.type = "destroyed" => ev.pc \in {"tell", "free"}
           /\ ev.type = "space" => ev.pc \in {"idle", "scan", "insert"}
           /\ ev.type \in {"focused", "changed"} => ev.pc \in {"check", "tell"}
           /\ ev.type = "minimized" => ev.pc \in {"check", "load", "store", "tell"}
           /\ ev.type = "deminimized" => ev.pc \in {"check", "load", "store", "tell", "restore"}
           /\ ev.type \in {"created", "destroyed", "focused", "changed", "minimized",
                          "deminimized", "space"}
           /\ ev.type # "space" => ev.win \in Struct
<1>1. ev.type \in EventType /\ ev.pc \in Phase[ev.type]
    BY PartsHold DEF WindowInv, Shape, EvShape, Parts
<1>2. /\ Phase["created"] = {"register", "insert", "tell", "restore"}
      /\ Phase["destroyed"] = {"tell", "free"}
      /\ Phase["space"] = {"idle", "scan", "insert"}
      /\ Phase["focused"] = {"check", "tell"} /\ Phase["changed"] = {"check", "tell"}
      /\ Phase["minimized"] = {"check", "load", "store", "tell"}
      /\ Phase["deminimized"] = {"check", "load", "store", "tell", "restore"}
    BY DEF Phase
<1>3. ev.type \in {"created", "destroyed", "focused", "changed", "minimized", "deminimized", "space"}
    BY <1>1 DEF EventType
<1>4. ev.type # "space" => ev.win \in Struct
    BY PartsHold DEF WindowInv, Shape, EvShape, Parts
<1> QED
    BY <1>1, <1>2, <1>3, <1>4


(* The steps of the main thread that change what it does, not what it holds. *)
QuietMain ==
    /\ main' \in MainState /\ main'.type = main.type /\ main'.win = main.win
    /\ main.pc # "erase" /\ main'.pc \in {"scan", "idle", "post"}
    /\ main'.pc = "post" => main.pc = "flag"
    /\ main'.pc # "post" => main.pc \in {"list", "scan"}
    /\ invalid' \in [Struct -> BOOLEAN]
    /\ UNCHANGED <<screen, notes, registered, heap, minimized, windows, queue, ev, told,
                   focusDue>>


(* The main thread moves on and holds what it held.                        *)
LEMMA QuietMainStep ==
    ASSUME WindowInv, QuietMain
    PROVE  WindowInv'
<1>0. Parts
    BY PartsHold
<1>1. /\ main' \in MainState /\ main'.type = main.type /\ main'.win = main.win
      /\ main.pc # "erase" /\ main'.pc \in {"scan", "idle", "post"}
      /\ main'.pc = "post" => main.pc = "flag"
      /\ main'.pc # "post" => main.pc \in {"list", "scan"}
      /\ invalid' \in [Struct -> BOOLEAN]
      /\ UNCHANGED <<screen, notes, registered, heap, minimized, windows, queue, ev, told,
                     focusDue>>
    BY DEF QuietMain
<1>11. TypeOK'
    BY <1>0, <1>1 DEF Parts, TypeOK
<1>12. Shape'
    BY <1>0, <1>1 DEF Parts, WindowInv, Shape, WindowShape, NoteShape, QueueShape,
       MainShape, EvShape, Phase
<1>13. LookupIsLive'
    BY <1>0, <1>1 DEF Parts, WindowInv, LookupIsLive, Live
<1>14. EventsAreLive'
    BY <1>0, <1>1 DEF Parts, WindowInv, EventsAreLive, Live
<1>15. RefsAreLive'
    BY <1>0, <1>1 DEF Parts, WindowInv, RefsAreLive, Live
<1>16. FreedIsClosed'
    BY <1>0, <1>1 DEF Parts, WindowInv, FreedIsClosed
<1>17. CreatedOnce'
    BY <1>0, <1>1 DEF Parts, WindowInv, CreatedOnce
<1>18. UsesFollow'
    BY <1>0, <1>1 DEF Parts, WindowInv, UsesFollow, Introduced, Announcing
<1>19. NotYetThere'
    BY <1>0, <1>1 DEF Parts, WindowInv, NotYetThere, Live
<1>20. LastNote'
    BY <1>1 DEF WindowInv, LastNote
<1>21. MainEnds'
    BY <1>0, <1>1 DEF Parts, WindowInv, MainEnds, Silent, Inserting
<1>22. LastEvent'
    BY <1>0, <1>1 DEF Parts, WindowInv, LastEvent, Unused, Silent, Inserting
<1>23. ToldLast'
    BY <1>0, <1>1 DEF Parts, WindowInv, ToldLast
<1> QED
    BY <1>11, <1>12, <1>13, <1>14, <1>15, <1>16, <1>17, <1>18, <1>19, <1>20, <1>21,
       <1>22, <1>23 DEF WindowInv

(* These steps of the main thread touch nothing but its own position and   *)
(* the flag of its window.                                                 *)
LEMMA QuietMainSteps ==
    ASSUME WindowInv, \/ ListFirst \/ FirstDone \/ FlagInvalid
                      \/ \E id \in Id : ScanFirst(id) /\ ~CanTrack(id)
    PROVE  QuietMain
<1>1. Parts /\ MainShape
    BY PartsHold DEF WindowInv, Shape
<1> USE DEF axVars, structVars, history
<1>2. ASSUME ListFirst PROVE QuietMain
  <2>1. PICK listed \in Listed : main' = [main EXCEPT !.pc = "scan", !.todo = listed]
    BY <1>2 DEF ListFirst
  <2>2. /\ main' \in MainState /\ main'.pc = "scan"
        /\ main'.type = main.type /\ main'.win = main.win
    BY <1>1, <2>1 DEF Parts, Listed, MainState
  <2> QED
    BY <1>1, <1>2, <2>2 DEF Parts, ListFirst, QuietMain
<1>3. ASSUME FirstDone PROVE QuietMain
  <2>1. MainIdle \in MainState
    BY DEF MainIdle, MainState, Reference, EventType
  <2> QED
    BY <1>1, <1>3, <2>1 DEF Parts, FirstDone, QuietMain, MainIdle, MainShape
<1>4. ASSUME FlagInvalid PROVE QuietMain
    BY <1>1, <1>4 DEF Parts, FlagInvalid, QuietMain, MainState
<1>5. ASSUME NEW id \in Id, ScanFirst(id), ~CanTrack(id) PROVE QuietMain
  <2>1. main' = [main EXCEPT !.todo = @ \ {id}] /\ main.pc = "scan"
    BY <1>5 DEF ScanFirst
  <2>2. /\ main' \in MainState /\ main'.pc = "scan"
        /\ main'.type = main.type /\ main'.win = main.win
    BY <1>1, <2>1 DEF Parts, MainState
  <2> QED
    BY <1>1, <1>5, <2>1, <2>2 DEF Parts, ScanFirst, QuietMain
<1> QED
    BY <1>2, <1>3, <1>4, <1>5


(* The steps of the event thread that change where it is in its handler.   *)
QuietEv ==
    /\ ev' \in HandlerState
    /\ \/ /\ ev.pc \in {"scan", "check", "load", "store"} /\ ev'.type = ev.type /\ ev'.win = ev.win
          /\ ev'.pc \in {"scan", "load", "store", "tell"} /\ ev'.pc \in Phase[ev.type]
       \/ ev.pc \in {"scan", "check"} /\ ev' = EventIdle
    /\ invalid' \in [Struct -> BOOLEAN] /\ minimized' \in [Struct -> BOOLEAN]
    /\ UNCHANGED <<screen, notes, registered, heap, windows, main, queue, told, focusDue>>


(* The event thread moves on and refers to what it referred to.            *)
LEMMA QuietEvStep ==
    ASSUME WindowInv, QuietEv
    PROVE  WindowInv'
<1>0. Parts
    BY PartsHold
<1>1. /\ ev' \in HandlerState
      /\ \/ /\ ev.pc \in {"scan", "check", "load", "store"} /\ ev'.type = ev.type /\ ev'.win = ev.win
            /\ ev'.pc \in {"scan", "load", "store", "tell"} /\ ev'.pc \in Phase[ev.type]
         \/ /\ ev.pc \in {"scan", "check"}
            /\ ev'.pc = "idle" /\ ev'.type = "space" /\ ev'.win = NoWindow
      /\ invalid' \in [Struct -> BOOLEAN] /\ minimized' \in [Struct -> BOOLEAN]
      /\ UNCHANGED <<screen, notes, registered, heap, windows, main, queue, told, focusDue>>
    BY DEF QuietEv, EventIdle
<1>2. ev.type \notin {"created", "destroyed"} /\ ev.pc \notin {"insert", "free"}
    BY <1>1, EvFacts
<1>11. TypeOK'
    BY <1>0, <1>1 DEF Parts, TypeOK
<1>12. Shape'
    BY <1>0, <1>1 DEF Parts, WindowInv, Shape, WindowShape, NoteShape, QueueShape,
       MainShape, EvShape, Phase
<1>13. LookupIsLive'
    BY <1>0, <1>1 DEF Parts, WindowInv, LookupIsLive, Live
<1>14. EventsAreLive'
    BY <1>0, <1>1 DEF WindowInv, EventsAreLive, Live
<1>15. RefsAreLive'
    BY <1>0, <1>1 DEF Parts, WindowInv, RefsAreLive, Live
<1>16. FreedIsClosed'
    BY <1>0, <1>1 DEF Parts, WindowInv, FreedIsClosed
<1>17. CreatedOnce'
    BY <1>0, <1>1, <1>2 DEF WindowInv, CreatedOnce
<1>18. UsesFollow'
    BY <1>0, <1>1, <1>2 DEF WindowInv, UsesFollow, Introduced, Announcing, Parts
<1>19. NotYetThere'
    BY <1>1, <1>2 DEF WindowInv, NotYetThere, Live
<1>20. LastNote'
    BY <1>1 DEF WindowInv, LastNote
<1>21. MainEnds'
    BY <1>1, <1>2 DEF WindowInv, MainEnds, Silent, Inserting
<1>22. LastEvent'
    BY <1>0, <1>1, <1>2 DEF WindowInv, LastEvent, Unused, Silent, Inserting
<1>23. ToldLast'
    BY <1>1, <1>2 DEF WindowInv, ToldLast
<1> QED
    BY <1>11, <1>12, <1>13, <1>14, <1>15, <1>16, <1>17, <1>18, <1>19, <1>20, <1>21,
       <1>22, <1>23 DEF WindowInv

(* These steps of the event thread touch nothing but its own position and  *)
(* the flags of its window.                                                *)
LEMMA QuietEvSteps ==
    ASSUME WindowInv, \/ ScanDone \/ CheckFlags \/ LoadFlags \/ StoreFlags
                      \/ \E id \in Id : ScanWindow(id) /\ ~CanTrack(id)
    PROVE  QuietEv
<1>1. Parts /\ EvShape
    BY PartsHold DEF WindowInv, Shape
<1>2. EventIdle \in HandlerState
    BY DEF EventIdle, HandlerState, Reference, EventType
<1> USE DEF axVars, structVars, history
<1>3. ASSUME ScanDone PROVE QuietEv
    BY <1>1, <1>2, <1>3 DEF Parts, ScanDone, QuietEv, HandlerReturns
<1>4. ASSUME CheckFlags PROVE QuietEv
  <2>1. CASE ev' = EventIdle
    BY <1>1, <1>2, <1>4, <2>1 DEF Parts, CheckFlags, QuietEv
  <2>2. CASE ev' = [ev EXCEPT !.pc =
                        IF ev.type \in {"minimized", "deminimized"} THEN "load" ELSE "tell"]
    <3>1. ev' \in HandlerState /\ ev'.type = ev.type /\ ev'.win = ev.win
        BY <1>1, <2>2 DEF Parts, HandlerState
    <3>2. ev'.pc = IF ev.type \in {"minimized", "deminimized"} THEN "load" ELSE "tell"
        BY <1>1, <2>2 DEF Parts, HandlerState
    <3>3. ev.pc = "check" /\ ev.type \in EventType /\ ev.pc \in Phase[ev.type]
        BY <1>1, <1>4 DEF Parts, CheckFlags, EvShape
    <3>4. ev'.pc \in {"load", "tell"} /\ ev'.pc \in Phase[ev.type]
        BY <3>2, <3>3 DEF EventType, Phase
    <3> QED
        BY <1>1, <1>4, <3>1, <3>3, <3>4 DEF Parts, CheckFlags, QuietEv
  <2> QED
    BY <1>4, <2>1, <2>2 DEF CheckFlags, HandlerReturns, EventGoto
<1>5. ASSUME LoadFlags PROVE QuietEv
  <2>1. ev.pc = "load" /\ ev.type \in EventType /\ ev.win \in Struct
    BY <1>1, <1>5, EvFacts DEF Parts, LoadFlags
  <2>2. invalid[ev.win] \in BOOLEAN
    BY <1>1, <2>1 DEF Parts
  <2>3. \E b \in BOOLEAN : ev' = [ev EXCEPT !.pc = "store", !.loaded = b]
    BY <1>5, <2>2 DEF LoadFlags
  <2>4. /\ ev' \in HandlerState /\ ev'.type = ev.type /\ ev'.win = ev.win
        /\ ev'.pc = "store"
    <3>1. PICK b \in BOOLEAN : ev' = [ev EXCEPT !.pc = "store", !.loaded = b]
        BY <2>3
    <3>2. ev \in HandlerState
        BY <1>1 DEF Parts
    <3> QED
        BY <3>1, <3>2 DEF HandlerState
  <2>5. ev'.pc \in Phase[ev.type]
    BY <1>1, <2>1, <2>4 DEF EvShape, Phase, EventType
  <2> QED
    BY <1>1, <1>5, <2>1, <2>4, <2>5 DEF Parts, LoadFlags, QuietEv
<1>6. ASSUME StoreFlags PROVE QuietEv
  <2>1. ev.pc = "store" /\ ev.type \in EventType /\ ev.win \in Struct /\ ev.loaded \in BOOLEAN
    BY <1>1, <1>6, EvFacts DEF Parts, StoreFlags, HandlerState
  <2>2. invalid' = [invalid EXCEPT ![ev.win] = ev.loaded]
    BY <1>6 DEF StoreFlags
  <2>3. \E b \in BOOLEAN : minimized' = [minimized EXCEPT ![ev.win] = b]
    BY <1>6 DEF StoreFlags
  <2>4. invalid' \in [Struct -> BOOLEAN] /\ minimized' \in [Struct -> BOOLEAN]
    <3>1. PICK b \in BOOLEAN : minimized' = [minimized EXCEPT ![ev.win] = b]
        BY <2>3
    <3>2. invalid \in [Struct -> BOOLEAN] /\ minimized \in [Struct -> BOOLEAN]
        BY <1>1 DEF Parts
    <3> QED
        BY <2>1, <2>2, <3>1, <3>2
  <2>5. /\ ev' \in HandlerState /\ ev'.type = ev.type /\ ev'.win = ev.win
        /\ ev'.pc = "tell"
    BY <1>1, <1>6 DEF Parts, StoreFlags, EventGoto, HandlerState
  <2>6. ev'.pc \in Phase[ev.type]
    BY <1>1, <2>1, <2>5 DEF EvShape, Phase, EventType
  <2> QED
    BY <1>6, <2>1, <2>4, <2>5, <2>6 DEF StoreFlags, QuietEv
<1>7. ASSUME NEW id \in Id, ScanWindow(id), ~CanTrack(id) PROVE QuietEv
  <2>1. ev' = [ev EXCEPT !.todo = @ \ {id}] /\ ev.pc = "scan"
    BY <1>7 DEF ScanWindow
  <2>2. /\ ev' \in HandlerState /\ ev'.pc = ev.pc
        /\ ev'.type = ev.type /\ ev'.win = ev.win
    BY <1>1, <2>1 DEF Parts, HandlerState
  <2>3. ev'.pc \in Phase[ev.type]
    BY <1>1, <2>2 DEF EvShape
  <2> QED
    BY <1>1, <1>7, <2>1, <2>2, <2>3 DEF Parts, ScanWindow, QuietEv
<1> QED
    BY <1>3, <1>4, <1>5, <1>6, <1>7


(* AddApplicationWindowsToCollection allocates a struct for an open window. *)
LEMMA TrackFacts ==
    ASSUME Parts, NEW s \in Struct, CanTrack(s[1]), Track(s)
    PROVE  /\ registered' \in [Id -> Reference]
           /\ \A id \in Id : \/ registered'[id] = registered[id]
                             \/ id = s[1] /\ registered'[id] = s
           /\ heap' \in [Struct -> {"none", "live", "freed"}]
           /\ heap'[s] = "live"
           /\ \A r \in Struct : r # s => heap'[r] = heap[r]
           /\ minimized' \in [Struct -> BOOLEAN]
           /\ windows[s[1]] = NoWindow /\ screen[s[1]] # "closed"
<1>1. /\ registered' = [registered EXCEPT ![s[1]] = IF @ = NoWindow THEN s ELSE @]
      /\ heap' = [heap EXCEPT ![s] = "live"]
      /\ minimized' = [minimized EXCEPT ![s] = screen[s[1]] = "minimized"]
      /\ windows[s[1]] = NoWindow /\ screen[s[1]] # "closed"
    BY DEF Track, CanTrack
<1>2. /\ registered \in [Id -> Reference] /\ heap \in [Struct -> {"none", "live", "freed"}]
      /\ minimized \in [Struct -> BOOLEAN] /\ s \in Reference /\ s[1] \in Id
    BY DEF Parts
<1>3. (screen[s[1]] = "minimized") \in BOOLEAN
    OBVIOUS
<1>4. minimized' \in [Struct -> BOOLEAN]
    BY <1>1, <1>2, <1>3
<1> QED
    BY <1>1, <1>2, <1>4

(* The first search allocates a struct.                                    *)
LEMMA ScanFirstStep ==
    ASSUME WindowInv, NEW id \in Id, ScanFirst(id), CanTrack(id)
    PROVE  WindowInv'
<1>0. Parts
    BY PartsHold
<1>1. /\ registered' \in [Id -> Reference]
      /\ \A j \in Id : \/ registered'[j] = registered[j]
                       \/ j = id /\ registered'[j] = First(id)
      /\ heap' \in [Struct -> {"none", "live", "freed"}] /\ heap'[First(id)] = "live"
      /\ \A r \in Struct : r # First(id) => heap'[r] = heap[r]
      /\ minimized' \in [Struct -> BOOLEAN]
      /\ windows[id] = NoWindow /\ screen[id] # "closed"
      /\ main.pc = "scan" /\ main.type = "space" /\ main.win = NoWindow
      /\ main' \in MainState /\ main'.pc = "insert" /\ main'.type = main.type /\ main'.win = First(id)
      /\ UNCHANGED <<screen, notes, invalid, windows, queue, ev, told, focusDue>>
  <2>1. Track(First(id)) /\ CanTrack(First(id)[1])
    BY <1>0 DEF Parts, ScanFirst
  <2>2. /\ main' = [main EXCEPT !.todo = @ \ {id}, !.pc = "insert", !.win = First(id)]
        /\ main.pc = "scan"
    BY DEF ScanFirst
  <2>3. First(id) \in Struct /\ First(id)[1] = id /\ First(id) \in Reference
    BY <1>0 DEF Parts
  <2>4. /\ main' \in MainState /\ main'.pc = "insert"
        /\ main'.type = main.type /\ main'.win = First(id)
    BY <1>0, <2>2, <2>3 DEF Parts, MainState
  <2>5. main.type = "space" /\ main.win = NoWindow
    BY <1>0, <2>2 DEF Parts, WindowInv, Shape, MainShape
  <2>6. UNCHANGED <<screen, notes, invalid, windows, queue, ev, told, focusDue>>
    BY DEF ScanFirst, history
  <2>7. /\ registered' \in [Id -> Reference]
        /\ \A j \in Id : \/ registered'[j] = registered[j]
                         \/ j = First(id)[1] /\ registered'[j] = First(id)
        /\ heap' \in [Struct -> {"none", "live", "freed"}]
        /\ heap'[First(id)] = "live"
        /\ \A r \in Struct : r # First(id) => heap'[r] = heap[r]
        /\ minimized' \in [Struct -> BOOLEAN]
        /\ windows[First(id)[1]] = NoWindow /\ screen[First(id)[1]] # "closed"
    BY <1>0, <2>1, <2>3, TrackFacts
  <2> QED
    BY <2>2, <2>3, <2>4, <2>5, <2>6, <2>7
<1>2. First(id) \in Struct /\ First(id)[1] = id /\ First(id) \notin NotedStruct
    BY <1>0 DEF Parts
<1>4. \A j \in Id : heap'[Noted(j)] = heap[Noted(j)]
    BY <1>0, <1>1, <1>2 DEF Parts
<1>3. heap[First(id)] # "freed" /\ told[First(id)] # "destroyed"
  <2>1. heap[First(id)] # "freed"
    BY <1>1, <1>2 DEF WindowInv, FreedIsClosed
  <2>2. ~(ev.pc = "free" /\ ev.win = First(id))
    BY <1>1, <1>2, EvFacts DEF WindowInv, LastEvent, Unused, Silent
  <2> QED
    BY <1>2, <2>1, <2>2 DEF WindowInv, ToldLast
<1>11. TypeOK'
    BY <1>0, <1>1 DEF Parts, TypeOK
<1>12. Shape'
    BY <1>0, <1>1, <1>2 DEF Parts, WindowInv, Shape, WindowShape, NoteShape, QueueShape,
       MainShape, EvShape
<1>13. LookupIsLive'
    BY <1>0, <1>1, <1>2 DEF Parts, WindowInv, LookupIsLive, Live
<1>14. EventsAreLive'
    BY <1>0, <1>1, <1>2, EvFacts DEF Parts, WindowInv, EventsAreLive, Live, Shape,
       QueueShape, EvShape
<1>15. RefsAreLive'
    BY <1>0, <1>1, <1>2, SMTT(30) DEF Parts, WindowInv, RefsAreLive, Live
<1>16. FreedIsClosed'
    BY <1>1, <1>2 DEF WindowInv, FreedIsClosed
<1>17. CreatedOnce'
  <2>1. \A i \in 1..Len(notes) : notes[i].id \in Id
    BY <1>0 DEF Parts
  <2>2. CreatedOnce
    BY DEF WindowInv
  <2>3. UNCHANGED <<screen, notes, queue>>
    BY <1>1
  <2>4. ev'.type = ev.type /\ (ev.type = "created" => ev'.win = ev.win)
    BY <1>1
  <2> QED
    BY <1>4, <2>1, <2>2, <2>3, <2>4 DEF CreatedOnce
<1>18. UsesFollow'
  <2>1. UsesFollow
    BY DEF WindowInv
  <2>2. \A r \in Struct : heap'[r] = "none" => heap[r] = "none"
    BY <1>1
  <2>3. \A r : Announcing(r)' <=> Announcing(r)
    BY <1>1 DEF Announcing
  <2>4. /\ UNCHANGED <<told, queue, notes, windows>> /\ ev'.type = ev.type
        /\ ev.type = "created" => ev'.win = ev.win /\ ev'.pc = ev.pc
        /\ ev.type # "space" => ev'.win = ev.win
    BY <1>1
  <2>5. \A j \in Id : registered'[j] # NoWindow => Introduced(registered'[j])
    BY <1>1, <1>2, <2>1 DEF UsesFollow, Introduced
  <2>6. main'.win # NoWindow => Introduced(main'.win)
    BY <1>1, <1>2, <2>1 DEF UsesFollow, Introduced
  <2> QED
    BY <2>1, <2>2, <2>3, <2>4, <2>5, <2>6 DEF UsesFollow, Introduced, Announcing
<1>19. NotYetThere'
  <2>1. ev.pc = "insert" => ev.win \in Struct
    BY <1>0 DEF Parts, WindowInv, Shape, EvShape
  <2>2. \A r \in Struct : Live(r) => heap'[r] = "live"
    BY <1>1 DEF Live
  <2>3. UNCHANGED <<windows, ev>>
    BY <1>1
  <2> QED
    BY <2>1, <2>2, <2>3 DEF WindowInv, NotYetThere, Live
<1>20. LastNote'
    BY <1>1 DEF WindowInv, LastNote
<1>21. MainEnds'
    BY <1>0, <1>1 DEF Parts, WindowInv, MainEnds, Silent, Inserting
<1>22. LastEvent'
    BY <1>0, <1>1, <1>2, EvFacts DEF Parts, WindowInv, Shape, QueueShape, LastEvent,
       Unused, Silent, Inserting
<1>23. ToldLast'
    BY <1>1, <1>2, <1>3 DEF WindowInv, ToldLast
<1> QED
    BY <1>11, <1>12, <1>13, <1>14, <1>15, <1>16, <1>17, <1>18, <1>19, <1>20, <1>21,
       <1>22, <1>23 DEF WindowInv

(* UpdateWindowCollection allocates a struct.                              *)
LEMMA ScanWindowStep ==
    ASSUME WindowInv, NEW id \in Id, ScanWindow(id), CanTrack(id)
    PROVE  WindowInv'
<1>0. Parts
    BY PartsHold
<1>1. /\ registered' \in [Id -> Reference]
      /\ \A j \in Id : \/ registered'[j] = registered[j]
                       \/ j = id /\ registered'[j] = Scanned(id)
      /\ heap' \in [Struct -> {"none", "live", "freed"}] /\ heap'[Scanned(id)] = "live"
      /\ \A r \in Struct : r # Scanned(id) => heap'[r] = heap[r]
      /\ minimized' \in [Struct -> BOOLEAN]
      /\ windows[id] = NoWindow /\ screen[id] # "closed"
      /\ ev.pc = "scan" /\ ev.type = "space"
      /\ ev' \in HandlerState /\ ev'.pc = "insert" /\ ev'.type = ev.type /\ ev'.win = Scanned(id)
      /\ UNCHANGED <<screen, notes, invalid, windows, main, queue, told, focusDue>>
  <2>1. Track(Scanned(id)) /\ CanTrack(Scanned(id)[1])
    BY <1>0 DEF Parts, ScanWindow
  <2>2. /\ ev' = [ev EXCEPT !.todo = @ \ {id}, !.pc = "insert", !.win = Scanned(id)]
        /\ ev.pc = "scan"
    BY DEF ScanWindow
  <2>3. Scanned(id) \in Struct /\ Scanned(id)[1] = id /\ Scanned(id) \in Reference
    BY <1>0 DEF Parts
  <2>4. /\ ev' \in HandlerState /\ ev'.pc = "insert"
        /\ ev'.type = ev.type /\ ev'.win = Scanned(id)
    BY <1>0, <2>2, <2>3 DEF Parts, HandlerState
  <2>5. ev.type = "space"
    BY <2>2, EvFacts
  <2>6. UNCHANGED <<screen, notes, invalid, windows, main, queue, told, focusDue>>
    BY DEF ScanWindow, history
  <2>7. /\ registered' \in [Id -> Reference]
        /\ \A j \in Id : \/ registered'[j] = registered[j]
                         \/ j = Scanned(id)[1] /\ registered'[j] = Scanned(id)
        /\ heap' \in [Struct -> {"none", "live", "freed"}]
        /\ heap'[Scanned(id)] = "live"
        /\ \A r \in Struct : r # Scanned(id) => heap'[r] = heap[r]
        /\ minimized' \in [Struct -> BOOLEAN]
        /\ windows[Scanned(id)[1]] = NoWindow /\ screen[Scanned(id)[1]] # "closed"
    BY <1>0, <2>1, <2>3, TrackFacts
  <2> QED
    BY <2>2, <2>3, <2>4, <2>5, <2>6, <2>7
<1>2. Scanned(id) \in Struct /\ Scanned(id)[1] = id /\ Scanned(id) \notin NotedStruct
    BY <1>0 DEF Parts
<1>4. \A j \in Id : heap'[Noted(j)] = heap[Noted(j)]
    BY <1>0, <1>1, <1>2 DEF Parts
<1>3. heap[Scanned(id)] # "freed" /\ told[Scanned(id)] # "destroyed"
  <2>1. heap[Scanned(id)] # "freed"
    BY <1>1, <1>2 DEF WindowInv, FreedIsClosed
  <2>2. ~(ev.pc = "free" /\ ev.win = Scanned(id))
    BY <1>1, <1>2, EvFacts DEF WindowInv, LastEvent, Unused, Silent
  <2> QED
    BY <1>2, <2>1, <2>2 DEF WindowInv, ToldLast
<1>11. TypeOK'
  <2>1. (main.pc \in {"list", "scan", "idle"} <=> main.win = NoWindow)'
    BY <1>0, <1>1 DEF Parts
  <2>2. UNCHANGED <<screen, notes, invalid, windows, main, queue, told, focusDue>>
    BY <1>1
  <2>3. /\ screen' \in [Id -> {"unborn", "open", "minimized", "closed"}]
        /\ notes' \in Seq(Notification) /\ queue' \in Seq(QueuedEvent)
        /\ invalid' \in [Struct -> BOOLEAN]
        /\ windows' \in [Id -> Reference] /\ main' \in MainState
        /\ told' \in [Struct -> {"nothing", "created", "destroyed"}]
        /\ focusDue' \in [Struct -> BOOLEAN]
    BY <1>0, <2>2 DEF Parts
  <2> QED
    BY <1>1, <2>1, <2>3, Zenon DEF TypeOK
<1>12. Shape'
  <2>1. WindowShape /\ NoteShape /\ QueueShape /\ MainShape
    BY DEF WindowInv, Shape
  <2>2. NoteShape' /\ QueueShape' /\ MainShape'
    BY <1>1, <2>1 DEF NoteShape, QueueShape, MainShape
  <2>3. WindowShape'
    BY <1>1, <1>2, <2>1 DEF WindowShape
  <2>4. EvShape'
    BY <1>0, <1>1, <1>2 DEF EvShape, Phase, Parts
  <2> QED
    BY <2>2, <2>3, <2>4 DEF Shape
<1>13. LookupIsLive'
    BY <1>0, <1>1, <1>2 DEF Parts, WindowInv, LookupIsLive, Live
<1>14. EventsAreLive'
    BY <1>0, <1>1, <1>2, EvFacts DEF Parts, WindowInv, EventsAreLive, Live, Shape,
       QueueShape, EvShape
<1>15. RefsAreLive'
    BY <1>0, <1>1, <1>2, SMTT(30) DEF Parts, WindowInv, RefsAreLive, Live
<1>16. FreedIsClosed'
    BY <1>1, <1>2 DEF WindowInv, FreedIsClosed
<1>17. CreatedOnce'
  <2>1. \A i \in 1..Len(notes) : notes[i].id \in Id
    BY <1>0 DEF Parts
  <2>2. CreatedOnce
    BY DEF WindowInv
  <2>3. UNCHANGED <<screen, notes, queue>>
    BY <1>1
  <2>4. ev'.type = ev.type /\ (ev.type = "created" => ev'.win = ev.win)
    BY <1>1
  <2> QED
    BY <1>4, <2>1, <2>2, <2>3, <2>4 DEF CreatedOnce
<1>18. UsesFollow'
  <2>1. UsesFollow
    BY DEF WindowInv
  <2>2. \A r \in Struct : heap'[r] = "none" => heap[r] = "none"
    BY <1>1
  <2>3. \A r : Announcing(r)' <=> Announcing(r)
    BY <1>1 DEF Announcing
  <2>4. /\ UNCHANGED <<told, queue, notes, windows>> /\ ev'.type = ev.type
        /\ ev.type = "created" => ev'.win = ev.win /\ ev'.pc = ev.pc
        /\ ev.type # "space" => ev'.win = ev.win
    BY <1>1
  <2>5. \A j \in Id : registered'[j] # NoWindow => Introduced(registered'[j])
    BY <1>1, <1>2, <2>1 DEF UsesFollow, Introduced
  <2>6. main'.win # NoWindow => Introduced(main'.win)
    BY <1>1, <1>2, <2>1 DEF UsesFollow, Introduced
  <2> QED
    BY <2>1, <2>2, <2>3, <2>4, <2>5, <2>6 DEF UsesFollow, Introduced, Announcing
<1>19. NotYetThere'
    BY <1>0, <1>1, <1>2 DEF Parts, NotYetThere, Live
<1>20. LastNote'
    BY <1>1 DEF WindowInv, LastNote
<1>21. MainEnds'
    BY <1>0, <1>1, <1>2 DEF Parts, WindowInv, MainEnds, Silent, Inserting
<1>22. LastEvent'
    BY <1>0, <1>1, <1>2, EvFacts DEF Parts, WindowInv, Shape, QueueShape, LastEvent,
       Unused, Silent, Inserting
<1>23. ToldLast'
    BY <1>1, <1>2, <1>3 DEF WindowInv, ToldLast
<1> QED
    BY <1>11, <1>12, <1>13, <1>14, <1>15, <1>16, <1>17, <1>18, <1>19, <1>20, <1>21,
       <1>22, <1>23 DEF WindowInv


(* The first search puts its struct into the map.                          *)
LEMMA InsertFirstStep ==
    ASSUME WindowInv, InsertFirst
    PROVE  WindowInv'
<1>0. Parts
    BY PartsHold
<1>1. /\ main.pc = "insert" /\ main.type = "space" /\ main.win \in Struct /\ main.win[1] \in Id
      /\ main.win = First(main.win[1]) /\ main.win \notin NotedStruct
      /\ windows' \in [Id -> Reference] /\ windows'[main.win[1]] = main.win
      /\ \A j \in Id : j # main.win[1] => windows'[j] = windows[j]
      /\ main' \in MainState /\ main'.pc = "scan" /\ main'.type = "space" /\ main'.win = NoWindow
      /\ UNCHANGED <<screen, notes, registered, heap, invalid, minimized, queue, ev, told,
                     focusDue>>
  <2>1. /\ main.pc = "insert"
        /\ windows' = [windows EXCEPT ![main.win[1]] = main.win]
        /\ main' = [main EXCEPT !.pc = "scan", !.win = NoWindow]
        /\ UNCHANGED <<screen, notes, registered, heap, invalid, minimized, queue, ev, told,
                       focusDue>>
    BY DEF InsertFirst, axVars, history
  <2>2. /\ main.type = "space" /\ main.win \in Struct /\ main.win[1] \in Id
        /\ main.win = First(main.win[1]) /\ main.win \notin NotedStruct
    BY <1>0, <2>1 DEF Parts, WindowInv, Shape, MainShape
  <2>3. /\ main' \in MainState /\ main'.pc = "scan" /\ main'.type = main.type
        /\ main'.win = NoWindow
    BY <1>0, <2>1 DEF Parts, MainState
  <2> QED
    BY <1>0, <2>1, <2>2, <2>3 DEF Parts
<1>11. TypeOK'
    BY <1>0, <1>1 DEF Parts, TypeOK
<1>12. Shape'
  <2>1. WindowShape /\ NoteShape /\ QueueShape /\ EvShape
    BY DEF WindowInv, Shape
  <2>2. NoteShape' /\ QueueShape' /\ EvShape'
    BY <1>1, <2>1 DEF NoteShape, QueueShape, EvShape
  <2>3. WindowShape' /\ MainShape'
    BY <1>1, <2>1 DEF WindowShape, MainShape
  <2> QED
    BY <2>2, <2>3 DEF Shape
<1>13. LookupIsLive'
  <2>1. Live(main.win)
    BY <1>0, <1>1 DEF Parts, WindowInv, LookupIsLive
  <2> QED
    BY <1>1, <2>1 DEF WindowInv, LookupIsLive, Live
<1>14. EventsAreLive'
    BY <1>1 DEF WindowInv, EventsAreLive, Live
<1>15. RefsAreLive'
    BY <1>1 DEF WindowInv, RefsAreLive, Live
<1>16. FreedIsClosed'
    BY <1>0, <1>1 DEF Parts, WindowInv, FreedIsClosed
<1>17. CreatedOnce'
    BY <1>1 DEF WindowInv, CreatedOnce
<1>18. UsesFollow'
    BY <1>0, <1>1 DEF Parts, WindowInv, UsesFollow, Introduced, Announcing
<1>19. NotYetThere'
  <2>1. CASE ev.type = "space"
    BY <1>0, <1>1, <2>1 DEF WindowInv, NotYetThere, Live, Shape, EvShape, Parts
  <2>2. CASE ev.type # "space"
    BY <1>0, <1>1, <2>2, EvFacts DEF WindowInv, NotYetThere, Live, Shape, EvShape, Parts
  <2> QED
    BY <2>1, <2>2
<1>20. LastNote'
    BY <1>1 DEF WindowInv, LastNote
<1>21. MainEnds'
    BY <1>0, <1>1 DEF Parts, WindowInv, MainEnds, Silent, Inserting
<1>22. LastEvent'
  <2>1. LastEvent
    BY DEF WindowInv
  <2>2. \A s \in Struct : Unused(s) => Unused(s)'
    BY <1>0, <1>1 DEF Unused, Silent, Inserting, Parts
  <2>3. /\ \A i \in 1..Len(queue) : queue[i].type = "destroyed" => queue[i].win \in Struct
        /\ ev.type = "destroyed" => ev.win \in Struct
    BY <1>0, EvFacts DEF Parts, WindowInv, Shape, QueueShape
  <2> QED
    BY <1>1, <2>1, <2>2, <2>3 DEF LastEvent
<1>23. ToldLast'
    BY <1>0, <1>1 DEF Parts, WindowInv, ToldLast
<1> QED
    BY <1>11, <1>12, <1>13, <1>14, <1>15, <1>16, <1>17, <1>18, <1>19, <1>20, <1>21,
       <1>22, <1>23 DEF WindowInv


(* The space changes: an event without a window.                           *)
LEMMA SwitchSpaceStep ==
    ASSUME WindowInv, SwitchSpace
    PROVE  WindowInv'
<1>0. Parts
    BY PartsHold
<1>1. /\ queue' \in Seq(QueuedEvent) /\ DOMAIN queue' = 1..Len(queue')
      /\ Len(queue) \in Nat /\ Len(queue') = Len(queue) + 1
      /\ \A i \in 1..Len(queue') :
            \/ i \in 1..Len(queue) /\ queue'[i] = queue[i]
            \/ i = Len(queue') /\ queue'[i].type = "space" /\ queue'[i].win = NoWindow
      /\ UNCHANGED <<screen, notes, registered, heap, invalid, minimized, windows, main, ev,
                     told, focusDue>>
  <2>1. Post("space", NoWindow) /\ "space" \in EventType /\ NoWindow \in Reference
    BY <1>0 DEF SwitchSpace, EventType, Parts
  <2>2. /\ queue' \in Seq(QueuedEvent) /\ Len(queue) \in Nat /\ Len(queue') = Len(queue) + 1
        /\ \A i \in 1..Len(queue') :
              \/ i \in 1..Len(queue) /\ queue'[i] = queue[i]
              \/ i = Len(queue') /\ queue'[i].type = "space" /\ queue'[i].win = NoWindow
    BY <2>1, PostFacts DEF WindowInv
  <2>3. DOMAIN queue' = 1..Len(queue')
    BY <2>2, SeqFacts
  <2> QED
    BY <2>2, <2>3 DEF SwitchSpace, axVars, structVars, history
<1>11. TypeOK'
    BY <1>0, <1>1, Zenon DEF Parts, TypeOK
<1>12. Shape'
  <2>1. WindowShape /\ NoteShape /\ QueueShape /\ MainShape /\ EvShape
    BY DEF WindowInv, Shape
  <2>2. WindowShape' /\ NoteShape'
    BY <1>1, <2>1 DEF WindowShape, NoteShape
  <2>3. QueueShape'
    <3> SUFFICES ASSUME NEW i \in 1..Len(queue')
                 PROVE  /\ queue'[i].type = "space" <=> queue'[i].win = NoWindow
                        /\ queue'[i].type = "created" => queue'[i].win \in NotedStruct
        BY DEF QueueShape
    <3>1. CASE i \in 1..Len(queue) /\ queue'[i] = queue[i]
        BY <2>1, <3>1 DEF QueueShape
    <3>2. CASE i = Len(queue') /\ i \notin 1..Len(queue)
        BY <3>2, <1>0, <1>1 DEF Parts
    <3> QED
        BY <1>1, <3>1, <3>2
  <2>4. MainShape' /\ EvShape'
    BY <1>0, <1>1, <2>1 DEF MainShape, EvShape, Phase, Parts
  <2> QED
    BY <2>2, <2>3, <2>4 DEF Shape
<1>13. LookupIsLive'
    BY <1>1 DEF WindowInv, LookupIsLive, Live
<1>14. EventsAreLive'
    BY <1>0, <1>1 DEF Parts, WindowInv, EventsAreLive, Live
<1>15. RefsAreLive'
    BY <1>1 DEF WindowInv, RefsAreLive, Live
<1>16. FreedIsClosed'
    BY <1>0, <1>1 DEF Parts, WindowInv, FreedIsClosed
<1>17. CreatedOnce'
    BY <1>1 DEF WindowInv, CreatedOnce
<1>18. UsesFollow'
    BY <1>1 DEF WindowInv, UsesFollow, Introduced, Announcing
<1>19. NotYetThere'
    BY <1>1 DEF WindowInv, NotYetThere, Live
<1>20. LastNote'
    BY <1>1 DEF WindowInv, LastNote
<1>21. MainEnds'
    BY <1>1 DEF WindowInv, MainEnds, Silent, Inserting
<1>22. LastEvent'
  <2>1. LastEvent
    BY DEF WindowInv
  <2>2. /\ \A i \in 1..Len(queue) : queue[i].type = "destroyed" => queue[i].win # NoWindow
        /\ ev.type = "destroyed" => ev.win # NoWindow
    BY <1>0, EvFacts DEF Parts, WindowInv, Shape, QueueShape
  <2> QED
    BY <1>1, <2>1, <2>2, SMTT(30) DEF LastEvent, Unused, Silent, Inserting
<1>23. ToldLast'
    BY <1>1 DEF WindowInv, ToldLast
<1> QED
    BY <1>11, <1>12, <1>13, <1>14, <1>15, <1>16, <1>17, <1>18, <1>19, <1>20, <1>21,
       <1>22, <1>23 DEF WindowInv

(* The main thread adds the event for the struct that it holds.            *)
LEMMA PostEventStep ==
    ASSUME WindowInv, PostEvent
    PROVE  WindowInv'
<1>0. Parts
    BY PartsHold
<1>1. /\ queue' \in Seq(QueuedEvent) /\ DOMAIN queue' = 1..Len(queue')
      /\ Len(queue) \in Nat /\ Len(queue') = Len(queue) + 1
      /\ \A i \in 1..Len(queue') :
            \/ i \in 1..Len(queue) /\ queue'[i] = queue[i]
            \/ i = Len(queue') /\ queue'[i].type = main.type /\ queue'[i].win = main.win
      /\ main.pc = "post" /\ main.type \notin {"space", "created"} /\ main.win \in Struct
      /\ main' = MainIdle /\ main' \in MainState /\ main'.pc = "idle"
      /\ main'.type = "space" /\ main'.win = NoWindow
      /\ UNCHANGED <<screen, notes, registered, heap, invalid, minimized, windows, ev, told,
                     focusDue>>
  <2>1. /\ Post(main.type, main.win) /\ main.type \in EventType /\ main.win \in Reference
        /\ main.pc = "post"
    BY <1>0 DEF PostEvent, Parts
  <2>2. /\ queue' \in Seq(QueuedEvent) /\ Len(queue) \in Nat /\ Len(queue') = Len(queue) + 1
        /\ \A i \in 1..Len(queue') :
              \/ i \in 1..Len(queue) /\ queue'[i] = queue[i]
              \/ i = Len(queue') /\ queue'[i].type = main.type /\ queue'[i].win = main.win
    BY <2>1, PostFacts DEF WindowInv
  <2>3. DOMAIN queue' = 1..Len(queue')
    BY <2>2, SeqFacts
  <2>4. main.type \notin {"space", "created"} /\ main.win \in Struct
    BY <1>0, <2>1 DEF Parts, WindowInv, Shape, MainShape
  <2>5. /\ MainIdle \in MainState /\ MainIdle.pc = "idle"
        /\ MainIdle.type = "space" /\ MainIdle.win = NoWindow
    BY DEF MainIdle, MainState, Reference, EventType
  <2> QED
    BY <2>1, <2>2, <2>3, <2>4, <2>5 DEF PostEvent, axVars, structVars, history
<1>11. TypeOK'
    BY <1>0, <1>1, Zenon DEF Parts, TypeOK
<1>12. Shape'
  <2>1. WindowShape /\ NoteShape /\ QueueShape /\ MainShape /\ EvShape
    BY DEF WindowInv, Shape
  <2>2. WindowShape' /\ NoteShape'
    BY <1>1, <2>1 DEF WindowShape, NoteShape
  <2>3. QueueShape'
    <3> SUFFICES ASSUME NEW i \in 1..Len(queue')
                 PROVE  /\ queue'[i].type = "space" <=> queue'[i].win = NoWindow
                        /\ queue'[i].type = "created" => queue'[i].win \in NotedStruct
        BY DEF QueueShape
    <3>1. CASE i \in 1..Len(queue) /\ queue'[i] = queue[i]
        BY <2>1, <3>1 DEF QueueShape
    <3>2. CASE i = Len(queue') /\ i \notin 1..Len(queue)
        BY <3>2, <1>0, <1>1 DEF Parts
    <3> QED
        BY <1>1, <3>1, <3>2
  <2>4. MainShape' /\ EvShape'
    BY <1>0, <1>1, <2>1 DEF MainShape, EvShape, Phase, Parts
  <2> QED
    BY <2>2, <2>3, <2>4 DEF Shape
<1>13. LookupIsLive'
    BY <1>1 DEF WindowInv, LookupIsLive, Live
<1>14. EventsAreLive'
  <2>1. Live(main.win)
    BY <1>0, <1>1 DEF Parts, WindowInv, LookupIsLive
  <2> QED
    BY <1>0, <1>1, <2>1 DEF Parts, WindowInv, EventsAreLive, Live
<1>15. RefsAreLive'
    BY <1>1 DEF WindowInv, RefsAreLive, Live
<1>16. FreedIsClosed'
    BY <1>0, <1>1 DEF Parts, WindowInv, FreedIsClosed
<1>17. CreatedOnce'
    BY <1>1 DEF WindowInv, CreatedOnce
<1>18. UsesFollow'
  <2>1. UsesFollow /\ Introduced(main.win)
    BY <1>0, <1>1 DEF Parts, WindowInv, UsesFollow
  <2>2. \A i \in 1..Len(queue') : queue'[i].type \notin {"created", "space"} =>
            Introduced(queue'[i].win)
    BY <1>1, <2>1 DEF UsesFollow
  <2> QED
    BY <1>1, <2>1, <2>2 DEF UsesFollow, Introduced, Announcing
<1>19. NotYetThere'
    BY <1>1 DEF WindowInv, NotYetThere, Live
<1>20. LastNote'
    BY <1>1 DEF WindowInv, LastNote
<1>21. MainEnds'
    BY <1>1 DEF MainEnds
<1>22. LastEvent'
  <2>1. LastEvent
    BY DEF WindowInv
  <2>2. \A s \in Struct : Unused(s) => Unused(s)' /\ main.win # s
    BY <1>0, <1>1 DEF Unused, Silent, Inserting, Parts
  <2>3. /\ \A i \in 1..Len(queue) : queue[i].type = "destroyed" => queue[i].win \in Struct
        /\ ev.type = "destroyed" => ev.win \in Struct
    BY <1>0, EvFacts DEF Parts, WindowInv, Shape, QueueShape
  <2>4. PICK w \in Struct : w = main.win
    BY <1>1
  <2>8. main.type = "destroyed" => Unused(w)'
    BY <1>0, <1>1, <2>4 DEF Parts, WindowInv, MainEnds, Unused, Silent, Inserting
  <2>5. \A i \in 1..Len(queue'), s \in Struct :
            queue'[i].type = "destroyed" /\ queue'[i].win = s => Unused(s)'
    BY <1>1, <2>1, <2>2, <2>3, <2>4, <2>8 DEF LastEvent
  <2>9. \A i \in 1..Len(queue') : queue'[i].type = "destroyed" => queue'[i].win \in Struct
    BY <1>1, <2>3
  <2>6. \A i, j \in 1..Len(queue') :
            queue'[i].type = "destroyed" /\ i < j /\ queue'[j].win = queue'[i].win
                => queue'[j].type = "focused"
    BY <1>1, <2>1, <2>2, <2>3 DEF LastEvent
  <2>7. ev.type = "destroyed" =>
            /\ Unused(ev.win)'
            /\ \A j \in 1..Len(queue') : queue'[j].win = ev.win => queue'[j].type = "focused"
    BY <1>1, <2>1, <2>2, <2>3 DEF LastEvent
  <2> QED
    BY <1>1, <2>5, <2>6, <2>7, <2>9 DEF LastEvent
<1>23. ToldLast'
    BY <1>1 DEF WindowInv, ToldLast
<1> QED
    BY <1>11, <1>12, <1>13, <1>14, <1>15, <1>16, <1>17, <1>18, <1>19, <1>20, <1>21,
       <1>22, <1>23 DEF WindowInv

(* A handler restores the focus of its struct and returns.                 *)
LEMMA RestoreFocusStep ==
    ASSUME WindowInv, RestoreFocus
    PROVE  WindowInv'
<1>0. Parts
    BY PartsHold
<1>1. /\ queue' \in Seq(QueuedEvent) /\ DOMAIN queue' = 1..Len(queue')
      /\ Len(queue) \in Nat /\ Len(queue') = Len(queue) + 1
      /\ \A i \in 1..Len(queue') :
            \/ i \in 1..Len(queue) /\ queue'[i] = queue[i]
            \/ i = Len(queue') /\ queue'[i].type = "focused" /\ queue'[i].win = ev.win
      /\ ev.pc = "restore" /\ ev.type \in {"created", "deminimized"} /\ ev.win \in Struct
      /\ ev' \in HandlerState /\ ev'.pc = "idle" /\ ev'.type = "space" /\ ev'.win = NoWindow
      /\ UNCHANGED <<screen, notes, registered, heap, invalid, minimized, windows, main, told,
                     focusDue>>
  <2>1. /\ Post("focused", ev.win) /\ "focused" \in EventType /\ ev.win \in Reference
        /\ ev.pc = "restore"
    BY <1>0 DEF RestoreFocus, Parts, EventType
  <2>2. /\ queue' \in Seq(QueuedEvent) /\ Len(queue) \in Nat /\ Len(queue') = Len(queue) + 1
        /\ \A i \in 1..Len(queue') :
              \/ i \in 1..Len(queue) /\ queue'[i] = queue[i]
              \/ i = Len(queue') /\ queue'[i].type = "focused" /\ queue'[i].win = ev.win
    BY <2>1, PostFacts DEF WindowInv
  <2>3. DOMAIN queue' = 1..Len(queue')
    BY <2>2, SeqFacts
  <2>4. ev.type \in {"created", "deminimized"} /\ ev.win \in Struct
    BY <2>1, EvFacts
  <2>5. /\ EventIdle \in HandlerState /\ EventIdle.pc = "idle"
        /\ EventIdle.type = "space" /\ EventIdle.win = NoWindow
    BY DEF EventIdle, HandlerState, Reference, EventType
  <2> QED
    BY <2>1, <2>2, <2>3, <2>4, <2>5 DEF RestoreFocus, HandlerReturns, axVars, structVars, history
<1>11. TypeOK'
    BY <1>0, <1>1, Zenon DEF Parts, TypeOK
<1>12. Shape'
  <2>1. WindowShape /\ NoteShape /\ QueueShape /\ MainShape /\ EvShape
    BY DEF WindowInv, Shape
  <2>2. WindowShape' /\ NoteShape'
    BY <1>1, <2>1 DEF WindowShape, NoteShape
  <2>3. QueueShape'
    <3> SUFFICES ASSUME NEW i \in 1..Len(queue')
                 PROVE  /\ queue'[i].type = "space" <=> queue'[i].win = NoWindow
                        /\ queue'[i].type = "created" => queue'[i].win \in NotedStruct
        BY DEF QueueShape
    <3>1. CASE i \in 1..Len(queue) /\ queue'[i] = queue[i]
        BY <2>1, <3>1 DEF QueueShape
    <3>2. CASE i = Len(queue') /\ i \notin 1..Len(queue)
        BY <3>2, <1>0, <1>1 DEF Parts
    <3> QED
        BY <1>1, <3>1, <3>2
  <2>4. MainShape' /\ EvShape'
    BY <1>0, <1>1, <2>1 DEF MainShape, EvShape, Phase, Parts
  <2> QED
    BY <2>2, <2>3, <2>4 DEF Shape
<1>13. LookupIsLive'
    BY <1>1 DEF WindowInv, LookupIsLive, Live
<1>14. EventsAreLive'
    BY <1>0, <1>1 DEF Parts, WindowInv, EventsAreLive, Live
<1>15. RefsAreLive'
    BY <1>1 DEF WindowInv, RefsAreLive, Live
<1>16. FreedIsClosed'
    BY <1>0, <1>1 DEF Parts, WindowInv, FreedIsClosed
<1>17. CreatedOnce'
    BY <1>1 DEF WindowInv, CreatedOnce
<1>18. UsesFollow'
  <2>1. UsesFollow
    BY DEF WindowInv
  <2>2. ev.win \in NotedStruct => told[ev.win] # "nothing"
    BY <1>1, <2>1 DEF UsesFollow
  <2>3. \A s : Introduced(s) => (s \in NotedStruct => told[s] # "nothing")
    BY <1>1 DEF Introduced, Announcing
  <2>4. \A i \in 1..Len(queue') : queue'[i].type \notin {"created", "space"} =>
            (queue'[i].win \in NotedStruct => told[queue'[i].win] # "nothing")
    BY <1>1, <2>1, <2>2, <2>3 DEF UsesFollow
  <2> QED
    BY <1>1, <2>1, <2>3, <2>4 DEF UsesFollow, Introduced, Announcing
<1>19. NotYetThere'
    BY <1>1 DEF WindowInv, NotYetThere, Live
<1>20. LastNote'
    BY <1>1 DEF WindowInv, LastNote
<1>21. MainEnds'
    BY <1>1 DEF WindowInv, MainEnds, Silent, Inserting
<1>22. LastEvent'
  <2>1. LastEvent
    BY DEF WindowInv
  <2>2. \A s \in Struct : Unused(s) => Unused(s)'
    BY <1>0, <1>1 DEF Unused, Silent, Inserting, Parts
  <2>3. \A i \in 1..Len(queue) : queue[i].type = "destroyed" => queue[i].win \in Struct
    BY <1>0 DEF Parts, WindowInv, Shape, QueueShape
  <2> QED
    BY <1>1, <2>1, <2>2, <2>3 DEF LastEvent, Unused, Silent, Inserting
<1>23. ToldLast'
    BY <1>1 DEF WindowInv, ToldLast
<1> QED
    BY <1>11, <1>12, <1>13, <1>14, <1>15, <1>16, <1>17, <1>18, <1>19, <1>20, <1>21,
       <1>22, <1>23 DEF WindowInv


(* The main thread takes a notification and goes on with the struct that   *)
(* it stands for, or drops it.                                             *)
MainHolds ==
    /\ MainHandles(EventType \ {"created"})
    /\ main' \in MainState
    /\ \/ main'.pc = "idle" /\ main'.type = "space" /\ main'.win = NoWindow
       \/ /\ main'.pc \in {"post", "erase"} /\ main'.type \notin {"space", "created"}
          /\ main'.win \in Struct /\ main'.win[1] = notes[1].id
          /\ Live(main'.win) /\ Introduced(main'.win)
          /\ main'.pc = "erase" => main'.type = "destroyed"
          /\ main'.type = "destroyed" =>
                /\ main'.pc = "erase" /\ notes[1].kind = "destroyed"
                /\ windows[main'.win[1]] = main'.win
    /\ UNCHANGED <<screen, registered, heap, invalid, minimized, windows, queue, ev, told,
                   focusDue>>


(* The struct is in use, and it is the last use if its window is destroyed. *)
LEMMA MainHoldsStep ==
    ASSUME WindowInv, MainHolds
    PROVE  WindowInv'
<1>0. Parts
    BY PartsHold
<1>1. /\ notes' \in Seq(Notification) /\ Len(notes) \in Nat /\ 1 \in 1..Len(notes)
      /\ Len(notes') = Len(notes) - 1
      /\ \A i \in 1..Len(notes') : i + 1 \in 1..Len(notes) /\ notes'[i] = notes[i + 1]
      /\ notes[1].id \in Id /\ notes[1].kind \in EventType \ {"space"} /\ notes[1].ref \in Reference
      /\ main' \in MainState
      /\ \/ main'.pc = "idle" /\ main'.type = "space" /\ main'.win = NoWindow
         \/ /\ main'.pc \in {"post", "erase"} /\ main'.type \notin {"space", "created"}
            /\ main'.win \in Struct /\ main'.win[1] = notes[1].id
            /\ Live(main'.win) /\ Introduced(main'.win)
            /\ main'.pc = "erase" => main'.type = "destroyed"
            /\ main'.type = "destroyed" =>
                    /\ main'.pc = "erase" /\ notes[1].kind = "destroyed"
                    /\ windows[main'.win[1]] = main'.win
      /\ UNCHANGED <<screen, registered, heap, invalid, minimized, windows, queue, ev, told,
                     focusDue>>
  <2>1. MainHandles(EventType \ {"created"})
    BY DEF MainHolds
  <2> QED
    BY <2>1, MainTakes DEF MainHolds, WindowInv
<1>11. TypeOK'
  <2>1. (main.pc \in {"list", "scan", "idle"} <=> main.win = NoWindow)'
    BY <1>0, <1>1 DEF Parts
  <2> QED
    BY <1>0, <1>1, <2>1, Zenon DEF Parts, TypeOK
<1>12. Shape'
  <2>1. WindowShape /\ NoteShape /\ QueueShape /\ MainShape /\ EvShape
    BY DEF WindowInv, Shape
  <2>2. WindowShape' /\ EvShape'
    BY <1>1, <2>1 DEF WindowShape, EvShape
  <2>3. NoteShape'
    BY <1>1, <2>1 DEF NoteShape
  <2>4. MainShape'
    BY <1>1, <2>1 DEF MainShape, MainIdle
  <2>5. QueueShape'
    BY <1>1, <2>1 DEF QueueShape
  <2> QED
    BY <2>2, <2>3, <2>4, <2>5 DEF Shape
<1>13. LookupIsLive'
    BY <1>1 DEF WindowInv, LookupIsLive, Live
<1>14. EventsAreLive'
    BY <1>1 DEF WindowInv, EventsAreLive, Live
<1>15. RefsAreLive'
    BY <1>1 DEF WindowInv, RefsAreLive, Live
<1>16. FreedIsClosed'
    BY <1>0, <1>1 DEF Parts, WindowInv, FreedIsClosed
<1>17. CreatedOnce'
  <2>1. CreatedOnce
    BY DEF WindowInv
  <2>2. \A i, j \in 1..Len(notes') :
            notes'[i].kind = "created" /\ notes'[j].kind = "created" /\ notes'[i].id = notes'[j].id
                => i + 1 = j + 1
    BY <1>1, <2>1, SMTT(30) DEF CreatedOnce
  <2>3. \A i, j \in 1..Len(notes') : i + 1 = j + 1 => i = j
    BY <1>1
  <2> QED
    BY <1>1, <2>1, <2>2, <2>3 DEF CreatedOnce
<1>18. UsesFollow'
  <2>1. UsesFollow
    BY DEF WindowInv
  <2>2. \A i \in 1..Len(notes') : notes'[i].ref # NoWindow => Introduced(notes'[i].ref)
    BY <1>1, <2>1 DEF UsesFollow
  <2> QED
    BY <1>1, <2>1, <2>2 DEF UsesFollow, Introduced, Announcing
<1>19. NotYetThere'
    BY <1>1 DEF WindowInv, NotYetThere, Live
<1>20. LastNote'
  <2>1. LastNote
    BY DEF WindowInv
  <2> SUFFICES ASSUME NEW i \in 1..Len(notes'), notes'[i].kind = "destroyed"
               PROVE  /\ screen'[notes'[i].id] = "closed"
                      /\ \A j \in 1..Len(notes') : i < j => notes'[j].id # notes'[i].id
    BY DEF LastNote
  <2>2. /\ screen[notes[i + 1].id] = "closed"
        /\ \A j \in 1..Len(notes) : i + 1 < j => notes[j].id # notes[i + 1].id
    BY <1>1, <2>1 DEF LastNote
  <2>3. \A j \in 1..Len(notes') : i < j => i + 1 < j + 1
    BY <1>1
  <2> QED
    BY <1>1, <2>2, <2>3
<1>21. MainEnds'
  <2>1. CASE main'.type = "destroyed"
    <3>1. PICK w \in Struct : w = main'.win
        BY <1>1, <2>1
    <3>2. w[1] = notes[1].id /\ windows[w[1]] = w /\ notes[1].kind = "destroyed" /\ main'.pc = "erase"
        BY <1>1, <2>1, <3>1
    <3>3. screen[w[1]] = "closed" /\ \A j \in 1..Len(notes) : 1 < j => notes[j].id # w[1]
        BY <1>1, <3>2 DEF WindowInv, LastNote
    <3>4. \A j \in 1..Len(notes') : 1 < j + 1
        BY <1>1
    <3>5. Silent(w[1])'
        BY <1>1, <3>3, <3>4 DEF Silent
    <3>6. ~Inserting(w)'
        BY <1>1, <3>2 DEF WindowInv, NotYetThere, Inserting
    <3> QED
        BY <3>1, <3>2, <3>5, <3>6 DEF MainEnds, Silent, Inserting
  <2>2. CASE main'.type # "destroyed"
    BY <2>2 DEF MainEnds
  <2> QED
    BY <2>1, <2>2
<1>22. LastEvent'
  <2>1. LastEvent
    BY DEF WindowInv
  <2>4. \A k : Silent(k) => Silent(k)' /\ notes[1].id # k
    BY <1>1 DEF Silent
  <2>5. main'.win # NoWindow => main'.win[1] = notes[1].id
    BY <1>1
  <2>2. \A s \in Struct : Unused(s) => Unused(s)'
    BY <1>0, <1>1, <2>4, <2>5 DEF Unused, Inserting, Parts
  <2>3. /\ \A i \in 1..Len(queue) : queue[i].type = "destroyed" => queue[i].win \in Struct
        /\ ev.type = "destroyed" => ev.win \in Struct
    BY <1>0, EvFacts DEF Parts, WindowInv, Shape, QueueShape
  <2> QED
    BY <1>1, <2>1, <2>2, <2>3 DEF LastEvent
<1>23. ToldLast'
    BY <1>1 DEF WindowInv, ToldLast
<1> QED
    BY <1>11, <1>12, <1>13, <1>14, <1>15, <1>16, <1>17, <1>18, <1>19, <1>20, <1>21,
       <1>22, <1>23 DEF WindowInv

(* The callbacks of the observer end with a struct of the window in hand,  *)
(* or with none.                                                           *)
LEMMA NotifySteps ==
    ASSUME WindowInv, NotifyLookup \/ NotifyMinimized \/ NotifyDestroyed
    PROVE  MainHolds
<1>0. Parts /\ WindowShape /\ NoteShape
    BY PartsHold DEF WindowInv, Shape
<1>1. /\ MainIdle \in MainState /\ MainIdle.pc = "idle"
      /\ MainIdle.type = "space" /\ MainIdle.win = NoWindow
    BY DEF MainIdle, MainState, Reference, EventType
<1>3. \A id \in Id : windows[id] # NoWindow =>
        /\ windows[id] \in Struct /\ windows[id] \in Reference /\ windows[id][1] = id
        /\ Live(windows[id]) /\ Introduced(windows[id])
    BY <1>0 DEF Parts, WindowShape, WindowInv, LookupIsLive, UsesFollow
<1> USE DEF axVars, structVars, history
<1>4. ASSUME NotifyLookup PROVE MainHolds
  <2>1. MainHandles(Lookup)
    BY <1>4 DEF NotifyLookup
  <2>2. /\ notes[1].kind \in Lookup /\ notes[1].id \in Id
        /\ Head(notes) = notes[1] /\ main = MainIdle
    BY <2>1, MainTakes DEF WindowInv
  <2>3. /\ Lookup \subseteq EventType /\ "created" \notin Lookup /\ "space" \notin Lookup
        /\ "destroyed" \notin Lookup
    BY DEF Lookup, EventType
  <2>4. MainHandles(EventType \ {"created"})
    BY <2>1, <2>3 DEF MainHandles
  <2>5. UNCHANGED <<screen, registered, heap, invalid, minimized, windows, queue, ev, told,
                    focusDue>>
    BY <1>4 DEF NotifyLookup
  <2>6. CASE main' = main
    BY <1>1, <2>2, <2>4, <2>5, <2>6 DEF MainHolds
  <2>7. CASE main' # main
    <3>1. PICK w : w = windows[notes[1].id]
        OBVIOUS
    <3>2. /\ w # NoWindow
          /\ main' = [MainIdle EXCEPT !.pc = "post", !.type = notes[1].kind, !.win = w]
        BY <1>4, <2>2, <2>7, <3>1 DEF NotifyLookup
    <3>3. w \in Struct /\ w \in Reference /\ w[1] = notes[1].id /\ Live(w) /\ Introduced(w)
        BY <1>3, <2>2, <3>1, <3>2
    <3>4. /\ main' \in MainState /\ main'.pc = "post" /\ main'.type = notes[1].kind
          /\ main'.win = w
        BY <1>1, <2>2, <2>3, <3>2, <3>3 DEF MainState
    <3> QED
        BY <2>2, <2>3, <2>4, <2>5, <3>3, <3>4 DEF MainHolds
  <2> QED
    BY <2>6, <2>7
<1>5. ASSUME NotifyMinimized PROVE MainHolds
  <2>1. MainHandles({"minimized", "deminimized"})
    BY <1>5 DEF NotifyMinimized
  <2>2. /\ notes[1].kind \in {"minimized", "deminimized"} /\ notes[1].id \in Id
        /\ Head(notes) = notes[1] /\ 1 \in 1..Len(notes)
    BY <2>1, MainTakes DEF WindowInv
  <2>3. MainHandles(EventType \ {"created"})
    BY <2>1 DEF MainHandles, EventType
  <2>4. UNCHANGED <<screen, registered, heap, invalid, minimized, windows, queue, ev, told,
                    focusDue>>
    BY <1>5 DEF NotifyMinimized
  <2>5. PICK w : w = notes[1].ref
    OBVIOUS
  <2>6. w # NoWindow /\ w[1] = notes[1].id
    BY <1>0, <2>2, <2>5 DEF NoteShape
  <2>7. w \in Struct /\ w \in Reference /\ Live(w) /\ Introduced(w)
    BY <1>0, <2>2, <2>5, <2>6 DEF Parts, WindowInv, RefsAreLive, UsesFollow
  <2>8. main' = [MainIdle EXCEPT !.pc = "post", !.type = notes[1].kind, !.win = w]
    BY <1>5, <2>2, <2>5 DEF NotifyMinimized
  <2>9. notes[1].kind \in EventType /\ notes[1].kind \notin {"space", "created", "destroyed"}
    BY <2>2 DEF EventType
  <2>10. /\ main' \in MainState /\ main'.pc = "post" /\ main'.type = notes[1].kind
         /\ main'.win = w
    BY <1>1, <2>7, <2>8, <2>9 DEF MainState
  <2> QED
    BY <2>3, <2>4, <2>6, <2>7, <2>9, <2>10 DEF MainHolds
<1>6. ASSUME NotifyDestroyed PROVE MainHolds
  <2>1. MainHandles({"destroyed"})
    BY <1>6 DEF NotifyDestroyed
  <2>2. /\ notes[1].kind = "destroyed" /\ notes[1].id \in Id
        /\ Head(notes) = notes[1]
    BY <2>1, MainTakes DEF WindowInv
  <2>3. MainHandles(EventType \ {"created"})
    BY <2>1 DEF MainHandles, EventType
  <2>4. UNCHANGED <<screen, registered, heap, invalid, minimized, windows, queue, ev, told,
                    focusDue>>
    BY <1>6 DEF NotifyDestroyed
  <2>5. PICK w : w = windows[notes[1].id]
    OBVIOUS
  <2>6. CASE w = NoWindow
    <3>1. main' = MainIdle
        BY <1>6, <2>2, <2>5, <2>6 DEF NotifyDestroyed
    <3> QED
        BY <1>1, <2>3, <2>4, <3>1 DEF MainHolds
  <2>7. CASE w # NoWindow
    <3>1. main' = [MainIdle EXCEPT !.pc = "erase", !.type = "destroyed", !.win = w]
        BY <1>6, <2>2, <2>5, <2>7 DEF NotifyDestroyed
    <3>2. w \in Struct /\ w \in Reference /\ w[1] = notes[1].id /\ Live(w) /\ Introduced(w)
        BY <1>3, <2>2, <2>5, <2>7
    <3>3. /\ main' \in MainState /\ main'.pc = "erase" /\ main'.type = "destroyed"
          /\ main'.win = w
        BY <1>1, <3>1, <3>2 DEF MainState, EventType
    <3> QED
        BY <2>2, <2>3, <2>4, <2>5, <3>2, <3>3 DEF MainHolds
  <2> QED
    BY <2>6, <2>7
<1> QED
    BY <1>4, <1>5, <1>6


(* A struct is allocated for a new window, and its creation event added.   *)
LEMMA NotifyCreatedStep ==
    ASSUME WindowInv, NotifyCreated
    PROVE  WindowInv'
<1>0. Parts
    BY PartsHold
<1>1. /\ notes' \in Seq(Notification) /\ Len(notes) \in Nat /\ 1 \in 1..Len(notes)
      /\ Len(notes') = Len(notes) - 1
      /\ \A i \in 1..Len(notes') : i + 1 \in 1..Len(notes) /\ notes'[i] = notes[i + 1]
      /\ notes[1].id \in Id /\ notes[1].kind \in EventType \ {"space"} /\ notes[1].ref \in Reference
      /\ notes[1].kind = "created" /\ main = MainIdle /\ main.type = "space" /\ main.win = NoWindow
      /\ queue' \in Seq(QueuedEvent) /\ DOMAIN queue' = 1..Len(queue')
      /\ Len(queue) \in Nat /\ Len(queue') = Len(queue) + 1
      /\ \A i \in 1..Len(queue') :
            \/ i \in 1..Len(queue) /\ queue'[i] = queue[i]
            \/ i = Len(queue') /\ queue'[i].type = "created" /\ queue'[i].win = Noted(notes[1].id)
      /\ heap' \in [Struct -> {"none", "live", "freed"}] /\ heap'[Noted(notes[1].id)] = "live"
      /\ \A r \in Struct : r # Noted(notes[1].id) => heap'[r] = heap[r]
      /\ minimized' \in [Struct -> BOOLEAN]
      /\ UNCHANGED <<screen, registered, invalid, windows, main, ev, told, focusDue>>
  <2>1. MainHandles({"created"})
    BY DEF NotifyCreated
  <2>2. /\ notes' \in Seq(Notification) /\ Len(notes) \in Nat /\ 1 \in 1..Len(notes)
        /\ Len(notes') = Len(notes) - 1
        /\ \A i \in 1..Len(notes') : i + 1 \in 1..Len(notes) /\ notes'[i] = notes[i + 1]
        /\ notes[1].id \in Id /\ notes[1].kind \in EventType \ {"space"}
        /\ notes[1].ref \in Reference /\ Head(notes) = notes[1]
        /\ notes[1].kind = "created" /\ main = MainIdle
    BY <2>1, MainTakes DEF WindowInv
  <2>3. PICK s : s = Noted(notes[1].id)
    OBVIOUS
  <2>4. s \in Struct /\ s \in Reference
    BY <1>0, <2>2, <2>3 DEF Parts
  <2>5. /\ Post("created", s) /\ heap' = [heap EXCEPT ![s] = "live"]
        /\ minimized' = [minimized EXCEPT ![s] = screen[notes[1].id] = "minimized"]
    BY <2>2, <2>3 DEF NotifyCreated
  <2>6. "created" \in EventType /\ (screen[notes[1].id] = "minimized") \in BOOLEAN
    BY DEF EventType
  <2>7. /\ queue' \in Seq(QueuedEvent) /\ Len(queue) \in Nat /\ Len(queue') = Len(queue) + 1
        /\ \A i \in 1..Len(queue') :
              \/ i \in 1..Len(queue) /\ queue'[i] = queue[i]
              \/ i = Len(queue') /\ queue'[i].type = "created" /\ queue'[i].win = s
    BY <2>4, <2>5, <2>6, PostFacts DEF WindowInv
  <2>8. DOMAIN queue' = 1..Len(queue')
    BY <2>7, SeqFacts
  <2>9. /\ heap' \in [Struct -> {"none", "live", "freed"}] /\ heap'[s] = "live"
        /\ \A r \in Struct : r # s => heap'[r] = heap[r]
        /\ minimized' \in [Struct -> BOOLEAN]
    BY <1>0, <2>4, <2>5, <2>6 DEF Parts
  <2> QED
    BY <2>2, <2>3, <2>7, <2>8, <2>9 DEF NotifyCreated, history, MainIdle
<1>2. PICK s \in Struct : s = Noted(notes[1].id)
    BY <1>0, <1>1 DEF Parts
<1>3. /\ s \in NotedStruct /\ s[1] = notes[1].id
      /\ \A k \in Id : Noted(k) = s => k = notes[1].id
    BY <1>0, <1>1, <1>2 DEF Parts
<1>4. heap[s] = "none" /\ told[s] = "nothing" /\ screen[s[1]] # "unborn"
    BY <1>1, <1>2, <1>3 DEF WindowInv, CreatedOnce, UsesFollow
<1>5. /\ \A i \in 1..Len(queue) :
            queue[i].type \notin {"focused", "space"} => queue[i].win # s
      /\ ev.type \notin {"focused", "space"} => ev.win # s
    BY <1>0, <1>4 DEF Parts, WindowInv, EventsAreLive, Live
<1>6. \A r \in Struct : Live(r) => r # s /\ Live(r)'
    BY <1>1, <1>2, <1>4 DEF Live
<1>7. /\ Len(notes) \in Nat /\ 1 \in 1..Len(notes) /\ Len(notes') = Len(notes) - 1
      /\ \A i \in 1..Len(notes') : i + 1 \in 1..Len(notes) /\ notes'[i] = notes[i + 1]
      /\ \A i \in 1..Len(notes') : 1 # i + 1
    BY <1>1
<1>8. /\ Len(queue) \in Nat /\ Len(queue') = Len(queue) + 1 /\ DOMAIN queue' = 1..Len(queue')
      /\ \A i \in 1..Len(queue') :
            \/ i \in 1..Len(queue) /\ queue'[i] = queue[i]
            \/ i = Len(queue') /\ queue'[i].type = "created" /\ queue'[i].win = s
    BY <1>1, <1>2
<1>9. UNCHANGED <<screen, registered, invalid, windows, main, ev, told, focusDue>>
    BY <1>1
<1>11. TypeOK'
    BY <1>0, <1>1, Zenon DEF Parts, TypeOK
<1>12. Shape'
  <2>1. WindowShape /\ NoteShape /\ QueueShape /\ MainShape /\ EvShape
    BY DEF WindowInv, Shape
  <2>2. WindowShape' /\ EvShape' /\ MainShape'
    BY <1>9, <2>1 DEF WindowShape, EvShape, MainShape
  <2>3. NoteShape'
    BY <1>7, <2>1 DEF NoteShape
  <2>5. QueueShape'
    <3> SUFFICES ASSUME NEW i \in 1..Len(queue')
                 PROVE  /\ queue'[i].type = "space" <=> queue'[i].win = NoWindow
                        /\ queue'[i].type = "created" => queue'[i].win \in NotedStruct
        BY DEF QueueShape
    <3>1. CASE i \in 1..Len(queue) /\ queue'[i] = queue[i]
        BY <2>1, <3>1 DEF QueueShape
    <3>2. CASE queue'[i].type = "created" /\ queue'[i].win = s
        BY <1>0, <1>3, <3>2 DEF Parts
    <3> QED
        BY <1>1, <1>2, <3>1, <3>2
  <2> QED
    BY <2>2, <2>3, <2>5 DEF Shape
<1>13. LookupIsLive'
    BY <1>0, <1>1, <1>6 DEF Parts, WindowInv, LookupIsLive
<1>14. EventsAreLive'
  <2>1. \A i \in 1..Len(queue) : queue[i].type \notin {"focused", "space"} =>
            queue[i].win \in Struct /\ Live(queue[i].win)
    BY <1>0 DEF Parts, WindowInv, EventsAreLive, Shape, QueueShape
  <2>2. ev.type \notin {"focused", "space"} => Live(ev.win) /\ ev.win \in Struct
    BY EvFacts DEF WindowInv, EventsAreLive
  <2>3. heap'[s] = "live"
    BY <1>1, <1>2
  <2> QED
    BY <1>6, <1>8, <1>9, <2>1, <2>2, <2>3 DEF EventsAreLive, Live
<1>15. RefsAreLive'
  <2>1. \A i \in 1..Len(notes) : notes[i].ref # NoWindow =>
            notes[i].ref \in Struct /\ Live(notes[i].ref)
    BY <1>0 DEF Parts, WindowInv, RefsAreLive
  <2>2. \A i \in 1..Len(notes') : notes'[i].ref # NoWindow => heap'[notes'[i].ref] = "live"
    BY <1>6, <1>7, <2>1 DEF Live
  <2>3. \A j \in Id : registered[j] # NoWindow =>
            registered[j] \in Struct /\ heap'[registered[j]] # "none"
    BY <1>0, <1>1, <1>2, <1>4 DEF Parts, WindowInv, RefsAreLive
  <2> QED
    BY <1>9, <2>2, <2>3 DEF RefsAreLive, Live
<1>16. FreedIsClosed'
    BY <1>1, <1>2, <1>4 DEF WindowInv, FreedIsClosed
<1>17. CreatedOnce'
  <2>1. CreatedOnce
    BY DEF WindowInv
  <2>2. \A i \in 1..Len(notes') : notes'[i].kind = "created" =>
            /\ notes'[i].id \in Id /\ notes'[i].id # notes[1].id
            /\ heap[Noted(notes'[i].id)] = "none" /\ screen[notes'[i].id] # "unborn"
    <3> SUFFICES ASSUME NEW i \in 1..Len(notes'), notes'[i].kind = "created"
                 PROVE  /\ notes'[i].id \in Id /\ notes'[i].id # notes[1].id
                        /\ heap[Noted(notes'[i].id)] = "none" /\ screen[notes'[i].id] # "unborn"
        OBVIOUS
    <3>1. i + 1 \in 1..Len(notes) /\ notes'[i] = notes[i + 1] /\ 1 # i + 1
        BY <1>1
    <3>2. notes[i + 1].id # notes[1].id
        BY <1>1, <2>1, <3>1 DEF CreatedOnce
    <3> QED
        BY <1>0, <2>1, <3>1, <3>2 DEF CreatedOnce, Parts
  <2>3. \A k \in Id : k # notes[1].id => heap'[Noted(k)] = heap[Noted(k)]
    BY <1>0, <1>1, <1>2, <1>3 DEF Parts
  <2>4. \A i, j \in 1..Len(notes') :
            notes'[i].kind = "created" /\ notes'[j].kind = "created" /\ notes'[i].id = notes'[j].id
                => i = j
    <3>1. \A i, j \in 1..Len(notes') :
            notes'[i].kind = "created" /\ notes'[j].kind = "created" /\ notes'[i].id = notes'[j].id
                => i + 1 = j + 1
        BY <1>7, <2>1, SMTT(60) DEF CreatedOnce
    <3>2. \A i, j \in 1..Len(notes') : i + 1 = j + 1 => i = j
        BY <1>7
    <3> QED
        BY <3>1, <3>2
  <2>5. \A k \in Id : screen'[k] = "unborn" => heap'[Noted(k)] = "none"
    BY <1>3, <1>4, <1>9, <2>1, <2>3 DEF CreatedOnce
  <2>6. \A i, j \in 1..Len(queue') :
        queue'[i].type = "created" /\ queue'[j].type = "created" /\ queue'[i].win = queue'[j].win
            => i = j
    BY <1>5, <1>8, <2>1 DEF CreatedOnce
  <2>7. ev.type = "created" =>
            \A i \in 1..Len(queue') : queue'[i].type = "created" => queue'[i].win # ev.win
    BY <1>5, <1>8, <2>1 DEF CreatedOnce
  <2>8. \A i \in 1..Len(notes') : notes'[i].kind = "created" =>
            heap'[Noted(notes'[i].id)] = "none" /\ screen'[notes'[i].id] # "unborn"
    BY <1>9, <2>2, <2>3
  <2>9. ev' = ev
    BY <1>9
  <2> QED
    BY <2>4, <2>5, <2>6, <2>7, <2>8, <2>9 DEF CreatedOnce
<1>18. UsesFollow'
  <2>1. UsesFollow
    BY DEF WindowInv
  <2>2. \A i \in 1..Len(notes') : notes'[i].ref # NoWindow => Introduced(notes'[i].ref)
    BY <1>7, <2>1 DEF UsesFollow
  <2>3. \A i \in 1..Len(queue') :
            /\ queue'[i].type = "created" => told[queue'[i].win] = "nothing"
            /\ queue'[i].type \notin {"created", "space"} => Introduced(queue'[i].win)
    BY <1>4, <1>8, <2>1 DEF UsesFollow
  <2>4. \A r \in Struct : heap'[r] = "none" => told[r] = "nothing"
    BY <1>1, <1>2, <1>4, <2>1 DEF UsesFollow
  <2> QED
    BY <1>1, <2>1, <2>2, <2>3, <2>4 DEF UsesFollow, Introduced, Announcing
<1>19. NotYetThere'
  <2>1. ev.pc = "insert" => ev.win \in Struct
    BY <1>0 DEF Parts, WindowInv, Shape, EvShape
  <2> QED
    BY <1>6, <1>9, <2>1 DEF WindowInv, NotYetThere, Live
<1>20. LastNote'
  <2>1. LastNote
    BY DEF WindowInv
  <2> SUFFICES ASSUME NEW i \in 1..Len(notes'), notes'[i].kind = "destroyed"
               PROVE  /\ screen'[notes'[i].id] = "closed"
                      /\ \A j \in 1..Len(notes') : i < j => notes'[j].id # notes'[i].id
    BY DEF LastNote
  <2>2. /\ screen[notes[i + 1].id] = "closed"
        /\ \A j \in 1..Len(notes) : i + 1 < j => notes[j].id # notes[i + 1].id
    BY <1>7, <2>1 DEF LastNote
  <2>3. \A j \in 1..Len(notes') : i < j => i + 1 < j + 1
    BY <1>7
  <2> QED
    BY <1>7, <1>9, <2>2, <2>3
<1>21. MainEnds'
    BY <1>1 DEF MainEnds
<1>22. LastEvent'
  <2>1. LastEvent
    BY DEF WindowInv
  <2>4. \A k : Silent(k) => Silent(k)'
    BY <1>7, <1>9 DEF Silent
  <2>2. \A r \in Struct : Unused(r) => Unused(r)'
    BY <1>9, <2>4 DEF Unused, Inserting
  <2>3. /\ \A i \in 1..Len(queue) :
                queue[i].type = "destroyed" => queue[i].win \in Struct /\ queue[i].win # s
        /\ ev.type = "destroyed" => ev.win \in Struct /\ ev.win # s
    BY <1>0, <1>5, EvFacts DEF Parts, WindowInv, Shape, QueueShape
  <2>5. /\ \A i \in 1..Len(queue') :
                queue'[i].type = "destroyed" => i \in 1..Len(queue) /\ queue'[i] = queue[i]
        /\ \A i \in 1..Len(queue') : queue'[i].win # s => i \in 1..Len(queue) /\ queue'[i] = queue[i]
    BY <1>8
  <2>6. \A i \in 1..Len(queue') : queue'[i].type = "destroyed" =>
            /\ Unused(queue[i].win) /\ queue[i].win \in Struct /\ queue'[i] = queue[i]
            /\ \A j \in 1..Len(queue') : i < j /\ queue'[j].win = queue[i].win =>
                    queue'[j].type = "focused"
    BY <2>1, <2>3, <2>5 DEF LastEvent
  <2>7. ev.type = "destroyed" =>
            /\ Unused(ev.win) /\ ev.win \in Struct
            /\ \A j \in 1..Len(queue') : queue'[j].win = ev.win => queue'[j].type = "focused"
    BY <2>1, <2>3, <2>5 DEF LastEvent
  <2> QED
    BY <1>9, <2>2, <2>6, <2>7 DEF LastEvent
<1>23. ToldLast'
    BY <1>1, <1>2, <1>4 DEF WindowInv, ToldLast
<1> QED
    BY <1>11, <1>12, <1>13, <1>14, <1>15, <1>16, <1>17, <1>18, <1>19, <1>20, <1>21,
       <1>22, <1>23 DEF WindowInv

(* The main thread erases what the id of its struct maps to.               *)
LEMMA EraseWindowStep ==
    ASSUME WindowInv, EraseWindow
    PROVE  WindowInv'
<1>0. Parts
    BY PartsHold
<1>1. /\ main.pc = "erase" /\ main.type = "destroyed" /\ main.win \in Struct /\ main.win[1] \in Id
      /\ windows' \in [Id -> Reference] /\ windows'[main.win[1]] = NoWindow
      /\ \A j \in Id : windows'[j] = windows[j] \/ windows'[j] = NoWindow
      /\ registered' \in [Id -> Reference]
      /\ \A j \in Id : registered'[j] = registered[j] \/ registered'[j] = NoWindow
      /\ main' \in MainState /\ main'.pc = "flag" /\ main'.type = main.type /\ main'.win = main.win
      /\ UNCHANGED <<screen, notes, heap, invalid, minimized, queue, ev, told, focusDue>>
  <2>1. /\ main.pc = "erase"
        /\ windows' = [windows EXCEPT ![main.win[1]] = NoWindow]
        /\ registered' = [registered EXCEPT ![main.win[1]] = NoWindow]
        /\ main' = [main EXCEPT !.pc = "flag"]
        /\ UNCHANGED <<screen, notes, heap, invalid, minimized, queue, ev, told, focusDue>>
    BY DEF EraseWindow, history
  <2>2. /\ main.type = "destroyed" /\ main.win \in Struct /\ main.win[1] \in Id
        /\ NoWindow \in Reference
    BY <1>0, <2>1 DEF Parts, WindowInv, Shape, MainShape
  <2>3. /\ main' \in MainState /\ main'.pc = "flag" /\ main'.type = main.type
        /\ main'.win = main.win
    BY <1>0, <2>1 DEF Parts, MainState
  <2>4. windows \in [Id -> Reference] /\ registered \in [Id -> Reference]
    BY <1>0 DEF Parts
  <2> QED
    BY <2>1, <2>2, <2>3, <2>4
<1>2. PICK w \in Struct : w = main.win
    BY <1>1
<1>11. TypeOK'
  <2>1. (main.pc \in {"list", "scan", "idle"} <=> main.win = NoWindow)'
    BY <1>0, <1>1 DEF Parts
  <2> QED
    BY <1>0, <1>1, <2>1, Zenon DEF Parts, TypeOK
<1>12. Shape'
  <2>1. WindowShape /\ NoteShape /\ QueueShape /\ MainShape /\ EvShape
    BY DEF WindowInv, Shape
  <2>2. NoteShape' /\ EvShape' /\ QueueShape'
    BY <1>1, <2>1 DEF NoteShape, EvShape, QueueShape
  <2>3. WindowShape'
    BY <1>1, <2>1 DEF WindowShape
  <2>4. MainShape'
    BY <1>1 DEF MainShape
  <2> QED
    BY <2>2, <2>3, <2>4 DEF Shape
<1>13. LookupIsLive'
    BY <1>1 DEF WindowInv, LookupIsLive, Live
<1>14. EventsAreLive'
    BY <1>1 DEF WindowInv, EventsAreLive, Live
<1>15. RefsAreLive'
    BY <1>1 DEF WindowInv, RefsAreLive, Live
<1>16. FreedIsClosed'
    BY <1>0, <1>1 DEF Parts, WindowInv, FreedIsClosed
<1>17. CreatedOnce'
    BY <1>1 DEF WindowInv, CreatedOnce
<1>18. UsesFollow'
  <2>1. UsesFollow
    BY DEF WindowInv
  <2>2. \A j \in Id : /\ windows'[j] # NoWindow => Introduced(windows'[j])
                      /\ registered'[j] # NoWindow => Introduced(registered'[j])
    BY <1>1, <2>1 DEF UsesFollow
  <2> QED
    BY <1>1, <2>1, <2>2 DEF UsesFollow, Introduced, Announcing
<1>19. NotYetThere'
  <2>1. ev.pc = "insert" => ev.win \in Struct /\ ev.win[1] \in Id /\ ev.win # NoWindow
    BY <1>0 DEF Parts, WindowInv, Shape, EvShape
  <2> QED
    BY <1>1, <2>1 DEF WindowInv, NotYetThere, Live
<1>20. LastNote'
    BY <1>1 DEF WindowInv, LastNote
<1>21. MainEnds'
  <2>1. Silent(w[1]) /\ ~Inserting(w)
    BY <1>1, <1>2 DEF WindowInv, MainEnds
  <2>2. Silent(w[1])' /\ ~Inserting(w)'
    BY <1>1, <2>1 DEF Silent, Inserting
  <2>3. windows'[w[1]] # w
    BY <1>0, <1>1, <1>2 DEF Parts
  <2> QED
    BY <1>1, <1>2, <2>2, <2>3 DEF MainEnds, Silent, Inserting
<1>22. LastEvent'
  <2>1. LastEvent
    BY DEF WindowInv
  <2>2. \A s \in Struct : Unused(s) => Unused(s)'
    BY <1>0, <1>1 DEF Unused, Silent, Inserting, Parts
  <2>3. /\ \A i \in 1..Len(queue) : queue[i].type = "destroyed" => queue[i].win \in Struct
        /\ ev.type = "destroyed" => ev.win \in Struct
    BY <1>0, EvFacts DEF Parts, WindowInv, Shape, QueueShape
  <2> QED
    BY <1>1, <2>1, <2>2, <2>3 DEF LastEvent
<1>23. ToldLast'
    BY <1>1 DEF WindowInv, ToldLast
<1> QED
    BY <1>11, <1>12, <1>13, <1>14, <1>15, <1>16, <1>17, <1>18, <1>19, <1>20, <1>21,
       <1>22, <1>23 DEF WindowInv


(* The event thread takes the first event of the queue.                    *)
LEMMA TakeEventStep ==
    ASSUME WindowInv, TakeEvent
    PROVE  WindowInv'
<1>0. Parts
    BY PartsHold
<1>1. /\ Len(queue) \in Nat /\ 1 \in 1..Len(queue) /\ Len(queue') = Len(queue) - 1
      /\ queue' \in Seq(QueuedEvent) /\ DOMAIN queue' = 1..Len(queue')
      /\ \A i \in 1..Len(queue') : i + 1 \in 1..Len(queue) /\ queue'[i] = queue[i + 1] /\ 1 # i + 1
      /\ queue[1].type \in EventType /\ queue[1].win \in Reference
      /\ ev.pc = "idle" /\ ev.type = "space"
      /\ ev' \in HandlerState /\ ev'.pc = FirstStep[queue[1].type]
      /\ ev'.type = queue[1].type /\ ev'.win = queue[1].win
      /\ UNCHANGED <<screen, notes, registered, heap, invalid, minimized, windows, main, told,
                     focusDue>>
  <2>1. TypeOK
    BY DEF WindowInv
  <2>2. /\ queue' \in Seq(QueuedEvent)
        /\ Len(queue) \in Nat /\ Len(queue) >= 1 /\ Len(queue') = Len(queue) - 1
        /\ queue[1].type \in EventType /\ queue[1].win \in Reference
        /\ \A i \in 1..Len(queue') : i + 1 \in 1..Len(queue) /\ queue'[i] = queue[i + 1]
        /\ ev = EventIdle
        /\ ev'.pc = FirstStep[queue[1].type] /\ ev'.type = queue[1].type
        /\ ev'.win = queue[1].win /\ ev' \in HandlerState
        /\ UNCHANGED <<screen, notes, registered, heap, invalid, minimized, windows, main, told,
                       focusDue>>
    BY <2>1, HandlerTakes DEF axVars, structVars, history
  <2>3. DOMAIN queue' = 1..Len(queue')
    BY <2>2, SeqFacts
  <2>4. \A i \in 1..Len(queue') : 1 # i + 1
    BY <2>2
  <2>5. ev.pc = "idle" /\ ev.type = "space"
    BY <2>2 DEF EventIdle
  <2> QED
    BY <2>2, <2>3, <2>4, <2>5
<1>2. \A i, j \in 1..Len(queue') : (i < j => i + 1 < j + 1) /\ (i + 1 = j + 1 => i = j) /\ 1 < i + 1
    BY <1>1
<1>3. UNCHANGED <<screen, notes, registered, heap, invalid, minimized, windows, main, told,
                  focusDue>>
    BY <1>1
<1>4. /\ ev'.type = "created" => ev'.pc = "register"
      /\ ev'.type = "destroyed" => ev'.pc = "tell"
      /\ ev'.type = "space" => ev'.pc = "scan"
      /\ ev'.type \in {"focused", "changed", "minimized", "deminimized"} => ev'.pc = "check"
      /\ ev'.type \in {"created", "destroyed", "space", "focused", "changed", "minimized",
                      "deminimized"}
    BY <1>1 DEF FirstStep, EventType
<1>5. /\ ev'.type = "space" <=> ev'.win = NoWindow
      /\ ev'.type = "created" => ev'.win \in NotedStruct
      /\ ev'.type # "space" => ev'.win \in Struct
    BY <1>0, <1>1 DEF Parts, WindowInv, Shape, QueueShape
<1>11. TypeOK'
    BY <1>0, <1>1, Zenon DEF Parts, TypeOK
<1>12. Shape'
  <2>1. WindowShape /\ NoteShape /\ QueueShape /\ MainShape
    BY DEF WindowInv, Shape
  <2>2. WindowShape' /\ NoteShape' /\ MainShape'
    BY <1>3, <2>1 DEF WindowShape, NoteShape, MainShape
  <2>3. QueueShape'
    BY <1>1, <2>1 DEF QueueShape
  <2>4. ev'.pc \in Phase[ev'.type]
    BY <1>4 DEF Phase
  <2>5. EvShape'
    BY <1>0, <1>4, <1>5, <2>4 DEF EvShape, Parts
  <2> QED
    BY <2>2, <2>3, <2>5 DEF Shape
<1>13. LookupIsLive'
    BY <1>3 DEF WindowInv, LookupIsLive, Live
<1>14. EventsAreLive'
  <2>1. \A i \in 1..Len(queue) : queue[i].type \notin {"focused", "space"} => Live(queue[i].win)
    BY <1>0 DEF Parts, WindowInv, EventsAreLive
  <2>2. \A i \in 1..Len(queue') : queue'[i].type \notin {"focused", "space"} => Live(queue'[i].win)
    BY <1>1, <2>1
  <2>3. ev'.type \notin {"focused", "space"} => Live(ev'.win)
    BY <1>1, <2>1
  <2>4. DOMAIN queue' = 1..Len(queue')
    BY <1>1
  <2> QED
    BY <1>3, <2>2, <2>3, <2>4 DEF EventsAreLive, Live
<1>15. RefsAreLive'
    BY <1>3 DEF WindowInv, RefsAreLive, Live
<1>16. FreedIsClosed'
    BY <1>3 DEF WindowInv, FreedIsClosed
<1>17. CreatedOnce'
  <2>1. CreatedOnce
    BY DEF WindowInv
  <2>2. \A i, j \in 1..Len(queue') :
        queue'[i].type = "created" /\ queue'[j].type = "created" /\ queue'[i].win = queue'[j].win
            => i = j
    <3>1. \A i, j \in 1..Len(queue') :
            queue'[i].type = "created" /\ queue'[j].type = "created" /\ queue'[i].win = queue'[j].win
                => i + 1 = j + 1
        BY <1>1, <2>1 DEF CreatedOnce
    <3> QED
        BY <1>2, <3>1
  <2>3. ev'.type = "created" =>
            \A i \in 1..Len(queue') : queue'[i].type = "created" => queue'[i].win # ev'.win
    BY <1>1, <2>1 DEF CreatedOnce
  <2> QED
    BY <1>3, <2>1, <2>2, <2>3 DEF CreatedOnce
<1>18. UsesFollow'
  <2>1. UsesFollow
    BY DEF WindowInv
  <2>2. \A s : Introduced(s) => Introduced(s)'
    BY <1>1 DEF Introduced, Announcing
  <2>3. \A i \in 1..Len(queue') :
            /\ queue'[i].type = "created" => told[queue'[i].win] = "nothing"
            /\ queue'[i].type \notin {"created", "space"} => Introduced(queue'[i].win)
    BY <1>1, <2>1 DEF UsesFollow
  <2>4. /\ ev'.type = "created" => told[ev'.win] = "nothing" /\ ev'.pc # "restore"
        /\ ev'.type \notin {"created", "space"} =>
                told[ev'.win] # "nothing" \/ ev'.win \notin NotedStruct
    BY <1>1, <1>4, <2>1 DEF UsesFollow, Introduced, Announcing
  <2> QED
    BY <1>1, <1>3, <2>1, <2>2, <2>3, <2>4 DEF UsesFollow, Introduced, Announcing
<1>19. NotYetThere'
    BY <1>4 DEF NotYetThere
<1>20. LastNote'
    BY <1>3 DEF WindowInv, LastNote
<1>21. MainEnds'
    BY <1>3, <1>4 DEF WindowInv, MainEnds, Silent, Inserting
<1>22. LastEvent'
  <2>1. LastEvent
    BY DEF WindowInv
  <2>2. \A s \in Struct : Unused(s) => Unused(s)'
    BY <1>3, <1>4 DEF Unused, Silent, Inserting
  <2>3. \A i \in 1..Len(queue) : queue[i].type = "destroyed" => queue[i].win \in Struct
    BY <1>0 DEF Parts, WindowInv, Shape, QueueShape
  <2>4. \A i \in 1..Len(queue') : queue'[i].type = "destroyed" =>
            /\ Unused(queue[i + 1].win) /\ queue[i + 1].win \in Struct
            /\ queue'[i].win = queue[i + 1].win
            /\ \A j \in 1..Len(queue') : i < j /\ queue'[j].win = queue[i + 1].win =>
                    queue'[j].type = "focused"
    <3> SUFFICES ASSUME NEW i \in 1..Len(queue'), queue'[i].type = "destroyed"
                 PROVE  /\ Unused(queue[i + 1].win) /\ queue[i + 1].win \in Struct
                        /\ queue'[i].win = queue[i + 1].win
                        /\ \A j \in 1..Len(queue') : i < j /\ queue'[j].win = queue[i + 1].win =>
                                queue'[j].type = "focused"
        OBVIOUS
    <3>1. /\ i + 1 \in 1..Len(queue) /\ queue[i + 1].type = "destroyed"
          /\ queue'[i] = queue[i + 1]
        BY <1>1
    <3>2. /\ Unused(queue[i + 1].win)
          /\ \A j \in 1..Len(queue) : i + 1 < j /\ queue[j].win = queue[i + 1].win =>
                queue[j].type = "focused"
        BY <2>1, <3>1 DEF LastEvent
    <3> QED
        BY <1>1, <1>2, <2>3, <3>1, <3>2
  <2>5. ev'.type = "destroyed" =>
            /\ Unused(queue[1].win) /\ queue[1].win \in Struct /\ ev'.win = queue[1].win
            /\ \A j \in 1..Len(queue') : queue'[j].win = queue[1].win =>
                    queue'[j].type = "focused"
    BY <1>1, <1>2, <2>1, <2>3 DEF LastEvent
  <2> QED
    BY <2>2, <2>4, <2>5 DEF LastEvent
<1>23. ToldLast'
    BY <1>1 DEF WindowInv, ToldLast
<1> QED
    BY <1>11, <1>12, <1>13, <1>14, <1>15, <1>16, <1>17, <1>18, <1>19, <1>20, <1>21,
       <1>22, <1>23 DEF WindowInv


(* The struct of a window that is closed by now is freed at once.          *)
LEMMA RegisterClosedStep ==
    ASSUME WindowInv, RegisterCreated, screen[ev.win[1]] = "closed"
    PROVE  WindowInv'
<1>0. Parts
    BY PartsHold
<1>1. /\ ev.pc = "register" /\ ev.type = "created" /\ ev.win \in Struct
      /\ heap' \in [Struct -> {"none", "live", "freed"}] /\ heap'[ev.win] = "freed"
      /\ \A r \in Struct : r # ev.win => heap'[r] = heap[r]
      /\ ev' \in HandlerState /\ ev'.pc = "idle" /\ ev'.type = "space" /\ ev'.win = NoWindow
      /\ screen[ev.win[1]] = "closed"
      /\ UNCHANGED <<screen, notes, registered, invalid, minimized, windows, main, queue, told,
                     focusDue>>
  <2>1. /\ ev.pc = "register" /\ heap' = [heap EXCEPT ![ev.win] = "freed"]
        /\ ev' = EventIdle /\ UNCHANGED <<screen, notes, registered, invalid, minimized, windows,
                                          main, queue, told, focusDue>>
    BY DEF RegisterCreated, HandlerReturns, axVars, history
  <2>2. ev.type = "created" /\ ev.win \in Struct
    BY <2>1, EvFacts
  <2>5. /\ EventIdle \in HandlerState /\ EventIdle.pc = "idle"
        /\ EventIdle.type = "space" /\ EventIdle.win = NoWindow
    BY DEF EventIdle, HandlerState, Reference, EventType
  <2> QED
    BY <1>0, <2>1, <2>2, <2>5 DEF Parts
<1>2. PICK w \in Struct : w = ev.win
    BY <1>1
<1>3. UNCHANGED <<screen, notes, registered, invalid, minimized, windows, main, queue, told,
                  focusDue>>
    BY <1>1
<1>8. /\ w \in NotedStruct /\ told[w] = "nothing" /\ ~Introduced(w) /\ heap[w] = "live"
    BY <1>1, <1>2 DEF WindowInv, Shape, EvShape, UsesFollow, Introduced, Announcing,
                      EventsAreLive, Live
<1>4. \A r \in Struct : Live(r) /\ r # w => heap'[r] = "live"
    BY <1>1, <1>2 DEF Live
<1>5. \A i \in 1..Len(queue) : queue[i].type \notin {"focused", "space"} =>
        /\ queue[i].win \in Struct /\ queue[i].win # w
    BY <1>0, <1>1, <1>2, <1>8 DEF Parts, WindowInv, Shape, QueueShape, CreatedOnce, UsesFollow
<1>6. \A j \in Id : windows[j] # w
    BY <1>0, <1>2, <1>8 DEF Parts, WindowInv, UsesFollow
<1>7. main.win # w /\ \A i \in 1..Len(notes) : notes[i].ref # w
    BY <1>0, <1>2, <1>8 DEF Parts, WindowInv, UsesFollow
<1>11. TypeOK'
    BY <1>0, <1>1, Zenon DEF Parts, TypeOK
<1>12. Shape'
  <2>1. WindowShape /\ NoteShape /\ QueueShape /\ MainShape /\ EvShape
    BY DEF WindowInv, Shape
  <2>2. NoteShape' /\ QueueShape' /\ MainShape'
    BY <1>3, <2>1 DEF NoteShape, QueueShape, MainShape
  <2>3. WindowShape'
    BY <1>3, <2>1 DEF WindowShape
  <2>4. EvShape'
    BY <1>0, <1>1, <2>1 DEF EvShape, Phase, Parts
  <2> QED
    BY <2>2, <2>3, <2>4 DEF Shape
<1>13. LookupIsLive'
    BY <1>0, <1>3, <1>4, <1>6, <1>7 DEF Parts, WindowInv, LookupIsLive, Live
<1>14. EventsAreLive'
  <2>1. \A i \in 1..Len(queue) : queue[i].type \notin {"focused", "space"} =>
            heap'[queue[i].win] = "live"
    BY <1>0, <1>4, <1>5 DEF Parts, WindowInv, EventsAreLive
  <2>2. DOMAIN queue = 1..Len(queue) /\ ev'.type = "space"
    BY <1>0, <1>1 DEF Parts
  <2> QED
    BY <1>3, <2>1, <2>2 DEF EventsAreLive, Live
<1>15. RefsAreLive'
  <2>1. \A i \in 1..Len(notes) : notes[i].ref # NoWindow => heap'[notes[i].ref] = "live"
    BY <1>0, <1>4, <1>7, SMTT(90) DEF Parts, WindowInv, RefsAreLive
  <2>2. \A j \in Id : registered[j] # NoWindow =>
            registered[j] \in Struct /\ heap'[registered[j]] # "none"
    BY <1>0, <1>1 DEF Parts, WindowInv, RefsAreLive
  <2> QED
    BY <1>3, <2>1, <2>2 DEF RefsAreLive, Live
<1>16. FreedIsClosed'
    BY <1>1, <1>2 DEF WindowInv, FreedIsClosed
<1>17. CreatedOnce'
  <2>1. CreatedOnce
    BY DEF WindowInv
  <2>2. \A k \in Id : heap[Noted(k)] = "none" => heap'[Noted(k)] = "none"
    BY <1>0, <1>1, <1>2, <1>8 DEF Parts
  <2>3. \A i \in 1..Len(notes) : notes[i].id \in Id
    BY <1>0 DEF Parts
  <2>4. ev'.type = "space"
    BY <1>1
  <2> QED
    BY <1>3, <2>1, <2>2, <2>3, <2>4 DEF CreatedOnce
<1>18. UsesFollow'
  <2>1. UsesFollow
    BY DEF WindowInv
  <2>2. \A s : Introduced(s) => Introduced(s)'
    BY <1>1 DEF Introduced, Announcing
  <2>3. \A s \in Struct : heap'[s] = "none" => heap[s] = "none"
    BY <1>1
  <2>4. ev'.type = "space"
    BY <1>1
  <2> QED
    BY <1>3, <2>1, <2>2, <2>3, <2>4 DEF UsesFollow, Introduced, Announcing
<1>19. NotYetThere'
    BY <1>1 DEF NotYetThere
<1>20. LastNote'
    BY <1>3 DEF WindowInv, LastNote
<1>21. MainEnds'
    BY <1>1, <1>3 DEF WindowInv, MainEnds, Silent, Inserting
<1>22. LastEvent'
  <2>1. LastEvent
    BY DEF WindowInv
  <2>2. \A s \in Struct : Unused(s) => Unused(s)'
    BY <1>1, <1>3 DEF Unused, Silent, Inserting
  <2>3. \A i \in 1..Len(queue) : queue[i].type = "destroyed" => queue[i].win \in Struct
    BY <1>0 DEF Parts, WindowInv, Shape, QueueShape
  <2>4. ev'.type = "space"
    BY <1>1
  <2> QED
    BY <1>3, <2>1, <2>2, <2>3, <2>4 DEF LastEvent
<1>23. ToldLast'
    BY <1>1, <1>2, <1>8 DEF WindowInv, ToldLast
<1> QED
    BY <1>11, <1>12, <1>13, <1>14, <1>15, <1>16, <1>17, <1>18, <1>19, <1>20, <1>21,
       <1>22, <1>23 DEF WindowInv

(* The struct of a destroyed window is freed.                              *)
LEMMA FreeWindowStep ==
    ASSUME WindowInv, FreeWindow
    PROVE  WindowInv'
<1>0. Parts
    BY PartsHold
<1>1. /\ ev.pc = "free" /\ ev.type = "destroyed" /\ ev.win \in Struct
      /\ heap' \in [Struct -> {"none", "live", "freed"}] /\ heap'[ev.win] = "freed"
      /\ \A r \in Struct : r # ev.win => heap'[r] = heap[r]
      /\ ev' \in HandlerState /\ ev'.pc = "idle" /\ ev'.type = "space" /\ ev'.win = NoWindow
      /\ UNCHANGED <<screen, notes, registered, invalid, minimized, windows, main, queue, told,
                     focusDue>>
  <2>1. /\ ev.pc = "free" /\ heap' = [heap EXCEPT ![ev.win] = "freed"]
        /\ ev' = EventIdle /\ UNCHANGED <<screen, notes, registered, invalid, minimized, windows,
                                          main, queue, told, focusDue>>
    BY DEF FreeWindow, HandlerReturns, axVars, history
  <2>2. ev.type = "destroyed" /\ ev.win \in Struct
    BY <2>1, EvFacts
  <2>5. /\ EventIdle \in HandlerState /\ EventIdle.pc = "idle"
        /\ EventIdle.type = "space" /\ EventIdle.win = NoWindow
    BY DEF EventIdle, HandlerState, Reference, EventType
  <2> QED
    BY <1>0, <2>1, <2>2, <2>5 DEF Parts
<1>2. PICK w \in Struct : w = ev.win
    BY <1>1
<1>3. UNCHANGED <<screen, notes, registered, invalid, minimized, windows, main, queue, told,
                  focusDue>>
    BY <1>1
<1>8. /\ Unused(w) /\ heap[w] = "live"
      /\ \A j \in 1..Len(queue) : queue[j].win = w => queue[j].type = "focused"
    BY <1>1, <1>2 DEF WindowInv, LastEvent, EventsAreLive, Live
<1>4. \A r \in Struct : Live(r) /\ r # w => heap'[r] = "live"
    BY <1>1, <1>2 DEF Live
<1>5. \A i \in 1..Len(queue) : queue[i].type \notin {"focused", "space"} =>
        /\ queue[i].win \in Struct /\ queue[i].win # w
    BY <1>0, <1>8 DEF Parts, WindowInv, Shape, QueueShape
<1>6. \A j \in Id : windows[j] # w
    BY <1>0, <1>8 DEF Parts, WindowInv, Shape, WindowShape, Unused
<1>7. main.win # w /\ \A i \in 1..Len(notes) : notes[i].ref # w
    BY <1>0, <1>8 DEF Parts, WindowInv, Shape, NoteShape, Unused, Silent
<1>11. TypeOK'
    BY <1>0, <1>1, Zenon DEF Parts, TypeOK
<1>12. Shape'
  <2>1. WindowShape /\ NoteShape /\ QueueShape /\ MainShape /\ EvShape
    BY DEF WindowInv, Shape
  <2>2. NoteShape' /\ QueueShape' /\ MainShape'
    BY <1>3, <2>1 DEF NoteShape, QueueShape, MainShape
  <2>3. WindowShape'
    BY <1>3, <2>1 DEF WindowShape
  <2>4. EvShape'
    BY <1>0, <1>1, <2>1 DEF EvShape, Phase, Parts
  <2> QED
    BY <2>2, <2>3, <2>4 DEF Shape
<1>13. LookupIsLive'
    BY <1>0, <1>3, <1>4, <1>6, <1>7 DEF Parts, WindowInv, LookupIsLive, Live
<1>14. EventsAreLive'
  <2>1. \A i \in 1..Len(queue) : queue[i].type \notin {"focused", "space"} =>
            heap'[queue[i].win] = "live"
    BY <1>0, <1>4, <1>5 DEF Parts, WindowInv, EventsAreLive
  <2>2. DOMAIN queue = 1..Len(queue) /\ ev'.type = "space"
    BY <1>0, <1>1 DEF Parts
  <2> QED
    BY <1>3, <2>1, <2>2 DEF EventsAreLive, Live
<1>15. RefsAreLive'
  <2>1. \A i \in 1..Len(notes) : notes[i].ref # NoWindow => heap'[notes[i].ref] = "live"
    BY <1>0, <1>4, <1>7, SMTT(90) DEF Parts, WindowInv, RefsAreLive
  <2>2. \A j \in Id : registered[j] # NoWindow =>
            registered[j] \in Struct /\ heap'[registered[j]] # "none"
    BY <1>0, <1>1 DEF Parts, WindowInv, RefsAreLive
  <2> QED
    BY <1>3, <2>1, <2>2 DEF RefsAreLive, Live
<1>16. FreedIsClosed'
    BY <1>1, <1>2, <1>8 DEF WindowInv, FreedIsClosed, Unused, Silent
<1>17. CreatedOnce'
  <2>1. CreatedOnce
    BY DEF WindowInv
  <2>2. \A k \in Id : heap[Noted(k)] = "none" => heap'[Noted(k)] = "none"
    BY <1>0, <1>1, <1>2, <1>8 DEF Parts
  <2>3. \A i \in 1..Len(notes) : notes[i].id \in Id
    BY <1>0 DEF Parts
  <2>4. ev'.type = "space"
    BY <1>1
  <2> QED
    BY <1>3, <2>1, <2>2, <2>3, <2>4 DEF CreatedOnce
<1>18. UsesFollow'
  <2>1. UsesFollow
    BY DEF WindowInv
  <2>2. \A s : Introduced(s) => Introduced(s)'
    BY <1>1 DEF Introduced, Announcing
  <2>3. \A s \in Struct : heap'[s] = "none" => heap[s] = "none"
    BY <1>1
  <2>4. ev'.type = "space"
    BY <1>1
  <2> QED
    BY <1>3, <2>1, <2>2, <2>3, <2>4 DEF UsesFollow, Introduced, Announcing
<1>19. NotYetThere'
    BY <1>1 DEF NotYetThere
<1>20. LastNote'
    BY <1>3 DEF WindowInv, LastNote
<1>21. MainEnds'
    BY <1>1, <1>3 DEF WindowInv, MainEnds, Silent, Inserting
<1>22. LastEvent'
  <2>1. LastEvent
    BY DEF WindowInv
  <2>2. \A s \in Struct : Unused(s) => Unused(s)'
    BY <1>1, <1>3 DEF Unused, Silent, Inserting
  <2>3. \A i \in 1..Len(queue) : queue[i].type = "destroyed" => queue[i].win \in Struct
    BY <1>0 DEF Parts, WindowInv, Shape, QueueShape
  <2>4. ev'.type = "space"
    BY <1>1
  <2> QED
    BY <1>3, <2>1, <2>2, <2>3, <2>4 DEF LastEvent
<1>23. ToldLast'
    BY <1>1, <1>2 DEF WindowInv, ToldLast
<1> QED
    BY <1>11, <1>12, <1>13, <1>14, <1>15, <1>16, <1>17, <1>18, <1>19, <1>20, <1>21,
       <1>22, <1>23 DEF WindowInv


(* The window is registered for the struct of its creation event.          *)
LEMMA RegisterOpenStep ==
    ASSUME WindowInv, RegisterCreated, screen[ev.win[1]] # "closed"
    PROVE  WindowInv'
<1>0. Parts
    BY PartsHold
<1>1. /\ ev.pc = "register" /\ ev.type = "created" /\ ev.win \in Struct /\ ev.win[1] \in Id
      /\ registered' \in [Id -> Reference]
      /\ \A j \in Id : \/ registered'[j] = registered[j]
                       \/ j = ev.win[1] /\ registered'[j] = ev.win
      /\ ev' \in HandlerState /\ ev'.pc = "insert" /\ ev'.type = ev.type /\ ev'.win = ev.win
      /\ screen[ev.win[1]] # "closed"
      /\ UNCHANGED <<screen, notes, heap, invalid, minimized, windows, main, queue, told,
                     focusDue>>
  <2>1. /\ ev.pc = "register"
        /\ registered' = [registered EXCEPT ![ev.win[1]] = IF @ = NoWindow THEN ev.win ELSE @]
        /\ ev' = [ev EXCEPT !.pc = "insert"]
        /\ UNCHANGED <<screen, notes, heap, invalid, minimized, windows, main, queue, told,
                       focusDue>>
    BY DEF RegisterCreated, EventGoto, axVars, history
  <2>2. ev.type = "created" /\ ev.win \in Struct
    BY <2>1, EvFacts
  <2>3. /\ ev' \in HandlerState /\ ev'.pc = "insert" /\ ev'.type = ev.type
        /\ ev'.win = ev.win
    BY <1>0, <2>1 DEF Parts, HandlerState
  <2>4. /\ registered' \in [Id -> Reference]
        /\ \A j \in Id : \/ registered'[j] = registered[j]
                         \/ j = ev.win[1] /\ registered'[j] = ev.win
    BY <1>0, <2>1, <2>2 DEF Parts
  <2> QED
    BY <1>0, <2>1, <2>2, <2>3, <2>4 DEF Parts
<1>2. PICK w \in Struct : w = ev.win
    BY <1>1
<1>3. UNCHANGED <<screen, notes, heap, invalid, minimized, windows, main, queue, told, focusDue>>
    BY <1>1
<1>4. /\ w \in NotedStruct /\ told[w] = "nothing" /\ ~Introduced(w) /\ heap[w] = "live"
    BY <1>1, <1>2 DEF WindowInv, Shape, EvShape, UsesFollow, Introduced, Announcing,
                      EventsAreLive, Live
<1>11. TypeOK'
    BY <1>0, <1>1, Zenon DEF Parts, TypeOK
<1>12. Shape'
  <2>1. WindowShape /\ NoteShape /\ QueueShape /\ MainShape /\ EvShape
    BY DEF WindowInv, Shape
  <2>2. NoteShape' /\ QueueShape' /\ MainShape'
    BY <1>3, <2>1 DEF NoteShape, QueueShape, MainShape
  <2>3. WindowShape'
    BY <1>1, <1>3, <2>1 DEF WindowShape
  <2>4. EvShape'
    BY <1>0, <1>1, <2>1 DEF EvShape, Phase, Parts
  <2> QED
    BY <2>2, <2>3, <2>4 DEF Shape
<1>13. LookupIsLive'
    BY <1>3 DEF WindowInv, LookupIsLive, Live
<1>14. EventsAreLive'
    BY <1>1, <1>3 DEF WindowInv, EventsAreLive, Live
<1>15. RefsAreLive'
    BY <1>1, <1>2, <1>3, <1>4 DEF WindowInv, RefsAreLive, Live
<1>16. FreedIsClosed'
    BY <1>3 DEF WindowInv, FreedIsClosed
<1>17. CreatedOnce'
    BY <1>1, <1>3 DEF WindowInv, CreatedOnce
<1>18. UsesFollow'
  <2>1. UsesFollow
    BY DEF WindowInv
  <2>2. \A s : Introduced(s) => Introduced(s)'
    BY <1>1 DEF Introduced, Announcing
  <2>3. Introduced(w)'
    BY <1>1, <1>2 DEF Introduced, Announcing
  <2>4. \A j \in Id, s \in Struct : registered'[j] = s => Introduced(s)'
    BY <1>0, <1>1, <1>2, <2>1, <2>2, <2>3 DEF UsesFollow, Parts
  <2>5. \A j \in Id : registered'[j] # NoWindow => registered'[j] \in Struct
    BY <1>0, <1>1 DEF Parts
  <2>6. ev'.type = "created" /\ ev'.pc = "insert" /\ told[ev'.win] = "nothing"
    BY <1>1, <1>2, <1>4
  <2> QED
    BY <1>3, <2>1, <2>2, <2>4, <2>5, <2>6 DEF UsesFollow, Introduced, Announcing
<1>19. NotYetThere'
  <2>1. windows[w[1]] # w
    BY <1>0, <1>1, <1>2, <1>4 DEF WindowInv, UsesFollow, Parts
  <2> QED
    BY <1>1, <1>2, <1>3, <1>4, <2>1 DEF NotYetThere, Live
<1>20. LastNote'
    BY <1>3 DEF WindowInv, LastNote
<1>21. MainEnds'
    BY <1>1, <1>3 DEF WindowInv, MainEnds, Silent, Inserting
<1>22. LastEvent'
  <2>1. LastEvent
    BY DEF WindowInv
  <2>2. \A s \in Struct : Unused(s) => Unused(s)'
    BY <1>1, <1>3 DEF Unused, Silent, Inserting
  <2>3. \A i \in 1..Len(queue) : queue[i].type = "destroyed" => queue[i].win \in Struct
    BY <1>0 DEF Parts, WindowInv, Shape, QueueShape
  <2>4. ev'.type = "created"
    BY <1>1
  <2> QED
    BY <1>3, <2>1, <2>2, <2>3, <2>4 DEF LastEvent
<1>23. ToldLast'
    BY <1>1, <1>3 DEF WindowInv, ToldLast
<1> QED
    BY <1>11, <1>12, <1>13, <1>14, <1>15, <1>16, <1>17, <1>18, <1>19, <1>20, <1>21,
       <1>22, <1>23 DEF WindowInv

(* The event thread puts its struct into the map.                          *)
LEMMA InsertWindowStep ==
    ASSUME WindowInv, InsertWindow
    PROVE  WindowInv'
<1>0. Parts
    BY PartsHold
<1>1. /\ ev.pc = "insert" /\ ev.type \in {"created", "space"} /\ ev.win \in Struct /\ ev.win[1] \in Id
      /\ windows' \in [Id -> Reference] /\ windows'[ev.win[1]] = ev.win
      /\ \A j \in Id : j # ev.win[1] => windows'[j] = windows[j]
      /\ ev' \in HandlerState /\ ev'.type = ev.type /\ ev'.win = ev.win
      /\ ev'.pc = IF ev.type = "space" THEN "scan" ELSE "tell"
      /\ UNCHANGED <<screen, notes, registered, heap, invalid, minimized, main, queue, told,
                     focusDue>>
  <2>1. /\ ev.pc = "insert"
        /\ windows' = [windows EXCEPT ![ev.win[1]] = ev.win]
        /\ ev' = [ev EXCEPT !.pc = IF ev.type = "space" THEN "scan" ELSE "tell"]
        /\ UNCHANGED <<screen, notes, registered, heap, invalid, minimized, main, queue, told,
                       focusDue>>
    BY DEF InsertWindow, EventGoto, axVars, history
  <2>2. ev.type \in {"created", "space"} /\ ev.win \in Struct
    BY <1>0, <2>1, EvFacts DEF Parts, WindowInv, Shape, EvShape
  <2>3. /\ ev' \in HandlerState /\ ev'.type = ev.type /\ ev'.win = ev.win
        /\ ev'.pc = IF ev.type = "space" THEN "scan" ELSE "tell"
    BY <1>0, <2>1 DEF Parts, HandlerState
  <2>4. /\ windows' \in [Id -> Reference] /\ windows'[ev.win[1]] = ev.win
        /\ \A j \in Id : j # ev.win[1] => windows'[j] = windows[j]
    BY <1>0, <2>1, <2>2 DEF Parts
  <2> QED
    BY <1>0, <2>1, <2>2, <2>3, <2>4 DEF Parts
<1>2. PICK w \in Struct : w = ev.win
    BY <1>1
<1>3. UNCHANGED <<screen, notes, registered, heap, invalid, minimized, main, queue, told,
                  focusDue>>
    BY <1>1
<1>4. heap[w] = "live"
    BY <1>1, <1>2 DEF WindowInv, NotYetThere, Live
<1>5. ev'.pc \in {"scan", "tell"} /\ (ev.type = "created" => ev'.pc = "tell")
    BY <1>1
<1>6. \A j \in Id : windows'[j] = windows[j] \/ (j = w[1] /\ windows'[j] = w)
    BY <1>1, <1>2
<1>11. TypeOK'
    BY <1>0, <1>1, Zenon DEF Parts, TypeOK
<1>12. Shape'
  <2>1. WindowShape /\ NoteShape /\ QueueShape /\ MainShape /\ EvShape
    BY DEF WindowInv, Shape
  <2>2. NoteShape' /\ QueueShape' /\ MainShape'
    BY <1>3, <2>1 DEF NoteShape, QueueShape, MainShape
  <2>3. WindowShape'
    BY <1>3, <1>6, <2>1 DEF WindowShape
  <2>4. EvShape'
    BY <1>0, <1>1, <2>1 DEF EvShape, Phase, Parts
  <2> QED
    BY <2>2, <2>3, <2>4 DEF Shape
<1>13. LookupIsLive'
    BY <1>3, <1>4, <1>6 DEF WindowInv, LookupIsLive, Live
<1>14. EventsAreLive'
    BY <1>1, <1>3 DEF WindowInv, EventsAreLive, Live
<1>15. RefsAreLive'
    BY <1>3 DEF WindowInv, RefsAreLive, Live
<1>16. FreedIsClosed'
    BY <1>3 DEF WindowInv, FreedIsClosed
<1>17. CreatedOnce'
    BY <1>1, <1>3 DEF WindowInv, CreatedOnce
<1>18. UsesFollow'
  <2>1. UsesFollow
    BY DEF WindowInv
  <2>2. \A s : Introduced(s) => Introduced(s)'
    BY <1>1, <1>5 DEF Introduced, Announcing
  <2>3. Introduced(w)
    BY <1>0, <1>1, <1>2 DEF Introduced, Announcing, WindowInv, Shape, EvShape, Parts
  <2>4. \A j \in Id, s \in Struct : windows'[j] = s => Introduced(s)'
    BY <1>0, <1>6, <2>1, <2>2, <2>3 DEF UsesFollow, Parts
  <2>5. \A j \in Id : windows'[j] # NoWindow => windows'[j] \in Struct
    BY <1>0, <1>1 DEF Parts
  <2>6. ev'.type = ev.type /\ ev'.win = ev.win /\ ev'.pc # "restore" /\ ev.pc # "restore"
    BY <1>1, <1>5
  <2>7. ev.type \in {"created", "space"}
    BY <1>1
  <2> QED
    BY <1>3, <2>1, <2>2, <2>4, <2>5, <2>6, <2>7 DEF UsesFollow, Introduced, Announcing
<1>19. NotYetThere'
    BY <1>5 DEF NotYetThere
<1>20. LastNote'
    BY <1>3 DEF WindowInv, LastNote
<1>21. MainEnds'
  <2>1. main.type = "destroyed" =>
            /\ Silent(main.win[1]) /\ main.win # w /\ main.win[1] \in Id
            /\ main.pc # "erase" => windows[main.win[1]] # main.win
    BY <1>0, <1>1, <1>2 DEF WindowInv, MainEnds, Inserting, Shape, MainShape, Parts, MainState
  <2> QED
    BY <1>3, <1>5, <1>6, <2>1 DEF MainEnds, Silent, Inserting
<1>22. LastEvent'
  <2>1. LastEvent
    BY DEF WindowInv
  <2>2. \A s \in Struct : Unused(s) => Unused(s)'
    <3>1. \A s \in Struct : Unused(s) => s # w /\ s[1] \in Id
        BY <1>0, <1>1, <1>2 DEF Unused, Inserting, Parts
    <3> QED
        BY <1>3, <1>5, <1>6, <3>1 DEF Unused, Silent, Inserting
  <2>3. \A i \in 1..Len(queue) : queue[i].type = "destroyed" => queue[i].win \in Struct
    BY <1>0 DEF Parts, WindowInv, Shape, QueueShape
  <2>4. ev'.type \in {"created", "space"}
    BY <1>1
  <2> QED
    BY <1>3, <2>1, <2>2, <2>3, <2>4 DEF LastEvent
<1>23. ToldLast'
    BY <1>1, <1>3 DEF WindowInv, ToldLast
<1> QED
    BY <1>11, <1>12, <1>13, <1>14, <1>15, <1>16, <1>17, <1>18, <1>19, <1>20, <1>21,
       <1>22, <1>23 DEF WindowInv

(* The plugins are told of the event.                                      *)
LEMMA TellPluginsStep ==
    ASSUME WindowInv, TellPlugins
    PROVE  WindowInv'
<1>0. Parts
    BY PartsHold
<1>1. /\ ev.pc = "tell" /\ ev.type # "space" /\ ev.win \in Struct
      /\ told' \in [Struct -> {"nothing", "created", "destroyed"}]
      /\ ev.type \in {"created", "destroyed"} => told'[ev.win] = ev.type
      /\ ev.type \notin {"created", "destroyed"} => told'[ev.win] = told[ev.win]
      /\ \A r \in Struct : r # ev.win => told'[r] = told[r]
      /\ focusDue' \in [Struct -> BOOLEAN]
      /\ ev' \in HandlerState
      /\ \/ /\ ev.type \in {"created", "deminimized"} /\ ev'.pc = "restore"
            /\ ev'.type = ev.type /\ ev'.win = ev.win
         \/ /\ ev.type = "destroyed" /\ ev'.pc = "free"
            /\ ev'.type = ev.type /\ ev'.win = ev.win
         \/ /\ ev.type \in {"focused", "changed", "minimized"}
            /\ ev'.pc = "idle" /\ ev'.type = "space" /\ ev'.win = NoWindow
      /\ UNCHANGED <<screen, notes, registered, heap, invalid, minimized, windows, main, queue>>
  <2>1. ev.pc = "tell" /\ UNCHANGED <<screen, notes, registered, heap, invalid, minimized,
                                      windows, main, queue>>
    BY DEF TellPlugins, axVars, structVars
  <2>2. /\ ev.type \in {"created", "destroyed", "focused", "changed", "minimized", "deminimized"}
        /\ ev.win \in Struct
    BY <2>1, EvFacts
  <2>3. \E x \in {"nothing", "created", "destroyed"} :
            /\ told' = [told EXCEPT ![ev.win] = x]
            /\ ev.type \in {"created", "destroyed"} => x = ev.type
            /\ ev.type \notin {"created", "destroyed"} => x = told[ev.win]
    <3>1. told[ev.win] \in {"nothing", "created", "destroyed"}
        BY <1>0, <2>2 DEF Parts
    <3>2. CASE ev.type \in {"created", "destroyed"}
        <4>1. told' = [told EXCEPT ![ev.win] = ev.type]
            BY <3>2 DEF TellPlugins
        <4> QED
            BY <3>2, <4>1
    <3>3. CASE ev.type \notin {"created", "destroyed"}
        <4>1. told' = [told EXCEPT ![ev.win] = told[ev.win]]
            BY <3>3 DEF TellPlugins
        <4> QED
            BY <3>1, <3>3, <4>1
    <3> QED
        BY <3>2, <3>3
  <2>4. /\ told' \in [Struct -> {"nothing", "created", "destroyed"}]
        /\ ev.type \in {"created", "destroyed"} => told'[ev.win] = ev.type
        /\ ev.type \notin {"created", "destroyed"} => told'[ev.win] = told[ev.win]
        /\ \A r \in Struct : r # ev.win => told'[r] = told[r]
    BY <1>0, <2>2, <2>3 DEF Parts
  <2>5. focusDue' \in [Struct -> BOOLEAN]
    <3>1. \E b \in BOOLEAN : focusDue' = [focusDue EXCEPT ![ev.win] = b]
        <4>1. focusDue[ev.win] \in BOOLEAN
            BY <1>0, <2>2 DEF Parts
        <4> QED
            BY <2>2, <4>1 DEF TellPlugins
    <3>2. PICK b \in BOOLEAN : focusDue' = [focusDue EXCEPT ![ev.win] = b]
        BY <3>1
    <3> QED
        BY <1>0, <3>2 DEF Parts
  <2>6. \/ /\ ev.type \in {"created", "deminimized"} /\ ev' = [ev EXCEPT !.pc = "restore"]
        \/ /\ ev.type = "destroyed" /\ ev' = [ev EXCEPT !.pc = "free"]
        \/ /\ ev.type \in {"focused", "changed", "minimized"} /\ ev' = EventIdle
    BY <2>2 DEF TellPlugins, EventGoto, HandlerReturns
  <2>7. /\ EventIdle \in HandlerState /\ EventIdle.pc = "idle"
        /\ EventIdle.type = "space" /\ EventIdle.win = NoWindow
    BY DEF EventIdle, HandlerState, Reference, EventType
  <2>8. /\ ev' \in HandlerState
        /\ \/ /\ ev.type \in {"created", "deminimized"} /\ ev'.pc = "restore"
              /\ ev'.type = ev.type /\ ev'.win = ev.win
           \/ /\ ev.type = "destroyed" /\ ev'.pc = "free"
              /\ ev'.type = ev.type /\ ev'.win = ev.win
           \/ /\ ev.type \in {"focused", "changed", "minimized"}
              /\ ev'.pc = "idle" /\ ev'.type = "space" /\ ev'.win = NoWindow
    <3>1. ASSUME NEW l \in {"restore", "free"}, ev' = [ev EXCEPT !.pc = l]
          PROVE  ev' \in HandlerState /\ ev'.pc = l /\ ev'.type = ev.type /\ ev'.win = ev.win
        <4>1. ev \in HandlerState
            BY <1>0 DEF Parts
        <4> QED
            BY <3>1, <4>1 DEF HandlerState
    <3>2. CASE ev.type \in {"created", "deminimized"} /\ ev' = [ev EXCEPT !.pc = "restore"]
        BY <3>1, <3>2
    <3>3. CASE ev.type = "destroyed" /\ ev' = [ev EXCEPT !.pc = "free"]
        BY <3>1, <3>3
    <3>4. CASE ev.type \in {"focused", "changed", "minimized"} /\ ev' = EventIdle
        BY <2>7, <3>4
    <3> QED
        BY <2>6, <3>2, <3>3, <3>4
  <2> QED
    BY <2>1, <2>2, <2>4, <2>5, <2>8
<1>2. PICK w \in Struct : w = ev.win
    BY <1>1
<1>3. UNCHANGED <<screen, notes, registered, heap, invalid, minimized, windows, main, queue>>
    BY <1>1
<1>4. /\ ev'.pc \notin {"insert", "tell", "register"} /\ ev'.type \in {"space", ev.type}
      /\ ev'.type # "space" => ev'.win = w /\ ev'.type \in {"created", "deminimized", "destroyed"}
      /\ ev'.type = "created" => ev'.pc = "restore"
    BY <1>1, <1>2
<1>5. ev.type \in {"created", "destroyed"} =>
        /\ heap[w] = "live"
        /\ \A i \in 1..Len(queue) : queue[i].type = "created" => queue[i].win # w
    BY <1>1, <1>2 DEF WindowInv, EventsAreLive, Live, CreatedOnce, LastEvent
<1>6. \A s \in Struct : told[s] # "nothing" => told'[s] # "nothing"
    BY <1>1
<1>11. TypeOK'
    BY <1>0, <1>1, Zenon DEF Parts, TypeOK
<1>12. Shape'
  <2>1. WindowShape /\ NoteShape /\ QueueShape /\ MainShape /\ EvShape
    BY DEF WindowInv, Shape
  <2>2. WindowShape' /\ NoteShape' /\ QueueShape' /\ MainShape'
    BY <1>3, <2>1 DEF WindowShape, NoteShape, QueueShape, MainShape
  <2>3. ev'.pc \in Phase[ev'.type]
    BY <1>1 DEF Phase
  <2>4. EvShape'
    BY <1>0, <1>1, <1>4, <2>1, <2>3 DEF EvShape, Parts
  <2> QED
    BY <2>2, <2>4 DEF Shape
<1>13. LookupIsLive'
    BY <1>3 DEF WindowInv, LookupIsLive, Live
<1>14. EventsAreLive'
    BY <1>1, <1>3 DEF WindowInv, EventsAreLive, Live
<1>15. RefsAreLive'
    BY <1>3 DEF WindowInv, RefsAreLive, Live
<1>16. FreedIsClosed'
    BY <1>3 DEF WindowInv, FreedIsClosed
<1>17. CreatedOnce'
    BY <1>1, <1>3 DEF WindowInv, CreatedOnce
<1>18. UsesFollow'
  <2>1. UsesFollow
    BY DEF WindowInv
  <2>2. \A s \in Struct : Introduced(s) => (s \in NotedStruct => told'[s] # "nothing")
    BY <1>1, <1>2, <1>6 DEF Introduced, Announcing
  <2>3. \A s \in Struct : heap'[s] = "none" => told'[s] = "nothing"
    BY <1>1, <1>2, <1>3, <1>5, <2>1 DEF UsesFollow
  <2>4. \A i \in 1..Len(queue) : queue[i].type = "created" =>
            queue[i].win \in Struct /\ told'[queue[i].win] = "nothing"
    BY <1>0, <1>1, <1>2, <1>5, <2>1 DEF UsesFollow, Parts, WindowInv, Shape, QueueShape
  <2>5. \A i \in 1..Len(queue) : queue[i].type \notin {"created", "space"} =>
            queue[i].win \in Struct /\ Introduced(queue[i].win)
    BY <1>0, <2>1 DEF UsesFollow, Parts, WindowInv, Shape, QueueShape
  <2>6. \A j \in Id : /\ windows[j] # NoWindow => windows[j] \in Struct /\ Introduced(windows[j])
                      /\ registered[j] # NoWindow =>
                            registered[j] \in Struct /\ Introduced(registered[j])
    BY <1>0, <2>1 DEF UsesFollow, Parts
  <2>7. \A i \in 1..Len(notes) : notes[i].ref # NoWindow =>
            notes[i].ref \in Struct /\ Introduced(notes[i].ref)
    BY <1>0, <2>1 DEF UsesFollow, Parts
  <2>8. main.win # NoWindow => main.win \in Struct /\ Introduced(main.win)
    BY <1>0, <2>1 DEF UsesFollow, Parts
  <2>9. /\ ev'.type = "created" => told'[ev'.win] # "nothing" /\ ev'.pc = "restore"
        /\ ev'.type \notin {"created", "space"} =>
                told'[ev'.win] # "nothing" \/ ev'.win \notin NotedStruct
    BY <1>1, <1>2, <1>4, <1>6, <2>1 DEF UsesFollow
  <2> QED
    BY <1>3, <2>2, <2>3, <2>4, <2>5, <2>6, <2>7, <2>8, <2>9 DEF UsesFollow, Introduced
<1>19. NotYetThere'
    BY <1>4 DEF NotYetThere
<1>20. LastNote'
    BY <1>3 DEF WindowInv, LastNote
<1>21. MainEnds'
    BY <1>3, <1>4 DEF WindowInv, MainEnds, Silent, Inserting
<1>22. LastEvent'
  <2>1. LastEvent
    BY DEF WindowInv
  <2>2. \A s \in Struct : Unused(s) => Unused(s)'
    BY <1>3, <1>4 DEF Unused, Silent, Inserting
  <2>3. \A i \in 1..Len(queue) : queue[i].type = "destroyed" => queue[i].win \in Struct
    BY <1>0 DEF Parts, WindowInv, Shape, QueueShape
  <2>4. ev'.type = "destroyed" => ev.type = "destroyed" /\ ev'.win = ev.win /\ ev.win \in Struct
    BY <1>1
  <2> QED
    BY <1>3, <2>1, <2>2, <2>3, <2>4 DEF LastEvent
<1>23. ToldLast'
    BY <1>1, <1>2, <1>3 DEF WindowInv, ToldLast
<1> QED
    BY <1>11, <1>12, <1>13, <1>14, <1>15, <1>16, <1>17, <1>18, <1>19, <1>20, <1>21,
       <1>22, <1>23 DEF WindowInv

----
(* Init establishes WindowInv, and every step keeps it.                    *)

(* The strengthening holds at the start.                                   *)
LEMMA InitInv == Init => WindowInv
<1> SUFFICES ASSUME Init PROVE WindowInv
    OBVIOUS
<1>1. /\ screen \in [Id -> {"unborn", "open", "minimized"}]
      /\ notes = <<>>
      /\ heap = [s \in Struct |-> "none"]
      /\ invalid = [s \in Struct |-> FALSE] /\ minimized = [s \in Struct |-> FALSE]
      /\ windows = [id \in Id |-> NoWindow] /\ registered = [id \in Id |-> NoWindow]
      /\ told = [s \in Struct |-> "nothing"] /\ focusDue = [s \in Struct |-> FALSE]
    BY DEF Init
<1>2. /\ main \in MainState /\ main.pc = "list" /\ main.type = "space" /\ main.win = NoWindow
  <2>1. MainIdle \in MainState /\ MainIdle.type = "space" /\ MainIdle.win = NoWindow
    BY DEF MainIdle, MainState, Reference, EventType
  <2> QED
    BY <2>1 DEF Init, MainState
<1>3. ev \in HandlerState /\ ev.pc = "idle" /\ ev.type = "space" /\ ev.win = NoWindow
    BY DEF Init, EventIdle, HandlerState, Reference, EventType
<1>4. /\ queue \in Seq(QueuedEvent) /\ Len(queue) \in Nat
      /\ \A i \in 1..Len(queue) : queue[i].type = "space" /\ queue[i].win = NoWindow
  <2>1. queue = <<>> \/ queue = <<Event("space", NoWindow)>>
    BY DEF Init
  <2>2. Event("space", NoWindow) \in QueuedEvent
    BY DEF Event, QueuedEvent, Reference, EventType
  <2>3. /\ Event("space", NoWindow).type = "space"
        /\ Event("space", NoWindow).win = NoWindow
    BY DEF Event
  <2>4. CASE queue = <<>>
    BY <2>4
  <2>5. CASE queue = <<Event("space", NoWindow)>>
    <3>1. \A e \in QueuedEvent : /\ <<e>> \in Seq(QueuedEvent) /\ Len(<<e>>) = 1
                               /\ \A i \in 1..1 : <<e>>[i] = e
        OBVIOUS
    <3> QED
        BY <2>2, <2>3, <2>5, <3>1
  <2> QED
    BY <2>1, <2>4, <2>5
<1>5. Len(notes) = 0 /\ notes \in Seq(Notification) /\ DOMAIN queue = 1..Len(queue)
    BY <1>1, <1>4, SeqFacts
<1>6. \A id \in Id : First(id) \in Struct /\ Noted(id) \in Struct
    BY StructFacts
<1>7. TypeOK
    BY <1>1, <1>2, <1>3, <1>4, <1>5 DEF TypeOK, Reference
<1>8. Shape
    BY <1>1, <1>2, <1>3, <1>4, <1>5
       DEF Shape, WindowShape, NoteShape, QueueShape, MainShape, EvShape, Phase
<1>9. LookupIsLive /\ EventsAreLive /\ RefsAreLive
    BY <1>1, <1>2, <1>3, <1>4, <1>5 DEF LookupIsLive, EventsAreLive, RefsAreLive
<1>10. FreedIsClosed /\ NotYetThere /\ LastNote /\ MainEnds /\ LastEvent /\ ToldLast
    BY <1>1, <1>2, <1>3, <1>4, <1>5
       DEF FreedIsClosed, NotYetThere, LastNote, MainEnds, LastEvent, ToldLast
<1>11. CreatedOnce
    BY <1>1, <1>3, <1>4, <1>5, <1>6 DEF CreatedOnce
<1>12. UsesFollow
  <2>1. \A s \in Struct : told[s] = "nothing"
    BY <1>1
  <2>2. \A id \in Id : windows[id] = NoWindow /\ registered[id] = NoWindow
    BY <1>1
  <2>3. \A i \in 1..Len(queue) : queue[i].type = "space"
    BY <1>4
  <2>4. 1..Len(notes) = {}
    BY <1>5
  <2> QED
    BY <1>2, <1>3, <2>1, <2>2, <2>3, <2>4 DEF UsesFollow
<1> QED
    BY <1>7, <1>8, <1>9, <1>10, <1>11, <1>12 DEF WindowInv

(* Every step of the user and of both threads keeps it.                    *)
LEMMA StepInv == WindowInv /\ [Next]_vars => WindowInv'
<1> SUFFICES ASSUME WindowInv, [Next]_vars PROVE WindowInv'
    OBVIOUS
<1>1. ASSUME NEW id \in Id, \/ OpenWindow(id) \/ CloseWindow(id) \/ MinimizeWindow(id)
                            \/ DeminimizeWindow(id) \/ TouchWindow(id)
      PROVE  WindowInv'
  <2>1. PICK u \in Seq(Notification), x \in {"open", "minimized", "closed"} : Sends(id, u, x)
    BY <1>1, UserSends
  <2> QED
    BY <2>1, UserStep
<1>2. User => WindowInv'
    BY <1>1, SwitchSpaceStep DEF User
<1>3. FirstSearch => WindowInv'
  <2>1. ASSUME NEW id \in Id, ScanFirst(id) PROVE WindowInv'
    BY <2>1, ScanFirstStep, QuietMainSteps, QuietMainStep
  <2> QED
    BY <2>1, InsertFirstStep, QuietMainSteps, QuietMainStep DEF FirstSearch
<1>4. ApplicationCallback => WindowInv'
    BY NotifyCreatedStep, NotifySteps, MainHoldsStep, EraseWindowStep, QuietMainSteps,
       QuietMainStep, PostEventStep DEF ApplicationCallback
<1>5. HandleEvent => WindowInv'
  <2>1. ASSUME NEW id \in Id, ScanWindow(id) PROVE WindowInv'
    BY <2>1, ScanWindowStep, QuietEvSteps, QuietEvStep
  <2>2. RegisterCreated => WindowInv'
    BY RegisterClosedStep, RegisterOpenStep
  <2> QED
    BY <2>1, <2>2, TakeEventStep, InsertWindowStep, QuietEvSteps, QuietEvStep, TellPluginsStep,
       RestoreFocusStep, FreeWindowStep DEF HandleEvent
<1>6. UNCHANGED vars => WindowInv'
  <2> SUFFICES ASSUME UNCHANGED vars PROVE WindowInv'
    OBVIOUS
  <2>1. UNCHANGED <<screen, notes, registered, heap, invalid, minimized, windows, main, queue,
                    ev, told, focusDue>>
    BY DEF vars, axVars, structVars, history
  <2> QED
    BY <2>1, SMTT(60) DEF WindowInv, TypeOK, Shape, WindowShape, NoteShape, QueueShape, MainShape, EvShape,
                LookupIsLive, EventsAreLive, RefsAreLive, Live, FreedIsClosed, CreatedOnce,
                UsesFollow, Introduced, Announcing, NotYetThere, Inserting, LastNote, MainEnds,
                LastEvent, Unused, Silent, ToldLast
<1> QED
    BY <1>2, <1>3, <1>4, <1>5, <1>6 DEF Next

(* The strengthening holds all the time.                                   *)
THEOREM InvariantHolds == Spec => []WindowInv
<1> QED
    BY InitInv, StepInv, PTL DEF Spec

(* The main and the event thread only hold allocated structs, but for a    *)
(* focus event (GetWindowByID, ConstructEvent, AXLibDestroyWindow), for    *)
(* any windows and any number of notifications and events under way.       *)
THEOREM StructsStayInUse == Spec => []StructsOutliveUse
<1>1. WindowInv => StructsOutliveUse
    BY DEF WindowInv, StructsOutliveUse
<1> QED
    BY <1>1, InvariantHolds, PTL

(* The plugins hear of a struct in order: its creation first, its end last *)
(* (the handlers of core/callback.cpp).                                    *)
THEOREM PluginsHearInOrder == Spec => []PluginOrder
<1>1. WindowInv => PluginOrder
  <2> SUFFICES ASSUME WindowInv, ev.pc = "tell"
               PROVE  /\ told[ev.win] = "destroyed" => ev.type = "focused"
                      /\ ev.type = "created" => told[ev.win] = "nothing"
                      /\ ev.type # "created" /\ ev.win \in {Noted(id) : id \in Id} =>
                            told[ev.win] # "nothing"
    BY DEF PluginOrder
  <2>1. ev.type # "space" /\ ev.win \in Struct
    BY EvFacts
  <2>2. told[ev.win] = "destroyed" => heap[ev.win] = "freed"
    BY <2>1 DEF WindowInv, ToldLast
  <2>3. told[ev.win] = "destroyed" => ev.type = "focused"
    BY <2>1, <2>2 DEF WindowInv, EventsAreLive, Live
  <2>4. ev.type = "created" => told[ev.win] = "nothing"
    BY DEF WindowInv, UsesFollow
  <2>5. {Noted(id) : id \in Id} \subseteq NotedStruct
    BY StructFacts
  <2>6. ev.type # "created" /\ ev.win \in NotedStruct => told[ev.win] # "nothing"
    BY <2>1 DEF WindowInv, UsesFollow
  <2> QED
    BY <2>3, <2>4, <2>5, <2>6
<1> QED
    BY <1>1, InvariantHolds, PTL
====
