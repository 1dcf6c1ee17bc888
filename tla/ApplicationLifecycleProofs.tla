--------------------- MODULE ApplicationLifecycleProofs ---------------------
(***************************************************************************)
(* Proofs about ApplicationLifecycle, for any set of processes, any        *)
(* timeout and any number of events under way: RecordsOutliveUse and       *)
(* PluginOrder are invariants of Spec.                                     *)
(*                                                                         *)
(* Neither is inductive.  The strengthening AppInv follows a process       *)
(* through its launch: while the block of the launch is pending nobody     *)
(* else knows of the process; then the block adds its application to the   *)
(* map before it reports the launch; and when its end is reported, which   *)
(* happens once, the process has left the cache, no block is pending, and  *)
(* nothing but its launch is ahead in the queue.                           *)
(***************************************************************************)
EXTENDS ApplicationLifecycle, TLAPS

Lifecycle == {"launched", "terminated"}

(* The processes that are the subject of an event or a Carbon event.       *)
Sent(kind) == {p \in Process : \E i \in 1..Len(carbon) : carbon[i] = <<kind, p>>}
Queued(kind) ==
    {p \in Process : \E i \in 1..Len(queue) : queue[i].type = kind /\ queue[i].proc = p}
Handled(kind) == {p \in Process : ev.pc # "idle" /\ ev.event.type = kind /\ ev.event.proc = p}

InUse(p) == \/ p \in Queued("launched") \/ p \in Queued("terminated")
            \/ p \in Handled("launched") \/ p \in Handled("terminated")

(* Its launch has been reported and the plugins are still to hear of it.   *)
ToBeTold(p) == \/ p \in Queued("launched")
               \/ p \in Handled("launched") /\ ev.pc \in {"find", "tell"}

Ended(p) == info[p] = "freed" \/ p \in Queued("terminated") \/ p \in Handled("terminated")

(* Carbon has nothing more to say of it.                                   *)
Closed(p) == /\ proc[p] = "gone" /\ p \notin cache
             /\ p \notin Sent("launched") /\ p \notin Sent("terminated")

BeforeRun ==
    /\ boot # "run" =>
        /\ main = MainIdle /\ ev = EventIdle /\ queue = <<>> /\ observed = {}
        /\ \A p \in Process : /\ timer[p] = NoTimer /\ told[p] = "nothing"
                              /\ applications[p] = NoApp
                              /\ info[p] \in {"none", "Finished"}
        /\ \A a \in App : app[a] = "none"
    /\ boot \in {"cache", "install"} => carbon = <<>>
    /\ boot = "cache" => \A p \in Process : info[p] = "none"

MainShape == /\ main.pc = "idle" <=> main.app = NoApp
             /\ main.app # NoApp => main.app = Launched(main.app[1])

EvShape == /\ ev.pc = "idle" => ev = EventIdle
           /\ ev.pc # "idle" => ev.event \in QueuedEvent
           /\ ev.pc # "assert"
           /\ ev.pc = "register" => ev.event.type = "created"
           /\ ev.pc \in {"remove", "end"} => ev.event.type = "terminated"
           /\ ev.pc = "restore" => ev.event.type = "launched"
           /\ ev.pc \in {"tell", "remove"} =>
                ev.app = applications[ev.event.proc] /\ ev.app # NoApp

(* Each is reported once, and the end of a process after its launch.       *)
CarbonOrder ==
    \A i, j \in 1..Len(carbon) : i < j /\ carbon[i][2] = carbon[j][2] =>
        carbon[i][1] = "launched" /\ carbon[j][1] = "terminated"

EventOrder ==
    \A i, j \in 1..Len(queue) :
        /\ i < j /\ queue[i].proc = queue[j].proc
        /\ queue[i].type \in Lifecycle /\ queue[j].type \in Lifecycle
        => queue[i].type = "launched" /\ queue[j].type = "terminated"

HandledFirst ==
    \A p \in Process :
        /\ p \in Handled("launched") => p \notin Queued("launched")
        /\ p \in Handled("terminated") => p \notin Queued("launched") /\ p \notin Queued("terminated")

Reports ==
    \A p \in Process :
        /\ p \in Sent("launched") => info[p] = "none" /\ proc[p] # "unborn"
        /\ p \in Sent("terminated") => proc[p] = "gone"
        /\ proc[p] = "unborn" => info[p] = "none"

(* The end of a process is reported when all else has been.                *)
EndIsLast == \A p \in Process : /\ info[p] = "Invalid" \/ Ended(p) => Closed(p)
                                /\ info[p] = "freed" => ~InUse(p)

Unknown == \A p \in Process : info[p] = "none" =>
    /\ p \notin cache /\ timer[p] = NoTimer /\ ~InUse(p)
    /\ app[Launched(p)] = "none" /\ told[p] = "nothing" /\ main.app # Launched(p)

(* While a block is pending the application is known to the block alone.   *)
Launching == \A p \in Process :
    /\ timer[p] # NoTimer =>
        /\ info[p] \in {"In_Progress", "Invalid"} /\ app[Launched(p)] = "live"
        /\ applications[p] # Launched(p) /\ told[p] = "nothing" /\ ~InUse(p)
    /\ info[p] = "In_Progress" => timer[p] # NoTimer /\ p \in cache

Adding == \A p \in Process : main.app = Launched(p) =>
    /\ p \in cache /\ timer[p] = NoTimer /\ app[Launched(p)] = "live"
    /\ told[p] = "nothing" /\ ~InUse(p)
    /\ main.pc = "post" => applications[p] # NoApp

LaunchIsFound == \A p \in Process : ToBeTold(p) => told[p] = "nothing" /\ applications[p] # NoApp

MapIsLive == \A p \in Process : applications[p] # NoApp =>
                applications[p][1] = p /\ app[applications[p]] = "live"

AddedIsTold == \A p \in Process : applications[p] = Launched(p) =>
    told[p] # "nothing" \/ main.app = Launched(p) \/ ToBeTold(p)

ToldLast == \A p \in Process : told[p] = "terminated" =>
    /\ Ended(p)
    /\ applications[p] = NoApp \/ (p \in Handled("terminated") /\ ev.pc = "remove")

AppInv == /\ TypeOK /\ BeforeRun /\ MainShape /\ EvShape
          /\ CarbonOrder /\ EventOrder /\ HandledFirst
          /\ Reports /\ EndIsLast /\ Unknown /\ Launching /\ Adding
          /\ LaunchIsFound /\ MapIsLive /\ AddedIsTold /\ ToldLast

----
(* What the proofs use of applications, of sequences and of the types.     *)

(* The two applications of a process are told apart, and are its own.      *)
LEMMA AppFacts ==
    /\ NoApp \notin App /\ NoTimer = -1 /\ Timeout \in Nat
    /\ \A a \in App : a[1] \in Process
    /\ \A p \in Process : /\ Listed(p) \in App /\ Launched(p) \in App
                          /\ Listed(p)[1] = p /\ Launched(p)[1] = p
                          /\ Listed(p) # NoApp /\ Launched(p) # NoApp
    /\ \A p, q \in Process : Listed(p) # Launched(q)
    /\ \A a \in App : a = Listed(a[1]) \/ a = Launched(a[1])
BY ProcessAssumption DEF App, Listed, Launched, NoTimer

(* A sequence with one more element.                                       *)
LEMMA AppendFacts ==
    ASSUME NEW S, NEW s \in Seq(S), NEW e \in S, NEW t, t = Append(s, e)
    PROVE  /\ t \in Seq(S)
           /\ Len(s) \in Nat /\ Len(t) = Len(s) + 1
           /\ \A i \in 1..Len(s) : t[i] = s[i]
           /\ t[Len(t)] = e
OBVIOUS

(* A sequence without its head.                                            *)
LEMMA TailFacts ==
    ASSUME NEW S, NEW s \in Seq(S), s # <<>>, NEW t, t = Tail(s)
    PROVE  /\ t \in Seq(S)
           /\ Len(s) \in Nat /\ Len(s) >= 1 /\ Len(t) = Len(s) - 1
           /\ Head(s) = s[1] /\ s[1] \in S
           /\ \A i \in 1..Len(t) : t[i] = s[i + 1]
OBVIOUS

(* The elements of a sequence.                                             *)
LEMMA SeqFacts ==
    ASSUME NEW S, NEW s \in Seq(S)
    PROVE  /\ Len(s) \in Nat /\ DOMAIN s = 1..Len(s)
           /\ \A i \in 1..Len(s) : s[i] \in S
OBVIOUS

(* What Carbon events, queued events and the two threads consist of.       *)
LEMMA RecordFacts ==
    /\ \A r \in Report : r[1] \in Lifecycle /\ r[2] \in Process /\ r = <<r[1], r[2]>>
    /\ \A k \in Lifecycle, p \in Process : /\ <<k, p>> \in Report
                                           /\ <<k, p>>[1] = k /\ <<k, p>>[2] = p
    /\ \A e \in QueuedEvent :
        /\ e.type \in {"launched", "terminated", "activated", "changed", "created"}
        /\ e.proc \in Process /\ e.owner \in Reference
    /\ \A t \in {"launched", "terminated", "activated", "changed", "created"},
          p \in Process, o \in Reference :
        /\ Event(t, p, o) \in QueuedEvent /\ Event(t, p, o).type = t
        /\ Event(t, p, o).proc = p /\ Event(t, p, o).owner = o
    /\ NoApp \in Reference
    /\ MainIdle \in MainState /\ MainIdle.pc = "idle" /\ MainIdle.app = NoApp
    /\ EventIdle \in HandlerState /\ EventIdle.pc = "idle" /\ EventIdle.app = NoApp
<1>1. \A r \in Report : r[1] \in Lifecycle /\ r[2] \in Process /\ r = <<r[1], r[2]>>
    BY DEF Report, Lifecycle
<1>2. \A k \in Lifecycle, p \in Process : /\ <<k, p>> \in Report
                                         /\ <<k, p>>[1] = k /\ <<k, p>>[2] = p
    BY DEF Report, Lifecycle
<1>3. \A e \in QueuedEvent :
        /\ e.type \in {"launched", "terminated", "activated", "changed", "created"}
        /\ e.proc \in Process /\ e.owner \in Reference
    BY DEF QueuedEvent
<1>4. \A t \in {"launched", "terminated", "activated", "changed", "created"},
         p \in Process, o \in Reference :
        /\ Event(t, p, o) \in QueuedEvent /\ Event(t, p, o).type = t
        /\ Event(t, p, o).proc = p /\ Event(t, p, o).owner = o
    BY DEF QueuedEvent, Event
<1>5. /\ NoApp \in Reference
      /\ MainIdle \in MainState /\ MainIdle.pc = "idle" /\ MainIdle.app = NoApp
      /\ EventIdle \in HandlerState /\ EventIdle.pc = "idle" /\ EventIdle.app = NoApp
    BY DEF Reference, MainState, HandlerState, MainIdle, EventIdle
<1> QED
    BY <1>1, <1>2, <1>3, <1>4, <1>5

(* What the types say of each component.                                   *)
Parts == /\ proc \in [Process -> {"unborn", "launching", "ready", "gone"}]
         /\ interactive \subseteq Process
         /\ boot \in {"cache", "install", "list", "run"}
         /\ carbon \in Seq(Report)
         /\ creations \subseteq observed /\ observed \subseteq App
         /\ cache \subseteq Process
         /\ info \in [Process -> InfoState]
         /\ elapsed \in [Process -> 0..Timeout]
         /\ timer \in [Process -> {NoTimer, 0, 1}]
         /\ app \in [App -> {"none", "live", "freed"}]
         /\ applications \in [Process -> Reference]
         /\ main \in MainState /\ main.app \in Reference
         /\ queue \in Seq(QueuedEvent)
         /\ ev \in HandlerState /\ ev.app \in Reference
         /\ told \in [Process -> {"nothing", "launched", "terminated"}]
         /\ activateDue \subseteq Process

(* The type invariant, component by component.                             *)
LEMMA PartsHold == TypeOK <=> Parts
<1>1. main \in MainState => main.app \in Reference
    BY DEF MainState
<1>2. ev \in HandlerState => ev.app \in Reference
    BY DEF HandlerState
<1> QED
    BY <1>1, <1>2 DEF TypeOK, Parts

(* What does not change without the sequence or the handler.               *)
LEMMA Frames ==
    /\ UNCHANGED carbon => \A kind : Sent(kind)' = Sent(kind)
    /\ UNCHANGED queue => \A kind : Queued(kind)' = Queued(kind)
    /\ UNCHANGED ev => \A kind : Handled(kind)' = Handled(kind)
    /\ UNCHANGED carbon => CarbonOrder' = CarbonOrder
    /\ UNCHANGED queue => EventOrder' = EventOrder
BY DEF Sent, Queued, Handled, CarbonOrder, EventOrder

(* An event about the process p is added to the queue.                     *)
LEMMA PostFacts ==
    ASSUME queue \in Seq(QueuedEvent), EventOrder,
           NEW t \in {"launched", "terminated", "activated", "changed", "created"},
           NEW p \in Process, NEW o \in Reference, queue' = Append(queue, Event(t, p, o)),
           t \in Lifecycle => p \notin Queued(t) /\ p \notin Queued("terminated")
    PROVE  /\ queue' \in Seq(QueuedEvent) /\ EventOrder'
           /\ \A kind \in Lifecycle :
                Queued(kind)' = IF kind = t THEN Queued(kind) \union {p} ELSE Queued(kind)
<1>1. /\ Event(t, p, o) \in QueuedEvent /\ Event(t, p, o).type = t /\ Event(t, p, o).proc = p
    BY RecordFacts
<1>2. /\ queue' \in Seq(QueuedEvent)
      /\ Len(queue) \in Nat /\ Len(queue') = Len(queue) + 1
      /\ \A i \in 1..Len(queue) : queue'[i] = queue[i]
      /\ queue'[Len(queue')] = Event(t, p, o)
    BY <1>1, AppendFacts
<1>3. \A i \in 1..Len(queue') : \/ i \in 1..Len(queue) /\ queue'[i] = queue[i]
                                \/ i = Len(queue') /\ queue'[i].type = t /\ queue'[i].proc = p
    BY <1>1, <1>2
<1>4. \A kind \in Lifecycle :
        Queued(kind)' = IF kind = t THEN Queued(kind) \union {p} ELSE Queued(kind)
  <2> SUFFICES ASSUME NEW kind \in Lifecycle, NEW q \in Process
               PROVE  q \in Queued(kind)' <=> (q \in Queued(kind) \/ (kind = t /\ q = p))
    BY DEF Queued
  <2>1. ASSUME q \in Queued(kind) PROVE q \in Queued(kind)'
    <3>1. PICK i \in 1..Len(queue) : queue[i].type = kind /\ queue[i].proc = q
        BY <2>1 DEF Queued
    <3>2. i \in 1..Len(queue') /\ queue'[i] = queue[i]
        BY <1>2
    <3> QED
        BY <3>1, <3>2 DEF Queued
  <2>2. ASSUME kind = t, q = p PROVE q \in Queued(kind)'
    <3>1. Len(queue') \in 1..Len(queue')
        BY <1>2
    <3> QED
        BY <1>1, <1>2, <2>2, <3>1 DEF Queued
  <2>3. ASSUME q \in Queued(kind)' PROVE q \in Queued(kind) \/ (kind = t /\ q = p)
    <3>1. PICK i \in 1..Len(queue') : queue'[i].type = kind /\ queue'[i].proc = q
        BY <2>3 DEF Queued
    <3> QED
        BY <1>3, <3>1 DEF Queued
  <2> QED
    BY <2>1, <2>2, <2>3
<1>5. EventOrder'
  <2> SUFFICES ASSUME NEW i \in 1..Len(queue'), NEW j \in 1..Len(queue'), i < j,
                      queue'[i].proc = queue'[j].proc,
                      queue'[i].type \in Lifecycle, queue'[j].type \in Lifecycle
               PROVE  queue'[i].type = "launched" /\ queue'[j].type = "terminated"
    BY DEF EventOrder
  <2>1. i \in 1..Len(queue) /\ queue'[i] = queue[i]
    BY <1>2
  <2>2. CASE j \in 1..Len(queue) /\ queue'[j] = queue[j]
    BY <2>1, <2>2 DEF EventOrder
  <2>3. CASE j = Len(queue') /\ queue'[j].type = t /\ queue'[j].proc = p
    <3>1. p \in Queued(queue[i].type)
        BY <2>1, <2>3 DEF Queued
    <3> QED
        BY <2>1, <2>3, <3>1 DEF Lifecycle
  <2> QED
    BY <1>3, <2>2, <2>3
<1> QED
    BY <1>2, <1>4, <1>5

(* The handler takes the first event of the queue.                         *)
LEMMA TakeFacts ==
    ASSUME queue \in Seq(QueuedEvent), EventOrder, queue # <<>>, queue' = Tail(queue)
    PROVE  /\ queue' \in Seq(QueuedEvent) /\ EventOrder'
           /\ Head(queue) \in QueuedEvent
           /\ \A kind \in Lifecycle :
                Queued(kind) = IF kind = Head(queue).type
                               THEN Queued(kind)' \union {Head(queue).proc} ELSE Queued(kind)'
           /\ Head(queue).type = "launched" => Head(queue).proc \notin Queued("launched")'
           /\ Head(queue).type = "terminated" =>
                \A kind \in Lifecycle : Head(queue).proc \notin Queued(kind)'
<1>1. /\ queue' \in Seq(QueuedEvent)
      /\ Len(queue) \in Nat /\ Len(queue) >= 1 /\ Len(queue') = Len(queue) - 1
      /\ Head(queue) = queue[1] /\ queue[1] \in QueuedEvent
      /\ \A i \in 1..Len(queue') : queue'[i] = queue[i + 1]
    BY TailFacts
<1>2. \A i \in 1..Len(queue') : i + 1 \in 2..Len(queue) /\ queue'[i] = queue[i + 1]
    BY <1>1
<1>3. \A i \in 1..Len(queue) : i = 1 \/ (i - 1 \in 1..Len(queue') /\ queue'[i - 1] = queue[i])
    BY <1>1
<1>4. EventOrder'
  <2> SUFFICES ASSUME NEW i \in 1..Len(queue'), NEW j \in 1..Len(queue'), i < j,
                      queue'[i].proc = queue'[j].proc,
                      queue'[i].type \in Lifecycle, queue'[j].type \in Lifecycle
               PROVE  queue'[i].type = "launched" /\ queue'[j].type = "terminated"
    BY DEF EventOrder
  <2>1. /\ i + 1 \in 1..Len(queue) /\ j + 1 \in 1..Len(queue) /\ i + 1 < j + 1
        /\ queue'[i] = queue[i + 1] /\ queue'[j] = queue[j + 1]
    BY <1>1, <1>2
  <2> QED
    BY <2>1 DEF EventOrder
<1>5. ASSUME NEW kind \in Lifecycle, NEW q \in Process
      PROVE  q \in Queued(kind) <=>
                (q \in Queued(kind)' \/ (kind = queue[1].type /\ q = queue[1].proc))
  <2>1. ASSUME q \in Queued(kind)' PROVE q \in Queued(kind)
    <3>1. PICK i \in 1..Len(queue') : queue'[i].type = kind /\ queue'[i].proc = q
        BY <2>1 DEF Queued
    <3>2. i + 1 \in 1..Len(queue) /\ queue'[i] = queue[i + 1]
        BY <1>1, <1>2
    <3> QED
        BY <3>1, <3>2 DEF Queued
  <2>2. ASSUME kind = queue[1].type, q = queue[1].proc PROVE q \in Queued(kind)
    <3>1. 1 \in 1..Len(queue)
        BY <1>1
    <3> QED
        BY <2>2, <3>1 DEF Queued
  <2>3. ASSUME q \in Queued(kind)
        PROVE  q \in Queued(kind)' \/ (kind = queue[1].type /\ q = queue[1].proc)
    <3>1. PICK i \in 1..Len(queue) : queue[i].type = kind /\ queue[i].proc = q
        BY <2>3 DEF Queued
    <3> QED
        BY <1>3, <3>1 DEF Queued
  <2> QED
    BY <2>1, <2>2, <2>3
<1>6. ASSUME NEW kind \in Lifecycle, queue[1].type \in Lifecycle, queue[1].proc \in Queued(kind)'
      PROVE  queue[1].type = "launched" /\ kind = "terminated"
  <2>1. PICK i \in 1..Len(queue') : queue'[i].type = kind /\ queue'[i].proc = queue[1].proc
    BY <1>6 DEF Queued
  <2>2. 1 \in 1..Len(queue) /\ i + 1 \in 1..Len(queue) /\ 1 < i + 1 /\ queue'[i] = queue[i + 1]
    BY <1>1, <1>2
  <2> QED
    BY <1>6, <2>1, <2>2 DEF EventOrder
<1>7. \A kind \in Lifecycle :
        Queued(kind) = IF kind = queue[1].type
                       THEN Queued(kind)' \union {queue[1].proc} ELSE Queued(kind)'
  <2>1. queue[1].proc \in Process
    BY <1>1, RecordFacts
  <2> QED
    BY <1>5, <2>1 DEF Queued
<1> QED
    BY <1>1, <1>4, <1>6, <1>7 DEF Lifecycle

(* Carbon has something to say of the process p.                           *)
LEMMA TellFacts ==
    ASSUME carbon \in Seq(Report), CarbonOrder, NEW kind \in Lifecycle, NEW p \in Process,
           Tell(kind, p), p \notin Sent("terminated"),
           kind = "launched" => p \notin Sent("launched")
    PROVE  /\ carbon' \in Seq(Report) /\ CarbonOrder'
           /\ \/ carbon' = carbon
              \/ boot \notin {"cache", "install"}
           /\ \A k \in Lifecycle : \/ Sent(k)' = Sent(k)
                                   \/ k = kind /\ Sent(k)' = Sent(k) \union {p}
<1>1. CASE boot = "cache" \/ boot = "install"
  <2>1. carbon' = carbon
    BY <1>1 DEF Tell
  <2> QED
    BY <2>1, Frames
<1>2. CASE ~(boot = "cache" \/ boot = "install")
  <2>1. carbon' = Append(carbon, <<kind, p>>)
    BY <1>2 DEF Tell
  <2>2. <<kind, p>> \in Report /\ <<kind, p>>[1] = kind /\ <<kind, p>>[2] = p
    BY RecordFacts
  <2>3. /\ carbon' \in Seq(Report)
        /\ Len(carbon) \in Nat /\ Len(carbon') = Len(carbon) + 1
        /\ \A i \in 1..Len(carbon) : carbon'[i] = carbon[i]
        /\ carbon'[Len(carbon')] = <<kind, p>>
    BY <2>1, <2>2, AppendFacts
  <2>4. \A i \in 1..Len(carbon') : \/ i \in 1..Len(carbon) /\ carbon'[i] = carbon[i]
                                   \/ i = Len(carbon') /\ carbon'[i] = <<kind, p>>
    BY <2>3
  <2>5. ASSUME NEW k \in Lifecycle, NEW q \in Process
        PROVE  q \in Sent(k)' <=> (q \in Sent(k) \/ (k = kind /\ q = p))
    <3>1. ASSUME q \in Sent(k) PROVE q \in Sent(k)'
        <4>1. PICK i \in 1..Len(carbon) : carbon[i] = <<k, q>>
            BY <3>1 DEF Sent
        <4>2. i \in 1..Len(carbon') /\ carbon'[i] = carbon[i]
            BY <2>3
        <4> QED
            BY <4>1, <4>2 DEF Sent
    <3>2. ASSUME k = kind, q = p PROVE q \in Sent(k)'
        <4>1. Len(carbon') \in 1..Len(carbon')
            BY <2>3
        <4> QED
            BY <2>3, <3>2, <4>1 DEF Sent
    <3>3. ASSUME q \in Sent(k)' PROVE q \in Sent(k) \/ (k = kind /\ q = p)
        <4>1. PICK i \in 1..Len(carbon') : carbon'[i] = <<k, q>>
            BY <3>3 DEF Sent
        <4>2. CASE i \in 1..Len(carbon) /\ carbon'[i] = carbon[i]
            BY <4>1, <4>2 DEF Sent
        <4>3. CASE carbon'[i] = <<kind, p>>
            BY <4>1, <4>3
        <4> QED
            BY <2>4, <4>2, <4>3
    <3> QED
        BY <3>1, <3>2, <3>3
  <2>6. \A k \in Lifecycle : Sent(k)' = IF k = kind THEN Sent(k) \union {p} ELSE Sent(k)
    BY <2>5 DEF Sent
  <2>7. CarbonOrder'
    <3> SUFFICES ASSUME NEW i \in 1..Len(carbon'), NEW j \in 1..Len(carbon'), i < j,
                        carbon'[i][2] = carbon'[j][2]
                 PROVE  carbon'[i][1] = "launched" /\ carbon'[j][1] = "terminated"
        BY DEF CarbonOrder
    <3>1. i \in 1..Len(carbon) /\ carbon'[i] = carbon[i]
        BY <2>3
    <3>2. CASE j \in 1..Len(carbon) /\ carbon'[j] = carbon[j]
        BY <3>1, <3>2 DEF CarbonOrder
    <3>3. CASE carbon'[j] = <<kind, p>>
        <4>1. carbon[i] \in Report
            BY <3>1, SeqFacts
        <4>2. carbon[i] = <<carbon[i][1], p>> /\ carbon[i][1] \in Lifecycle
            BY <2>2, <3>1, <3>3, <4>1, RecordFacts
        <4>3. p \in Sent(carbon[i][1])
            BY <3>1, <4>2 DEF Sent
        <4> QED
            BY <2>2, <3>1, <3>3, <4>2, <4>3 DEF Lifecycle
    <3> QED
        BY <2>4, <3>2, <3>3
  <2> QED
    BY <1>2, <2>3, <2>6, <2>7
<1> QED
    BY <1>1, <1>2

(* The first Carbon event is delivered.                                    *)
LEMMA CarbonFacts ==
    ASSUME carbon \in Seq(Report), CarbonOrder, NEW kind \in Lifecycle, NEW p \in Process,
           CarbonEvent(kind, p)
    PROVE  /\ carbon' \in Seq(Report) /\ CarbonOrder'
           /\ p \in Sent(kind)
           /\ p \notin Sent("launched")' /\ (kind = "terminated" => p \notin Sent("terminated")')
           /\ \A k \in Lifecycle : Sent(k)' \subseteq Sent(k)
<1>1. carbon # <<>> /\ Head(carbon) = <<kind, p>> /\ carbon' = Tail(carbon)
    BY DEF CarbonEvent
<1>2. /\ carbon' \in Seq(Report)
      /\ Len(carbon) \in Nat /\ Len(carbon) >= 1 /\ Len(carbon') = Len(carbon) - 1
      /\ carbon[1] = <<kind, p>>
      /\ \A i \in 1..Len(carbon') : carbon'[i] = carbon[i + 1]
    BY <1>1, TailFacts
<1>3. 1 \in 1..Len(carbon) /\ \A i \in 1..Len(carbon') : i + 1 \in 1..Len(carbon) /\ 1 < i + 1
    BY <1>2
<1>4. p \in Sent(kind)
    BY <1>2, <1>3 DEF Sent
<1>5. \A k \in Lifecycle : Sent(k)' \subseteq Sent(k)
  <2> SUFFICES ASSUME NEW k \in Lifecycle, NEW q \in Process, q \in Sent(k)'
               PROVE  q \in Sent(k)
    BY DEF Sent
  <2>1. PICK i \in 1..Len(carbon') : carbon'[i] = <<k, q>>
    BY DEF Sent
  <2> QED
    BY <1>2, <1>3, <2>1 DEF Sent
<1>6. CarbonOrder'
  <2> SUFFICES ASSUME NEW i \in 1..Len(carbon'), NEW j \in 1..Len(carbon'), i < j,
                      carbon'[i][2] = carbon'[j][2]
               PROVE  carbon'[i][1] = "launched" /\ carbon'[j][1] = "terminated"
    BY DEF CarbonOrder
  <2>1. /\ i + 1 \in 1..Len(carbon) /\ j + 1 \in 1..Len(carbon) /\ i + 1 < j + 1
        /\ carbon'[i] = carbon[i + 1] /\ carbon'[j] = carbon[j + 1]
    BY <1>2, <1>3
  <2> QED
    BY <2>1 DEF CarbonOrder
<1>7. ASSUME NEW k \in Lifecycle, p \in Sent(k)' PROVE kind = "launched" /\ k = "terminated"
  <2>1. PICK i \in 1..Len(carbon') : carbon'[i] = <<k, p>>
    BY <1>7 DEF Sent
  <2>2. carbon[i + 1] = <<k, p>> /\ carbon[1] = <<kind, p>>
    BY <1>2, <2>1
  <2>3. carbon[1][2] = carbon[i + 1][2] /\ carbon[1][1] = kind /\ carbon[i + 1][1] = k
    BY <2>2
  <2> QED
    BY <1>3, <2>3 DEF CarbonOrder
<1> QED
    BY <1>2, <1>4, <1>5, <1>6, <1>7 DEF Lifecycle

----
(* The processes.                                                          *)

(* A process is started.                                                   *)
LEMMA LaunchProcessStep ==
    ASSUME AppInv, NEW p \in Process, LaunchProcess(p)
    PROVE  AppInv'
<1>0. Parts
    BY PartsHold DEF AppInv
<1>1. /\ proc[p] = "unborn" /\ proc' = [proc EXCEPT ![p] = "launching"]
    BY DEF LaunchProcess
<1>2. UNCHANGED <<interactive, boot, creations, cache, info, elapsed, timer, app, observed,
                  applications, main, queue, ev, told, activateDue>>
    BY DEF LaunchProcess, system, infoVars, appVars, history
<1>3. /\ \A kind : Queued(kind)' = Queued(kind)
      /\ \A kind : Handled(kind)' = Handled(kind)
      /\ EventOrder'
    BY <1>2, Frames DEF AppInv
<1>4. info[p] = "none" /\ p \notin Sent("terminated") /\ p \notin Sent("launched")
    BY <1>1 DEF AppInv, Reports
<1>5. /\ carbon' \in Seq(Report) /\ CarbonOrder'
      /\ carbon' = carbon \/ boot \notin {"cache", "install"}
      /\ \A k \in Lifecycle : \/ Sent(k)' = Sent(k)
                              \/ k = "launched" /\ Sent(k)' = Sent(k) \union {p}
    BY <1>0, <1>4, TellFacts DEF AppInv, LaunchProcess, Lifecycle, Parts
<1>6. proc' \in [Process -> {"unborn", "launching", "ready", "gone"}]
    BY <1>0, <1>1 DEF Parts
<1>7. /\ proc'[p] = "launching" /\ \A q \in Process : q # p => proc'[q] = proc[q]
      /\ Sent("terminated")' = Sent("terminated")
      /\ Sent("launched")' \subseteq Sent("launched") \union {p}
    BY <1>0, <1>1, <1>5 DEF Parts, Lifecycle
<1>11. TypeOK'
  <2>1. Parts'
    BY <1>0, <1>2, <1>5, <1>6 DEF Parts
  <2> QED
    BY <2>1, Zenon DEF Parts, TypeOK
<1>12. BeforeRun'
    BY <1>2, <1>5 DEF AppInv, BeforeRun
<1>13. MainShape'
    BY <1>2, <1>3 DEF AppInv, MainShape
<1>14. EvShape'
    BY <1>2, <1>3 DEF AppInv, EvShape
<1>15. CarbonOrder'
    BY <1>5
<1>17. HandledFirst'
    BY <1>2, <1>3 DEF AppInv, HandledFirst
<1>18. Reports'
    BY <1>2, <1>4, <1>7 DEF AppInv, Reports
<1>19. EndIsLast'
  <2>1. info[p] # "Invalid" /\ ~Ended(p)
    BY <1>1, <1>4 DEF AppInv, EndIsLast, Closed
  <2> QED
    BY <1>2, <1>3, <1>7, <2>1 DEF AppInv, EndIsLast, InUse, Ended, Closed
<1>20. Unknown'
    BY <1>2, <1>3 DEF AppInv, Unknown, InUse
<1>21. Launching'
    BY <1>2, <1>3 DEF AppInv, Launching, InUse
<1>22. Adding'
    BY <1>2, <1>3 DEF AppInv, Adding, InUse
<1>23. LaunchIsFound'
    BY <1>2, <1>3 DEF AppInv, LaunchIsFound, ToBeTold
<1>24. MapIsLive'
    BY <1>2, <1>3 DEF AppInv, MapIsLive
<1>25. AddedIsTold'
    BY <1>2, <1>3 DEF AppInv, AddedIsTold, ToBeTold
<1>26. ToldLast'
    BY <1>2, <1>3 DEF AppInv, ToldLast, Ended
<1> QED
    BY <1>11, <1>12, <1>13, <1>14, <1>15, <1>3, <1>17, <1>18, <1>19, <1>20, <1>21,
       <1>22, <1>23, <1>24, <1>25, <1>26 DEF AppInv

(* It has been launched.                                                   *)
LEMMA FinishLaunchingStep ==
    ASSUME AppInv, NEW p \in Process, FinishLaunching(p)
    PROVE  AppInv'
<1>0. Parts
    BY PartsHold DEF AppInv
<1>1. /\ proc[p] = "launching" /\ proc' = [proc EXCEPT ![p] = "ready"]
    BY DEF FinishLaunching
<1>2. UNCHANGED <<interactive, boot, carbon, creations, cache, info, elapsed, timer, app,
                  observed, applications, main, queue, ev, told, activateDue>>
    BY DEF FinishLaunching, system, infoVars, appVars, history
<1>3. /\ \A kind : Sent(kind)' = Sent(kind)
      /\ \A kind : Queued(kind)' = Queued(kind)
      /\ \A kind : Handled(kind)' = Handled(kind)
      /\ CarbonOrder'
      /\ EventOrder'
    BY <1>2, Frames DEF AppInv
<1>11. TypeOK'
  <2>1. Parts'
    BY <1>0, <1>1, <1>2 DEF Parts
  <2> QED
    BY <2>1, Zenon DEF Parts, TypeOK
<1>12. BeforeRun'
    BY <1>2, <1>3 DEF AppInv, BeforeRun
<1>13. MainShape'
    BY <1>2, <1>3 DEF AppInv, MainShape
<1>14. EvShape'
    BY <1>2, <1>3 DEF AppInv, EvShape
<1>17. HandledFirst'
    BY <1>2, <1>3 DEF AppInv, HandledFirst
<1>18. Reports'
    BY <1>0, <1>1, <1>2, <1>3 DEF AppInv, Reports, Parts
<1>19. EndIsLast'
    BY <1>0, <1>1, <1>2, <1>3 DEF AppInv, EndIsLast, InUse, Ended, Closed, Parts
<1>20. Unknown'
    BY <1>2, <1>3 DEF AppInv, Unknown, InUse
<1>21. Launching'
    BY <1>2, <1>3 DEF AppInv, Launching, InUse
<1>22. Adding'
    BY <1>2, <1>3 DEF AppInv, Adding, InUse
<1>23. LaunchIsFound'
    BY <1>2, <1>3 DEF AppInv, LaunchIsFound, ToBeTold
<1>24. MapIsLive'
    BY <1>2, <1>3 DEF AppInv, MapIsLive
<1>25. AddedIsTold'
    BY <1>2, <1>3 DEF AppInv, AddedIsTold, ToBeTold
<1>26. ToldLast'
    BY <1>2, <1>3 DEF AppInv, ToldLast, Ended
<1> QED
    BY <1>11, <1>12, <1>13, <1>14, <1>3, <1>17, <1>18, <1>19, <1>20, <1>21, <1>22,
       <1>23, <1>24, <1>25, <1>26 DEF AppInv

(* It ends.                                                                *)
LEMMA QuitProcessStep ==
    ASSUME AppInv, NEW p \in Process, QuitProcess(p)
    PROVE  AppInv'
<1>0. Parts
    BY PartsHold DEF AppInv
<1>1. /\ proc[p] \in {"launching", "ready"} /\ proc' = [proc EXCEPT ![p] = "gone"]
    BY DEF QuitProcess, Alive
<1>2. UNCHANGED <<interactive, boot, creations, cache, info, elapsed, timer, app, observed,
                  applications, main, queue, ev, told, activateDue>>
    BY DEF QuitProcess, system, infoVars, appVars, history
<1>3. /\ \A kind : Queued(kind)' = Queued(kind)
      /\ \A kind : Handled(kind)' = Handled(kind)
      /\ EventOrder'
    BY <1>2, Frames DEF AppInv
<1>4. p \notin Sent("terminated")
    BY <1>1 DEF AppInv, Reports
<1>5. /\ carbon' \in Seq(Report) /\ CarbonOrder'
      /\ carbon' = carbon \/ boot \notin {"cache", "install"}
      /\ \A k \in Lifecycle : \/ Sent(k)' = Sent(k)
                              \/ k = "terminated" /\ Sent(k)' = Sent(k) \union {p}
    BY <1>0, <1>4, TellFacts DEF AppInv, QuitProcess, Lifecycle, Parts
<1>6. proc' \in [Process -> {"unborn", "launching", "ready", "gone"}]
    BY <1>0, <1>1 DEF Parts
<1>7. /\ proc'[p] = "gone" /\ \A q \in Process : q # p => proc'[q] = proc[q]
      /\ Sent("launched")' = Sent("launched")
      /\ Sent("terminated")' \subseteq Sent("terminated") \union {p}
    BY <1>0, <1>1, <1>5 DEF Parts, Lifecycle
<1>11. TypeOK'
  <2>1. Parts'
    BY <1>0, <1>2, <1>5, <1>6 DEF Parts
  <2> QED
    BY <2>1, Zenon DEF Parts, TypeOK
<1>12. BeforeRun'
    BY <1>2, <1>5 DEF AppInv, BeforeRun
<1>13. MainShape'
    BY <1>2, <1>3 DEF AppInv, MainShape
<1>14. EvShape'
    BY <1>2, <1>3 DEF AppInv, EvShape
<1>15. CarbonOrder'
    BY <1>5
<1>17. HandledFirst'
    BY <1>2, <1>3 DEF AppInv, HandledFirst
<1>18. Reports'
    BY <1>1, <1>2, <1>7 DEF AppInv, Reports
<1>19. EndIsLast'
  <2>1. info[p] # "Invalid" /\ ~Ended(p)
    BY <1>1 DEF AppInv, EndIsLast, Closed
  <2> QED
    BY <1>2, <1>3, <1>7, <2>1 DEF AppInv, EndIsLast, InUse, Ended, Closed
<1>20. Unknown'
    BY <1>2, <1>3 DEF AppInv, Unknown, InUse
<1>21. Launching'
    BY <1>2, <1>3 DEF AppInv, Launching, InUse
<1>22. Adding'
    BY <1>2, <1>3 DEF AppInv, Adding, InUse
<1>23. LaunchIsFound'
    BY <1>2, <1>3 DEF AppInv, LaunchIsFound, ToBeTold
<1>24. MapIsLive'
    BY <1>2, <1>3 DEF AppInv, MapIsLive
<1>25. AddedIsTold'
    BY <1>2, <1>3 DEF AppInv, AddedIsTold, ToBeTold
<1>26. ToldLast'
    BY <1>2, <1>3 DEF AppInv, ToldLast, Ended
<1> QED
    BY <1>11, <1>12, <1>13, <1>14, <1>15, <1>3, <1>17, <1>18, <1>19, <1>20, <1>21,
       <1>22, <1>23, <1>24, <1>25, <1>26 DEF AppInv

(* It creates a window.                                                    *)
LEMMA CreateWindowStep ==
    ASSUME AppInv, NEW p \in Process, CreateWindow(p)
    PROVE  AppInv'
<1>0. Parts
    BY PartsHold DEF AppInv
<1>1. /\ creations' \subseteq observed
    BY <1>0 DEF CreateWindow, Parts
<1>2. UNCHANGED <<proc, interactive, boot, carbon, cache, info, elapsed, timer, app, observed,
                  applications, main, queue, ev, told, activateDue>>
    BY DEF CreateWindow, system, infoVars, appVars, history
<1>3. /\ \A kind : Sent(kind)' = Sent(kind)
      /\ \A kind : Queued(kind)' = Queued(kind)
      /\ \A kind : Handled(kind)' = Handled(kind)
      /\ CarbonOrder'
      /\ EventOrder'
    BY <1>2, Frames DEF AppInv
<1>11. TypeOK'
  <2>1. Parts'
    BY <1>0, <1>1, <1>2 DEF Parts
  <2> QED
    BY <2>1, Zenon DEF Parts, TypeOK
<1>12. BeforeRun'
    BY <1>2, <1>3 DEF AppInv, BeforeRun
<1>13. MainShape'
    BY <1>2, <1>3 DEF AppInv, MainShape
<1>14. EvShape'
    BY <1>2, <1>3 DEF AppInv, EvShape
<1>17. HandledFirst'
    BY <1>2, <1>3 DEF AppInv, HandledFirst
<1>18. Reports'
    BY <1>2, <1>3 DEF AppInv, Reports
<1>19. EndIsLast'
    BY <1>2, <1>3 DEF AppInv, EndIsLast, InUse, Ended, Closed
<1>20. Unknown'
    BY <1>2, <1>3 DEF AppInv, Unknown, InUse
<1>21. Launching'
    BY <1>2, <1>3 DEF AppInv, Launching, InUse
<1>22. Adding'
    BY <1>2, <1>3 DEF AppInv, Adding, InUse
<1>23. LaunchIsFound'
    BY <1>2, <1>3 DEF AppInv, LaunchIsFound, ToBeTold
<1>24. MapIsLive'
    BY <1>2, <1>3 DEF AppInv, MapIsLive
<1>25. AddedIsTold'
    BY <1>2, <1>3 DEF AppInv, AddedIsTold, ToBeTold
<1>26. ToldLast'
    BY <1>2, <1>3 DEF AppInv, ToldLast, Ended
<1> QED
    BY <1>11, <1>12, <1>13, <1>14, <1>3, <1>17, <1>18, <1>19, <1>20, <1>21, <1>22,
       <1>23, <1>24, <1>25, <1>26 DEF AppInv

----
(* main, up to CFRunLoopRun.                                               *)

(* Before the event loop runs no process is the subject of an event.       *)
LEMMA NothingYet ==
    ASSUME AppInv, boot # "run"
    PROVE  \A p \in Process : ~InUse(p) /\ ~ToBeTold(p) /\ main.app # Launched(p)
<1>1. queue = <<>> /\ ev = EventIdle /\ main = MainIdle
    BY DEF AppInv, BeforeRun
<1>2. Len(queue) = 0
    BY <1>1
<1>3. ev.pc = "idle" /\ main.app = NoApp
    BY <1>1, RecordFacts
<1>4. \A kind : Queued(kind) = {} /\ Handled(kind) = {}
    BY <1>2, <1>3 DEF Queued, Handled
<1> QED
    BY <1>3, <1>4, AppFacts DEF InUse, ToBeTold

(* The processes that run are cached.                                      *)
LEMMA CacheStep ==
    ASSUME AppInv, CacheRunningProcesses
    PROVE  AppInv'
<1>0. Parts
    BY PartsHold DEF AppInv
<1>1. /\ boot = "cache" /\ boot' = "install"
      /\ cache' = {p \in Process : proc[p] \in {"launching", "ready"}}
      /\ info' = [p \in Process |-> IF p \in cache' THEN "Finished" ELSE info[p]]
  <2>1. /\ boot = "cache" /\ boot' = "install" /\ cache' = {p \in Process : Alive(p)}
        /\ info' = [p \in Process |-> IF Alive(p) THEN "Finished" ELSE info[p]]
    BY DEF CacheRunningProcesses
  <2> QED
    BY <2>1 DEF Alive
<1>2. UNCHANGED <<proc, interactive, carbon, creations, elapsed, timer, app, observed,
                  applications, main, queue, ev, told, activateDue>>
    BY DEF CacheRunningProcesses, system, infoVars, appVars, history
<1>3. /\ \A kind : Sent(kind)' = Sent(kind)
      /\ \A kind : Queued(kind)' = Queued(kind)
      /\ \A kind : Handled(kind)' = Handled(kind)
      /\ CarbonOrder'
      /\ EventOrder'
    BY <1>2, Frames DEF AppInv
<1>4. /\ \A p \in Process : ~InUse(p) /\ ~ToBeTold(p) /\ main.app # Launched(p)
      /\ \A p \in Process : info[p] = "none"
    BY <1>1, NothingYet DEF AppInv, BeforeRun
<1>5. \A p \in Process : /\ info'[p] \in {"none", "Finished"}
                         /\ info'[p] = "none" => p \notin cache'
                         /\ proc[p] = "unborn" => info'[p] = "none"
    BY <1>1, <1>4
<1>6. /\ \A p \in Process : p \notin Sent("launched") /\ p \notin Sent("terminated")
      /\ carbon = <<>>
  <2>1. carbon = <<>>
    BY <1>1 DEF AppInv, BeforeRun
  <2> QED
    BY <2>1 DEF Sent
<1>11. TypeOK'
  <2>1. cache' \subseteq Process /\ info' \in [Process -> InfoState]
    BY <1>0, <1>1 DEF Parts, InfoState
  <2>2. Parts'
    BY <1>0, <1>1, <1>2, <2>1 DEF Parts
  <2> QED
    BY <2>2, Zenon DEF Parts, TypeOK
<1>12. BeforeRun'
    BY <1>1, <1>2, <1>5, <1>6 DEF AppInv, BeforeRun
<1>13. MainShape'
    BY <1>2, <1>3 DEF AppInv, MainShape
<1>14. EvShape'
    BY <1>2, <1>3 DEF AppInv, EvShape
<1>17. HandledFirst'
    BY <1>2, <1>3 DEF AppInv, HandledFirst
<1>18. Reports'
    BY <1>2, <1>3, <1>5, <1>6 DEF AppInv, Reports
<1>19. EndIsLast'
    BY <1>2, <1>3, <1>4, <1>5 DEF EndIsLast, InUse, Ended
<1>20. Unknown'
    BY <1>2, <1>3, <1>4, <1>5 DEF AppInv, Unknown, InUse
<1>21. Launching'
    BY <1>1, <1>2, <1>3, <1>4, <1>5 DEF AppInv, Launching, InUse, BeforeRun
<1>22. Adding'
    BY <1>2, <1>4 DEF Adding
<1>23. LaunchIsFound'
    BY <1>2, <1>3 DEF AppInv, LaunchIsFound, ToBeTold
<1>24. MapIsLive'
    BY <1>2, <1>3 DEF AppInv, MapIsLive
<1>25. AddedIsTold'
    BY <1>2, <1>3 DEF AppInv, AddedIsTold, ToBeTold
<1>26. ToldLast'
    BY <1>1, <1>2 DEF AppInv, BeforeRun, ToldLast
<1> QED
    BY <1>11, <1>12, <1>13, <1>14, <1>3, <1>17, <1>18, <1>19, <1>20, <1>21, <1>22,
       <1>23, <1>24, <1>25, <1>26 DEF AppInv

(* The Carbon handler is installed.                                        *)
LEMMA InstallStep ==
    ASSUME AppInv, InstallHandler
    PROVE  AppInv'
<1>0. Parts
    BY PartsHold DEF AppInv
<1>1. /\ boot = "install" /\ boot' = "list"
    BY DEF InstallHandler
<1>2. UNCHANGED <<proc, interactive, carbon, creations, cache, info, elapsed, timer, app,
                  observed, applications, main, queue, ev, told, activateDue>>
    BY DEF InstallHandler, system, infoVars, appVars, history
<1>3. /\ \A kind : Sent(kind)' = Sent(kind)
      /\ \A kind : Queued(kind)' = Queued(kind)
      /\ \A kind : Handled(kind)' = Handled(kind)
      /\ CarbonOrder'
      /\ EventOrder'
    BY <1>2, Frames DEF AppInv
<1>11. TypeOK'
  <2>1. Parts'
    BY <1>0, <1>1, <1>2 DEF Parts
  <2> QED
    BY <2>1, Zenon DEF Parts, TypeOK
<1>12. BeforeRun'
    BY <1>1, <1>2 DEF AppInv, BeforeRun
<1>13. MainShape'
    BY <1>2, <1>3 DEF AppInv, MainShape
<1>14. EvShape'
    BY <1>2, <1>3 DEF AppInv, EvShape
<1>17. HandledFirst'
    BY <1>2, <1>3 DEF AppInv, HandledFirst
<1>18. Reports'
    BY <1>2, <1>3 DEF AppInv, Reports
<1>19. EndIsLast'
    BY <1>2, <1>3 DEF AppInv, EndIsLast, InUse, Ended, Closed
<1>20. Unknown'
    BY <1>2, <1>3 DEF AppInv, Unknown, InUse
<1>21. Launching'
    BY <1>2, <1>3 DEF AppInv, Launching, InUse
<1>22. Adding'
    BY <1>2, <1>3 DEF AppInv, Adding, InUse
<1>23. LaunchIsFound'
    BY <1>2, <1>3 DEF AppInv, LaunchIsFound, ToBeTold
<1>24. MapIsLive'
    BY <1>2, <1>3 DEF AppInv, MapIsLive
<1>25. AddedIsTold'
    BY <1>2, <1>3 DEF AppInv, AddedIsTold, ToBeTold
<1>26. ToldLast'
    BY <1>2, <1>3 DEF AppInv, ToldLast, Ended
<1> QED
    BY <1>11, <1>12, <1>13, <1>14, <1>3, <1>17, <1>18, <1>19, <1>20, <1>21, <1>22,
       <1>23, <1>24, <1>25, <1>26 DEF AppInv

(* InitState adds the applications that run.                               *)
LEMMA ListStep ==
    ASSUME AppInv, ListRunningProcesses
    PROVE  AppInv'
<1>0. Parts
    BY PartsHold DEF AppInv
<1>1. /\ boot = "list" /\ boot' = "run"
      /\ observed' \subseteq App
      /\ app' \in [App -> {"none", "live", "freed"}]
      /\ applications' \in [Process -> Reference]
      /\ \A p \in Process : /\ app'[Launched(p)] = app[Launched(p)]
                           /\ \/ applications'[p] = NoApp
                              \/ applications'[p] = Listed(p) /\ app'[Listed(p)] = "live"
  <2>1. PICK refused \in SUBSET {p \in interactive : Alive(p)} :
            observed' = {Listed(p) : p \in {q \in interactive : Alive(q)} \ refused}
    BY DEF ListRunningProcesses
  <2>2. observed' \subseteq App
    BY <1>0, <2>1, AppFacts DEF Parts
  <2> DEFINE running == {p \in interactive : Alive(p)}
  <2>3. /\ app' = [a \in App |-> IF a \in {Listed(p) : p \in running} THEN "live" ELSE app[a]]
        /\ applications' = [p \in Process |-> IF p \in running THEN Listed(p) ELSE NoApp]
    BY DEF ListRunningProcesses
  <2>4. running \subseteq Process
    BY <1>0 DEF Parts
  <2>5. \A p \in Process : Launched(p) \notin {Listed(q) : q \in running}
    BY <2>4, AppFacts
  <2>6. boot = "list" /\ boot' = "run"
    BY DEF ListRunningProcesses
  <2> HIDE DEF running
  <2>7. app' \in [App -> {"none", "live", "freed"}]
    BY <1>0, <2>3 DEF Parts
  <2>8. applications' \in [Process -> Reference]
    BY <2>3, AppFacts DEF Reference
  <2> QED
    BY <2>2, <2>3, <2>5, <2>6, <2>7, <2>8, AppFacts
<1>2. UNCHANGED <<proc, interactive, carbon, creations, cache, info, elapsed, timer, main, queue,
                  ev, told, activateDue>>
    BY DEF ListRunningProcesses, system, infoVars, appVars, history
<1>3. /\ \A kind : Sent(kind)' = Sent(kind)
      /\ \A kind : Queued(kind)' = Queued(kind)
      /\ \A kind : Handled(kind)' = Handled(kind)
      /\ CarbonOrder'
      /\ EventOrder'
    BY <1>2, Frames DEF AppInv
<1>4. /\ \A p \in Process : ~InUse(p) /\ ~ToBeTold(p) /\ main.app # Launched(p)
      /\ creations = {} /\ ev.pc = "idle"
    BY <1>0, <1>1, NothingYet, RecordFacts DEF AppInv, BeforeRun, Parts
<1>5. \A p \in Process : /\ timer[p] = NoTimer /\ told[p] = "nothing"
                         /\ info[p] \in {"none", "Finished"}
    BY <1>1 DEF AppInv, BeforeRun
<1>11. TypeOK'
  <2>1. Parts'
    BY <1>0, <1>1, <1>2, <1>4 DEF Parts
  <2> QED
    BY <2>1, Zenon DEF Parts, TypeOK
<1>12. BeforeRun'
    BY <1>1 DEF BeforeRun
<1>13. MainShape'
    BY <1>2, <1>3 DEF AppInv, MainShape
<1>14. EvShape'
    BY <1>2, <1>4 DEF AppInv, EvShape
<1>17. HandledFirst'
    BY <1>2, <1>3 DEF AppInv, HandledFirst
<1>18. Reports'
    BY <1>2, <1>3 DEF AppInv, Reports
<1>19. EndIsLast'
    BY <1>2, <1>3 DEF AppInv, EndIsLast, InUse, Ended, Closed
<1>20. Unknown'
    BY <1>1, <1>2, <1>3 DEF AppInv, Unknown, InUse
<1>21. Launching'
    BY <1>2, <1>5 DEF Launching
<1>22. Adding'
    BY <1>2, <1>4 DEF Adding
<1>23. LaunchIsFound'
    BY <1>2, <1>3, <1>4 DEF LaunchIsFound, ToBeTold
<1>24. MapIsLive'
    BY <1>1, AppFacts DEF MapIsLive
<1>25. AddedIsTold'
    BY <1>1, AppFacts DEF AddedIsTold
<1>26. ToldLast'
    BY <1>2, <1>5 DEF ToldLast
<1> QED
    BY <1>11, <1>12, <1>13, <1>14, <1>3, <1>17, <1>18, <1>19, <1>20, <1>21, <1>22,
       <1>23, <1>24, <1>25, <1>26 DEF AppInv


----
(* The Carbon handler.                                                     *)

(* A process has been launched.                                            *)
LEMMA AppLaunchedStep ==
    ASSUME AppInv, NEW p \in Process, AppLaunched(p)
    PROVE  AppInv'
<1>0. Parts
    BY PartsHold DEF AppInv
<1>1. /\ cache' = cache \union {p}
      /\ \A q \in Process : q # p => /\ info'[q] = info[q] /\ timer'[q] = timer[q]
                                    /\ app'[Launched(q)] = app[Launched(q)]
      /\ \/ /\ info'[p] = "In_Progress" /\ app'[Launched(p)] = "live" /\ timer'[p] = 0
         \/ /\ info'[p] = "None" /\ app'[Launched(p)] = app[Launched(p)] /\ timer'[p] = timer[p]
      /\ \A a \in App : a # Launched(p) => app'[a] = app[a]
      /\ info' \in [Process -> InfoState] /\ timer' \in [Process -> {NoTimer, 0, 1}]
      /\ app' \in [App -> {"none", "live", "freed"}]
  <2>1. cache' = cache \union {p}
    BY DEF AppLaunched
  <2>2. Launched(p) \in App /\ \A q \in Process : q # p => Launched(q) # Launched(p)
    BY AppFacts
  <2>3. CASE p \in interactive
    <3>1. /\ info' = [info EXCEPT ![p] = "In_Progress"]
          /\ app' = [app EXCEPT ![Launched(p)] = "live"]
          /\ timer' = [timer EXCEPT ![p] = 0]
        BY <2>3 DEF AppLaunched
    <3> QED
        BY <1>0, <2>1, <2>2, <3>1, AppFacts DEF Parts, InfoState
  <2>4. CASE p \notin interactive
    <3>1. info' = [info EXCEPT ![p] = "None"] /\ app' = app /\ timer' = timer
        BY <2>4 DEF AppLaunched
    <3> QED
        BY <1>0, <2>1, <2>2, <3>1 DEF Parts, InfoState
  <2> QED
    BY <2>3, <2>4
<1>2. UNCHANGED <<proc, interactive, boot, creations, elapsed, observed, applications, main,
                  queue, ev, told, activateDue>>
    BY DEF AppLaunched, CarbonEvent, system, infoVars, appVars, history
<1>3. /\ \A kind : Queued(kind)' = Queued(kind)
      /\ \A kind : Handled(kind)' = Handled(kind)
      /\ EventOrder'
    BY <1>2, Frames DEF AppInv
<1>4. /\ carbon' \in Seq(Report) /\ CarbonOrder'
      /\ p \in Sent("launched") /\ p \notin Sent("launched")'
      /\ \A k \in Lifecycle : Sent(k)' \subseteq Sent(k)
    BY <1>0, CarbonFacts DEF AppLaunched, AppInv, Parts, Lifecycle
<1>5. /\ Sent("launched")' \subseteq Sent("launched")
      /\ Sent("terminated")' \subseteq Sent("terminated")
      /\ boot = "run" /\ main.app = NoApp /\ \A q \in Process : main.app # Launched(q)
    BY <1>4, RecordFacts, AppFacts DEF Lifecycle, AppLaunched, CarbonEvent, MainReady
<1>6. /\ info[p] = "none" /\ proc[p] # "unborn" /\ app[Launched(p)] = "none"
      /\ timer[p] = NoTimer /\ ~InUse(p) /\ told[p] = "nothing" /\ ~Ended(p)
    BY <1>4 DEF AppInv, Reports, Unknown, InUse, Ended
<1>7. applications[p] # Launched(p)
    BY <1>6, AppFacts DEF AppInv, MapIsLive
<1>8. 0 # NoTimer /\ \A q \in Process : Launched(q) \in App /\ (q # p => Launched(q) # Launched(p))
    BY AppFacts
<1>11. TypeOK'
  <2>1. Parts'
    BY <1>0, <1>1, <1>2, <1>4 DEF Parts
  <2> QED
    BY <2>1, Zenon DEF Parts, TypeOK
<1>12. BeforeRun'
    BY <1>2, <1>5 DEF BeforeRun
<1>13. MainShape'
    BY <1>2, <1>3 DEF AppInv, MainShape
<1>14. EvShape'
    BY <1>2, <1>3 DEF AppInv, EvShape
<1>15. CarbonOrder'
    BY <1>4
<1>17. HandledFirst'
    BY <1>2, <1>3 DEF AppInv, HandledFirst
<1>18. Reports'
    BY <1>1, <1>2, <1>4, <1>5, <1>6 DEF AppInv, Reports
<1>19. EndIsLast'
  <2>1. info'[p] # "Invalid" /\ info'[p] # "freed"
    BY <1>1
  <2>2. \A q \in Process : q # p => (q \in cache' <=> q \in cache)
    BY <1>1
  <2> QED
    BY <1>1, <1>2, <1>3, <1>5, <1>6, <2>1, <2>2 DEF AppInv, EndIsLast, InUse, Ended, Closed
<1>20. Unknown'
    BY <1>1, <1>2, <1>3, <1>5 DEF AppInv, Unknown, InUse
<1>21. Launching'
    BY <1>1, <1>2, <1>3, <1>6, <1>7, <1>8 DEF AppInv, Launching, InUse
<1>22. Adding'
    BY <1>2, <1>5 DEF Adding
<1>23. LaunchIsFound'
    BY <1>2, <1>3 DEF AppInv, LaunchIsFound, ToBeTold
<1>24. MapIsLive'
  <2>1. \A q \in Process : applications[q] # NoApp =>
            applications[q] \in App /\ applications[q] # Launched(p)
    BY <1>0, <1>6, AppFacts DEF AppInv, MapIsLive, Parts, Reference
  <2> QED
    BY <1>1, <1>2, <2>1 DEF AppInv, MapIsLive
<1>25. AddedIsTold'
    BY <1>2, <1>3 DEF AppInv, AddedIsTold, ToBeTold
<1>26. ToldLast'
    BY <1>1, <1>2, <1>3, <1>6 DEF AppInv, ToldLast, Ended
<1> QED
    BY <1>11, <1>12, <1>13, <1>14, <1>15, <1>3, <1>17, <1>18, <1>19, <1>20, <1>21,
       <1>22, <1>23, <1>24, <1>25, <1>26 DEF AppInv

(* A process has ended.                                                    *)
LEMMA AppTerminatedStep ==
    ASSUME AppInv, NEW p \in Process, AppTerminated(p)
    PROVE  AppInv'
<1>0. Parts
    BY PartsHold DEF AppInv
<1>1. /\ cache' = cache \ {p} /\ info' \in [Process -> InfoState]
      /\ \A q \in Process : q # p => info'[q] = info[q]
      /\ info'[p] = IF p \in cache /\ info[p] = "In_Progress" THEN "Invalid" ELSE info[p]
      /\ \/ p \in cache /\ info[p] \in {"Finished", "Failed"} /\ Post("terminated", p)
         \/ ~(p \in cache /\ info[p] \in {"Finished", "Failed"}) /\ queue' = queue
    BY <1>0 DEF AppTerminated, Parts, InfoState
<1>2. UNCHANGED <<proc, interactive, boot, creations, elapsed, timer, app, observed,
                  applications, main, ev, told, activateDue>>
    BY DEF AppTerminated, CarbonEvent, system, infoVars, appVars, history
<1>3. /\ \A kind : Handled(kind)' = Handled(kind)
    BY <1>2, Frames DEF AppInv
<1>4. /\ carbon' \in Seq(Report) /\ CarbonOrder'
      /\ p \in Sent("terminated") /\ p \notin Sent("launched")'
      /\ p \notin Sent("terminated")'
      /\ \A k \in Lifecycle : Sent(k)' \subseteq Sent(k)
    BY <1>0, CarbonFacts DEF AppTerminated, AppInv, Parts, Lifecycle
<1>5. /\ Sent("launched")' \subseteq Sent("launched")
      /\ Sent("terminated")' \subseteq Sent("terminated")
      /\ boot = "run" /\ main.app = NoApp /\ \A q \in Process : main.app # Launched(q)
    BY <1>4, RecordFacts, AppFacts DEF Lifecycle, AppTerminated, CarbonEvent, MainReady
<1>6. proc[p] = "gone" /\ info[p] # "Invalid" /\ ~Ended(p)
    BY <1>4 DEF AppInv, Reports, EndIsLast, Closed
<1>7. /\ queue' \in Seq(QueuedEvent) /\ EventOrder'
      /\ Queued("launched")' = Queued("launched")
      /\ \/ Queued("terminated")' = Queued("terminated")
         \/ /\ p \in cache /\ info[p] \in {"Finished", "Failed"}
            /\ Queued("terminated")' = Queued("terminated") \union {p}
  <2>1. CASE p \in cache /\ info[p] \in {"Finished", "Failed"} /\ Post("terminated", p)
    <3>1. queue' = Append(queue, Event("terminated", p, NoApp)) /\ p \notin Queued("terminated")
        BY <1>6, <2>1 DEF Post, Ended
    <3>2. /\ queue' \in Seq(QueuedEvent) /\ EventOrder'
          /\ \A kind \in Lifecycle :
                Queued(kind)' = IF kind = "terminated" THEN Queued(kind) \union {p} ELSE Queued(kind)
        BY <1>0, <3>1, PostFacts, RecordFacts DEF AppInv, Parts
    <3> QED
        BY <2>1, <3>2 DEF Lifecycle
  <2>2. CASE queue' = queue
    BY <1>0, <2>2, Frames DEF AppInv, Parts
  <2> QED
    BY <1>1, <2>1, <2>2
<1>8. /\ p \notin Handled("terminated") /\ p \notin Queued("terminated") /\ info[p] # "freed"
      /\ timer[p] # NoTimer => info[p] = "In_Progress" /\ p \in cache
    BY <1>6 DEF AppInv, Ended, Launching
<1>11. TypeOK'
  <2>1. Parts'
    BY <1>0, <1>1, <1>2, <1>4, <1>7 DEF Parts
  <2> QED
    BY <2>1, Zenon DEF Parts, TypeOK
<1>12. BeforeRun'
    BY <1>2, <1>5 DEF BeforeRun
<1>13. MainShape'
    BY <1>2, <1>3 DEF AppInv, MainShape
<1>14. EvShape'
    BY <1>2, <1>3 DEF AppInv, EvShape
<1>15. CarbonOrder'
    BY <1>4
<1>16. EventOrder'
    BY <1>7
<1>17. HandledFirst'
    BY <1>3, <1>7, <1>8 DEF AppInv, HandledFirst
<1>18. Reports'
    BY <1>1, <1>2, <1>4, <1>5, <1>6 DEF AppInv, Reports
<1>19. EndIsLast'
  <2>1. Closed(p)'
    BY <1>1, <1>2, <1>4, <1>6 DEF Closed
  <2>2. info'[p] # "freed"
    BY <1>1, <1>8
  <2>3. \A q \in Process : q # p => (q \in cache' <=> q \in cache)
    BY <1>1
  <2> QED
    BY <1>1, <1>2, <1>3, <1>5, <1>7, <2>1, <2>2, <2>3 DEF AppInv, EndIsLast, InUse, Ended, Closed
<1>20. Unknown'
    BY <1>1, <1>2, <1>3, <1>5, <1>7 DEF AppInv, Unknown, InUse
<1>21. Launching'
  <2>1. timer[p] # NoTimer => info'[p] = "Invalid"
    BY <1>1, <1>8
  <2>2. info'[p] # "In_Progress"
    BY <1>1 DEF AppInv, Launching
  <2>3. \A q \in Process : q # p => (q \in cache' <=> q \in cache)
    BY <1>1
  <2> QED
    BY <1>1, <1>2, <1>3, <1>7, <1>8, <2>1, <2>2, <2>3 DEF AppInv, Launching, InUse
<1>22. Adding'
    BY <1>2, <1>5 DEF Adding
<1>23. LaunchIsFound'
    BY <1>2, <1>3, <1>7 DEF AppInv, LaunchIsFound, ToBeTold
<1>24. MapIsLive'
    BY <1>2, <1>3 DEF AppInv, MapIsLive
<1>25. AddedIsTold'
    BY <1>2, <1>3, <1>7 DEF AppInv, AddedIsTold, ToBeTold
<1>26. ToldLast'
    BY <1>1, <1>2, <1>3, <1>7 DEF AppInv, ToldLast, Ended
<1> QED
    BY <1>11, <1>12, <1>13, <1>14, <1>15, <1>16, <1>17, <1>18, <1>19, <1>20, <1>21,
       <1>22, <1>23, <1>24, <1>25, <1>26 DEF AppInv

----
(* The block of a launch.                                                  *)

(* The launch fails.                                                       *)
LEMMA GiveUpStep ==
    ASSUME AppInv, NEW p \in Process, GiveUp(p)
    PROVE  AppInv'
<1>0. Parts
    BY PartsHold DEF AppInv
<1>1. /\ info' \in [Process -> InfoState] /\ timer' \in [Process -> {NoTimer, 0, 1}]
      /\ app' \in [App -> {"none", "live", "freed"}]
      /\ info'[p] = "Failed" /\ timer'[p] = NoTimer
      /\ \A q \in Process : q # p => /\ info'[q] = info[q] /\ timer'[q] = timer[q]
                                    /\ app'[Launched(q)] = app[Launched(q)]
      /\ \A a \in App : a # Launched(p) => app'[a] = app[a]
  <2>1. /\ info' = [info EXCEPT ![p] = "Failed"] /\ timer' = [timer EXCEPT ![p] = NoTimer]
        /\ app' = [app EXCEPT ![Launched(p)] = "freed"]
    BY DEF GiveUp
  <2> QED
    BY <1>0, <2>1, AppFacts, ZenonT(60) DEF Parts, InfoState
<1>2. UNCHANGED <<proc, interactive, boot, carbon, creations, cache, observed, applications,
                  main, queue, ev, told, activateDue>>
    BY DEF GiveUp, system, infoVars, appVars, history
<1>3. /\ \A kind : Sent(kind)' = Sent(kind)
      /\ \A kind : Queued(kind)' = Queued(kind)
      /\ \A kind : Handled(kind)' = Handled(kind)
      /\ CarbonOrder'
      /\ EventOrder'
    BY <1>2, Frames DEF AppInv
<1>4. elapsed' \in [Process -> 0..Timeout]
  <2>1. AddDelay(p) /\ timer[p] \in {0, 1}
    BY <1>0, AppFacts DEF GiveUp, Waiting, TimerFires, Parts
  <2>2. elapsed[p] \in 0..Timeout /\ Elapsed(p) = elapsed[p] + timer[p]
    BY <1>0 DEF Parts, Elapsed
  <2>3. (IF Elapsed(p) > Timeout THEN Timeout ELSE Elapsed(p)) \in 0..Timeout
    BY <2>1, <2>2, AppFacts
  <2> QED
    BY <1>0, <2>1, <2>3 DEF AddDelay, Parts
<1>5. /\ boot = "run" /\ main.app = NoApp /\ \A q \in Process : main.app # Launched(q)
      /\ timer[p] # NoTimer /\ info[p] = "In_Progress"
    BY RecordFacts, AppFacts DEF GiveUp, Waiting, TimerFires, MainReady
<1>6. /\ app[Launched(p)] = "live" /\ told[p] = "nothing" /\ p \in cache
      /\ ~InUse(p) /\ ~Ended(p) /\ proc[p] # "unborn" /\ p \notin Sent("launched")
    BY <1>5 DEF AppInv, Launching, InUse, Ended, Reports
<1>11. TypeOK'
  <2>1. Parts'
    BY <1>0, <1>1, <1>2, <1>4 DEF Parts
  <2> QED
    BY <2>1, Zenon DEF Parts, TypeOK
<1>12. BeforeRun'
    BY <1>2, <1>5 DEF BeforeRun
<1>13. MainShape'
    BY <1>2, <1>3 DEF AppInv, MainShape
<1>14. EvShape'
    BY <1>2, <1>3 DEF AppInv, EvShape
<1>17. HandledFirst'
    BY <1>2, <1>3 DEF AppInv, HandledFirst
<1>18. Reports'
    BY <1>1, <1>2, <1>3, <1>6 DEF AppInv, Reports
<1>19. EndIsLast'
    BY <1>1, <1>2, <1>3, <1>6 DEF AppInv, EndIsLast, InUse, Ended, Closed
<1>20. Unknown'
    BY <1>1, <1>2, <1>3 DEF AppInv, Unknown, InUse
<1>21. Launching'
    BY <1>1, <1>2, <1>3 DEF AppInv, Launching, InUse
<1>22. Adding'
    BY <1>2, <1>5 DEF Adding
<1>23. LaunchIsFound'
    BY <1>2, <1>3 DEF AppInv, LaunchIsFound, ToBeTold
<1>24. MapIsLive'
  <2>1. \A q \in Process : applications[q] # NoApp =>
            applications[q] \in App /\ applications[q] # Launched(p)
    BY <1>0, <1>5, AppFacts DEF AppInv, MapIsLive, Launching, Parts, Reference
  <2> QED
    BY <1>1, <1>2, <2>1 DEF AppInv, MapIsLive
<1>25. AddedIsTold'
    BY <1>2, <1>3 DEF AppInv, AddedIsTold, ToBeTold
<1>26. ToldLast'
    BY <1>1, <1>2, <1>3, <1>6 DEF AppInv, ToldLast, Ended
<1> QED
    BY <1>11, <1>12, <1>13, <1>14, <1>3, <1>17, <1>18, <1>19, <1>20, <1>21, <1>22,
       <1>23, <1>24, <1>25, <1>26 DEF AppInv

(* The launch goes on.                                                     *)
LEMMA DelayStep ==
    ASSUME AppInv, NEW p \in Process, LaunchContinues(p) \/ ObserveFails(p)
    PROVE  AppInv'
<1>0. Parts
    BY PartsHold DEF AppInv
<1>1. /\ timer' \in [Process -> {NoTimer, 0, 1}] /\ timer'[p] # NoTimer
      /\ \A q \in Process : q # p => timer'[q] = timer[q]
  <2>1. timer' = [timer EXCEPT ![p] = 1]
    BY DEF LaunchContinues, ObserveFails
  <2> QED
    BY <1>0, <2>1, AppFacts DEF Parts
<1>2. UNCHANGED <<proc, interactive, boot, carbon, creations, cache, info, app, observed,
                  applications, main, queue, ev, told, activateDue>>
    BY DEF LaunchContinues, ObserveFails, system, infoVars, appVars, history
<1>3. /\ \A kind : Sent(kind)' = Sent(kind)
      /\ \A kind : Queued(kind)' = Queued(kind)
      /\ \A kind : Handled(kind)' = Handled(kind)
      /\ CarbonOrder'
      /\ EventOrder'
    BY <1>2, Frames DEF AppInv
<1>4. elapsed' \in [Process -> 0..Timeout]
  <2>1. AddDelay(p) /\ timer[p] \in {0, 1}
    BY <1>0, AppFacts DEF LaunchContinues, ObserveFails, Waiting, TimerFires, Parts
  <2>2. elapsed[p] \in 0..Timeout /\ Elapsed(p) = elapsed[p] + timer[p]
    BY <1>0 DEF Parts, Elapsed
  <2>3. (IF Elapsed(p) > Timeout THEN Timeout ELSE Elapsed(p)) \in 0..Timeout
    BY <2>1, <2>2, AppFacts
  <2> QED
    BY <1>0, <2>1, <2>3 DEF AddDelay, Parts
<1>5. /\ boot = "run" /\ main.app = NoApp /\ \A q \in Process : main.app # Launched(q)
      /\ timer[p] # NoTimer /\ info[p] = "In_Progress"
    BY RecordFacts, AppFacts DEF LaunchContinues, ObserveFails, Waiting, TimerFires, MainReady
<1>6. /\ app[Launched(p)] = "live" /\ told[p] = "nothing" /\ p \in cache
      /\ ~InUse(p) /\ ~Ended(p) /\ proc[p] # "unborn" /\ p \notin Sent("launched")
    BY <1>5 DEF AppInv, Launching, InUse, Ended, Reports
<1>11. TypeOK'
  <2>1. Parts'
    BY <1>0, <1>1, <1>2, <1>4 DEF Parts
  <2> QED
    BY <2>1, Zenon DEF Parts, TypeOK
<1>12. BeforeRun'
    BY <1>2, <1>5 DEF BeforeRun
<1>13. MainShape'
    BY <1>2, <1>3 DEF AppInv, MainShape
<1>14. EvShape'
    BY <1>2, <1>3 DEF AppInv, EvShape
<1>17. HandledFirst'
    BY <1>2, <1>3 DEF AppInv, HandledFirst
<1>18. Reports'
    BY <1>2, <1>3 DEF AppInv, Reports
<1>19. EndIsLast'
    BY <1>2, <1>3 DEF AppInv, EndIsLast, InUse, Ended, Closed
<1>20. Unknown'
    BY <1>1, <1>2, <1>3, <1>5 DEF AppInv, Unknown, InUse
<1>21. Launching'
  <2>1. applications[p] # Launched(p)
    BY <1>5 DEF AppInv, Launching
  <2> QED
    BY <1>1, <1>2, <1>3, <1>5, <1>6, <2>1 DEF AppInv, Launching, InUse
<1>22. Adding'
    BY <1>2, <1>5 DEF Adding
<1>23. LaunchIsFound'
    BY <1>2, <1>3 DEF AppInv, LaunchIsFound, ToBeTold
<1>24. MapIsLive'
    BY <1>2, <1>3 DEF AppInv, MapIsLive
<1>25. AddedIsTold'
    BY <1>2, <1>3 DEF AppInv, AddedIsTold, ToBeTold
<1>26. ToldLast'
    BY <1>2, <1>3 DEF AppInv, ToldLast, Ended
<1> QED
    BY <1>11, <1>12, <1>13, <1>14, <1>3, <1>17, <1>18, <1>19, <1>20, <1>21, <1>22,
       <1>23, <1>24, <1>25, <1>26 DEF AppInv

(* The application is observed, and the block goes on to add it.           *)
LEMMA ObserveStep ==
    ASSUME AppInv, NEW p \in Process, ObserveSucceeds(p)
    PROVE  AppInv'
<1>0. Parts
    BY PartsHold DEF AppInv
<1>1. /\ info' \in [Process -> InfoState] /\ timer' \in [Process -> {NoTimer, 0, 1}]
      /\ observed \subseteq observed' /\ observed' \subseteq App
      /\ info'[p] = "Finished" /\ timer'[p] = NoTimer
      /\ \A q \in Process : q # p => info'[q] = info[q] /\ timer'[q] = timer[q]
      /\ main' \in MainState /\ main'.pc = "add" /\ main'.app = Launched(p)
      /\ Launched(p) \in Reference /\ Launched(p)[1] = p
  <2>1. /\ info' = [info EXCEPT ![p] = "Finished"] /\ timer' = [timer EXCEPT ![p] = NoTimer]
        /\ observed' = observed \union {Launched(p)}
        /\ main' = [pc |-> "add", app |-> Launched(p)]
    BY DEF ObserveSucceeds
  <2>2. Launched(p) \in App /\ Launched(p) \in Reference /\ Launched(p)[1] = p
    BY AppFacts DEF Reference
  <2>3. main' \in MainState /\ main'.pc = "add" /\ main'.app = Launched(p)
    BY <2>1, <2>2 DEF MainState
  <2> QED
    BY <1>0, <2>1, <2>2, <2>3 DEF Parts, InfoState
<1>2. UNCHANGED <<proc, interactive, boot, carbon, creations, cache, app, applications, queue,
                  ev, told, activateDue>>
    BY DEF ObserveSucceeds, system, infoVars, appVars, history
<1>3. /\ \A kind : Sent(kind)' = Sent(kind)
      /\ \A kind : Queued(kind)' = Queued(kind)
      /\ \A kind : Handled(kind)' = Handled(kind)
      /\ CarbonOrder'
      /\ EventOrder'
    BY <1>2, Frames DEF AppInv
<1>4. elapsed' \in [Process -> 0..Timeout]
  <2>1. AddDelay(p) /\ timer[p] \in {0, 1}
    BY <1>0, AppFacts DEF ObserveSucceeds, Waiting, TimerFires, Parts
  <2>2. elapsed[p] \in 0..Timeout /\ Elapsed(p) = elapsed[p] + timer[p]
    BY <1>0 DEF Parts, Elapsed
  <2>3. (IF Elapsed(p) > Timeout THEN Timeout ELSE Elapsed(p)) \in 0..Timeout
    BY <2>1, <2>2, AppFacts
  <2> QED
    BY <1>0, <2>1, <2>3 DEF AddDelay, Parts
<1>5. /\ boot = "run" /\ main.app = NoApp /\ \A q \in Process : main.app # Launched(q)
      /\ timer[p] # NoTimer /\ info[p] = "In_Progress"
    BY RecordFacts, AppFacts DEF ObserveSucceeds, Waiting, TimerFires, MainReady
<1>6. /\ app[Launched(p)] = "live" /\ told[p] = "nothing" /\ p \in cache
      /\ ~InUse(p) /\ ~Ended(p) /\ proc[p] # "unborn" /\ p \notin Sent("launched")
    BY <1>5 DEF AppInv, Launching, InUse, Ended, Reports
<1>7. \A q \in Process : main'.app = Launched(q) <=> q = p
    BY <1>1, AppFacts
<1>11. TypeOK'
  <2>1. Parts'
    BY <1>0, <1>1, <1>2, <1>4 DEF Parts
  <2> QED
    BY <2>1, Zenon DEF Parts, TypeOK
<1>12. BeforeRun'
    BY <1>2, <1>5 DEF BeforeRun
<1>13. MainShape'
    BY <1>1, AppFacts DEF MainShape
<1>14. EvShape'
    BY <1>2, <1>3 DEF AppInv, EvShape
<1>17. HandledFirst'
    BY <1>2, <1>3 DEF AppInv, HandledFirst
<1>18. Reports'
    BY <1>1, <1>2, <1>3, <1>6 DEF AppInv, Reports
<1>19. EndIsLast'
    BY <1>1, <1>2, <1>3, <1>6 DEF AppInv, EndIsLast, InUse, Ended, Closed
<1>20. Unknown'
    BY <1>1, <1>2, <1>3, <1>7 DEF AppInv, Unknown, InUse
<1>21. Launching'
    BY <1>1, <1>2, <1>3 DEF AppInv, Launching, InUse
<1>22. Adding'
    BY <1>1, <1>2, <1>3, <1>6, <1>7 DEF Adding, InUse
<1>23. LaunchIsFound'
    BY <1>2, <1>3 DEF AppInv, LaunchIsFound, ToBeTold
<1>24. MapIsLive'
    BY <1>2, <1>3 DEF AppInv, MapIsLive
<1>25. AddedIsTold'
    BY <1>2, <1>3, <1>5, <1>7 DEF AppInv, AddedIsTold, ToBeTold
<1>26. ToldLast'
    BY <1>1, <1>2, <1>3, <1>6 DEF AppInv, ToldLast, Ended
<1> QED
    BY <1>11, <1>12, <1>13, <1>14, <1>3, <1>17, <1>18, <1>19, <1>20, <1>21, <1>22,
       <1>23, <1>24, <1>25, <1>26 DEF AppInv

(* The process ended meanwhile.                                            *)
LEMMA LaunchCancelledStep ==
    ASSUME AppInv, NEW p \in Process, LaunchCancelled(p)
    PROVE  AppInv'
<1>0. Parts
    BY PartsHold DEF AppInv
<1>1. /\ timer' \in [Process -> {NoTimer, 0, 1}] /\ timer'[p] = NoTimer
      /\ app' \in [App -> {"none", "live", "freed"}]
      /\ \A q \in Process : q # p => /\ timer'[q] = timer[q]
                                    /\ app'[Launched(q)] = app[Launched(q)]
      /\ \A a \in App : a # Launched(p) => app'[a] = app[a]
      /\ queue' = Append(queue, Event("terminated", p, NoApp))
  <2>1. /\ timer' = [timer EXCEPT ![p] = NoTimer]
        /\ app' = [app EXCEPT ![Launched(p)] = "freed"]
        /\ queue' = Append(queue, Event("terminated", p, NoApp))
    BY DEF LaunchCancelled, Post
  <2> QED
    BY <1>0, <2>1, AppFacts, ZenonT(60) DEF Parts, InfoState
<1>2. UNCHANGED <<proc, interactive, boot, carbon, creations, cache, info, elapsed, observed,
                  applications, main, ev, told, activateDue>>
    BY DEF LaunchCancelled, system, infoVars, appVars, history
<1>3. /\ \A kind : Sent(kind)' = Sent(kind)
      /\ \A kind : Handled(kind)' = Handled(kind)
      /\ CarbonOrder'
    BY <1>2, Frames DEF AppInv
<1>5. /\ boot = "run" /\ main.app = NoApp /\ \A q \in Process : main.app # Launched(q)
      /\ timer[p] # NoTimer /\ info[p] = "Invalid"
    BY RecordFacts, AppFacts DEF LaunchCancelled, TimerFires, MainReady
<1>6. /\ app[Launched(p)] = "live" /\ told[p] = "nothing" /\ ~InUse(p) /\ Closed(p)
    BY <1>5 DEF AppInv, Launching, InUse, EndIsLast
<1>7. /\ queue' \in Seq(QueuedEvent) /\ EventOrder'
      /\ Queued("launched")' = Queued("launched")
      /\ Queued("terminated")' = Queued("terminated") \union {p}
  <2>1. /\ queue' \in Seq(QueuedEvent) /\ EventOrder'
        /\ \A kind \in Lifecycle :
            Queued(kind)' = IF kind = "terminated" THEN Queued(kind) \union {p} ELSE Queued(kind)
    BY <1>0, <1>1, <1>6, PostFacts, RecordFacts DEF AppInv, Parts, InUse
  <2> QED
    BY <2>1 DEF Lifecycle
<1>11. TypeOK'
  <2>1. Parts'
    BY <1>0, <1>1, <1>2, <1>7 DEF Parts
  <2> QED
    BY <2>1, Zenon DEF Parts, TypeOK
<1>12. BeforeRun'
    BY <1>2, <1>5 DEF BeforeRun
<1>13. MainShape'
    BY <1>2, <1>3 DEF AppInv, MainShape
<1>14. EvShape'
    BY <1>2, <1>3 DEF AppInv, EvShape
<1>16. EventOrder'
    BY <1>7
<1>17. HandledFirst'
    BY <1>3, <1>6, <1>7 DEF AppInv, HandledFirst, InUse
<1>18. Reports'
    BY <1>2, <1>3 DEF AppInv, Reports
<1>19. EndIsLast'
    BY <1>2, <1>3, <1>5, <1>6, <1>7 DEF AppInv, EndIsLast, InUse, Ended, Closed
<1>20. Unknown'
    BY <1>1, <1>2, <1>3, <1>5, <1>7 DEF AppInv, Unknown, InUse
<1>21. Launching'
    BY <1>1, <1>2, <1>3, <1>5, <1>7 DEF AppInv, Launching, InUse
<1>22. Adding'
    BY <1>2, <1>5 DEF Adding
<1>23. LaunchIsFound'
    BY <1>2, <1>3, <1>7 DEF AppInv, LaunchIsFound, ToBeTold
<1>24. MapIsLive'
  <2>1. \A q \in Process : applications[q] # NoApp =>
            applications[q] \in App /\ applications[q] # Launched(p)
    BY <1>0, <1>5, AppFacts DEF AppInv, MapIsLive, Launching, Parts, Reference
  <2> QED
    BY <1>1, <1>2, <2>1 DEF AppInv, MapIsLive
<1>25. AddedIsTold'
    BY <1>2, <1>3, <1>7 DEF AppInv, AddedIsTold, ToBeTold
<1>26. ToldLast'
    BY <1>2, <1>3, <1>7 DEF AppInv, ToldLast, Ended
<1> QED
    BY <1>11, <1>12, <1>13, <1>14, <1>3, <1>16, <1>17, <1>18, <1>19, <1>20, <1>21,
       <1>22, <1>23, <1>24, <1>25, <1>26 DEF AppInv


----
(* The rest of the block, and what else the main thread reports.           *)

(* The application is added to the map.                                    *)
LEMMA AddApplicationStep ==
    ASSUME AppInv, AddApplication
    PROVE  AppInv'
<1>0. Parts
    BY PartsHold DEF AppInv
<1>1. /\ main.pc = "add" /\ main.app # NoApp
      /\ main' \in MainState /\ main'.pc = "post" /\ main'.app = main.app
  <2>1. main.pc = "add" /\ main' = [main EXCEPT !.pc = "post"]
    BY DEF AddApplication
  <2> QED
    BY <1>0, <2>1 DEF AppInv, MainShape, Parts, MainState
<1>2. UNCHANGED <<proc, interactive, boot, carbon, creations, cache, info, elapsed, timer, app,
                  observed, queue, ev, told, activateDue>>
    BY DEF AddApplication, system, infoVars, appVars, history
<1>3. /\ \A kind : Sent(kind)' = Sent(kind)
      /\ \A kind : Queued(kind)' = Queued(kind)
      /\ \A kind : Handled(kind)' = Handled(kind)
      /\ CarbonOrder'
      /\ EventOrder'
    BY <1>2, Frames DEF AppInv
<1>4. PICK p \in Process : main.app = Launched(p)
    BY <1>0, <1>1, AppFacts DEF AppInv, MainShape, Parts, Reference
<1>5. /\ p \in cache /\ timer[p] = NoTimer /\ app[Launched(p)] = "live"
      /\ told[p] = "nothing" /\ ~InUse(p) /\ ~Ended(p) /\ info[p] # "none"
    BY <1>4 DEF AppInv, Adding, InUse, EndIsLast, Closed, Unknown
<1>6. /\ Launched(p) \in App /\ Launched(p)[1] = p
      /\ \A q \in Process : q # p => Launched(q) # Launched(p)
    BY AppFacts
<1>7. boot = "run"
    BY <1>1, RecordFacts DEF AppInv, BeforeRun
<1>8. /\ applications' \in [Process -> Reference]
      /\ \A q \in Process : q # p => applications'[q] = applications[q]
      /\ applications'[p] = IF applications[p] = NoApp THEN Launched(p) ELSE applications[p]
  <2>1. applications' = [applications EXCEPT ![p] = IF @ = NoApp THEN Launched(p) ELSE @]
    BY <1>4, <1>6 DEF AddApplication
  <2> QED
    BY <1>0, <1>6, <2>1 DEF Parts, Reference
<1>9. applications'[p] # NoApp /\ \A q \in Process : applications[q] # NoApp =>
                                        applications'[q] = applications[q]
    BY <1>8, AppFacts
<1>11. TypeOK'
  <2>1. Parts'
    BY <1>0, <1>1, <1>2, <1>8 DEF Parts
  <2> QED
    BY <2>1, Zenon DEF Parts, TypeOK
<1>12. BeforeRun'
    BY <1>2, <1>7 DEF BeforeRun
<1>13. MainShape'
    BY <1>1 DEF AppInv, MainShape
<1>14. EvShape'
  <2>1. ev.pc # "idle" => ev.event.proc \in Process
    BY RecordFacts DEF AppInv, EvShape
  <2> QED
    BY <1>2, <1>9, <2>1 DEF AppInv, EvShape
<1>17. HandledFirst'
    BY <1>2, <1>3 DEF AppInv, HandledFirst
<1>18. Reports'
    BY <1>2, <1>3 DEF AppInv, Reports
<1>19. EndIsLast'
    BY <1>2, <1>3 DEF AppInv, EndIsLast, InUse, Ended, Closed
<1>20. Unknown'
    BY <1>1, <1>2, <1>3 DEF AppInv, Unknown, InUse
<1>21. Launching'
    BY <1>2, <1>3, <1>5, <1>8 DEF AppInv, Launching, InUse
<1>22. Adding'
    BY <1>1, <1>2, <1>3, <1>4, <1>6, <1>9 DEF AppInv, Adding, InUse
<1>23. LaunchIsFound'
    BY <1>2, <1>3, <1>9 DEF AppInv, LaunchIsFound, ToBeTold
<1>24. MapIsLive'
    BY <1>2, <1>5, <1>6, <1>8 DEF AppInv, MapIsLive
<1>25. AddedIsTold'
    BY <1>1, <1>2, <1>3, <1>4, <1>8 DEF AppInv, AddedIsTold, ToBeTold
<1>26. ToldLast'
    BY <1>2, <1>3, <1>5, <1>8 DEF AppInv, ToldLast, Ended
<1> QED
    BY <1>11, <1>12, <1>13, <1>14, <1>3, <1>17, <1>18, <1>19, <1>20, <1>21, <1>22,
       <1>23, <1>24, <1>25, <1>26 DEF AppInv

(* The launch is reported.                                                 *)
LEMMA PostLaunchedStep ==
    ASSUME AppInv, PostLaunched
    PROVE  AppInv'
<1>0. Parts
    BY PartsHold DEF AppInv
<1>1. /\ main.pc = "post" /\ main.app # NoApp /\ main' = MainIdle
      /\ main' \in MainState /\ main'.pc = "idle" /\ main'.app = NoApp
  <2>1. main.pc = "post" /\ main' = MainIdle
    BY DEF PostLaunched
  <2> QED
    BY <1>0, <2>1, RecordFacts DEF AppInv, MainShape
<1>2. UNCHANGED <<proc, interactive, boot, carbon, creations, cache, info, elapsed, timer, app,
                  observed, applications, ev, told, activateDue>>
    BY DEF PostLaunched, system, infoVars, appVars, history
<1>3. /\ \A kind : Sent(kind)' = Sent(kind)
      /\ \A kind : Handled(kind)' = Handled(kind)
      /\ CarbonOrder'
    BY <1>2, Frames DEF AppInv
<1>4. PICK p \in Process : main.app = Launched(p)
    BY <1>0, <1>1, AppFacts DEF AppInv, MainShape, Parts, Reference
<1>5. /\ p \in cache /\ timer[p] = NoTimer /\ app[Launched(p)] = "live"
      /\ told[p] = "nothing" /\ ~InUse(p) /\ ~Ended(p) /\ info[p] # "none"
    BY <1>4 DEF AppInv, Adding, InUse, EndIsLast, Closed, Unknown
<1>6. /\ Launched(p) \in App /\ Launched(p)[1] = p
      /\ \A q \in Process : q # p => Launched(q) # Launched(p)
    BY AppFacts
<1>7. boot = "run"
    BY <1>1, RecordFacts DEF AppInv, BeforeRun
<1>8. /\ queue' \in Seq(QueuedEvent) /\ EventOrder'
      /\ Queued("launched")' = Queued("launched") \union {p}
      /\ Queued("terminated")' = Queued("terminated")
  <2>1. queue' = Append(queue, Event("launched", p, NoApp))
    BY <1>4, <1>6 DEF PostLaunched, Post
  <2>2. /\ queue' \in Seq(QueuedEvent) /\ EventOrder'
        /\ \A kind \in Lifecycle :
            Queued(kind)' = IF kind = "launched" THEN Queued(kind) \union {p} ELSE Queued(kind)
    BY <1>0, <1>5, <2>1, PostFacts, RecordFacts DEF AppInv, Parts, InUse
  <2> QED
    BY <2>2 DEF Lifecycle
<1>9. /\ \A q \in Process : main'.app # Launched(q) /\ (main.app = Launched(q) <=> q = p)
      /\ applications[p] # NoApp
    BY <1>1, <1>4, AppFacts DEF AppInv, Adding
<1>11. TypeOK'
  <2>1. Parts'
    BY <1>0, <1>1, <1>2, <1>8, RecordFacts DEF Parts
  <2> QED
    BY <2>1, Zenon DEF Parts, TypeOK
<1>12. BeforeRun'
    BY <1>2, <1>7 DEF BeforeRun
<1>13. MainShape'
    BY <1>1 DEF MainShape
<1>14. EvShape'
    BY <1>2, <1>3 DEF AppInv, EvShape
<1>16. EventOrder'
    BY <1>8
<1>17. HandledFirst'
    BY <1>3, <1>5, <1>8 DEF AppInv, HandledFirst, InUse
<1>18. Reports'
    BY <1>2, <1>3 DEF AppInv, Reports
<1>19. EndIsLast'
    BY <1>2, <1>3, <1>5, <1>8 DEF AppInv, EndIsLast, InUse, Ended, Closed
<1>20. Unknown'
    BY <1>2, <1>3, <1>5, <1>8, <1>9 DEF AppInv, Unknown, InUse
<1>21. Launching'
    BY <1>2, <1>3, <1>5, <1>8 DEF AppInv, Launching, InUse
<1>22. Adding'
    BY <1>9 DEF Adding
<1>23. LaunchIsFound'
    BY <1>2, <1>3, <1>5, <1>8, <1>9 DEF AppInv, LaunchIsFound, ToBeTold
<1>24. MapIsLive'
    BY <1>2, <1>3 DEF AppInv, MapIsLive
<1>25. AddedIsTold'
    BY <1>2, <1>3, <1>8, <1>9 DEF AppInv, AddedIsTold, ToBeTold
<1>26. ToldLast'
    BY <1>2, <1>3, <1>8 DEF AppInv, ToldLast, Ended
<1> QED
    BY <1>11, <1>12, <1>13, <1>14, <1>3, <1>16, <1>17, <1>18, <1>19, <1>20, <1>21,
       <1>22, <1>23, <1>24, <1>25, <1>26 DEF AppInv

(* An observer reports a window.                                           *)
LEMMA NotifyCreatedStep ==
    ASSUME AppInv, NEW a \in App, NotifyCreated(a)
    PROVE  AppInv'
<1>0. Parts
    BY PartsHold DEF AppInv
<1>1. /\ \E t \in {"activated", "changed", "created"}, p \in Process, o \in Reference :
            queue' = Append(queue, Event(t, p, o))
      /\ creations' \subseteq creations
  <2>1. a[1] \in Process /\ a \in Reference
    BY AppFacts DEF Reference
  <2> QED
    BY <2>1 DEF NotifyCreated
<1>2. UNCHANGED <<proc, interactive, boot, carbon, cache, info, elapsed, timer, app, observed,
                  applications, main, ev, told, activateDue>>
    BY DEF NotifyCreated, system, infoVars, appVars, history
<1>3. /\ \A kind : Sent(kind)' = Sent(kind)
      /\ \A kind : Handled(kind)' = Handled(kind)
      /\ CarbonOrder'
    BY <1>2, Frames DEF AppInv
<1>4. /\ queue' \in Seq(QueuedEvent) /\ EventOrder'
      /\ Queued("launched")' = Queued("launched") /\ Queued("terminated")' = Queued("terminated")
  <2>1. PICK t \in {"activated", "changed", "created"}, p \in Process, o \in Reference :
            queue' = Append(queue, Event(t, p, o))
    BY <1>1
  <2>2. t \notin Lifecycle /\ t \in {"launched", "terminated", "activated", "changed", "created"}
    BY DEF Lifecycle
  <2>3. /\ queue' \in Seq(QueuedEvent) /\ EventOrder'
        /\ \A kind \in Lifecycle :
            Queued(kind)' = IF kind = t THEN Queued(kind) \union {p} ELSE Queued(kind)
    BY <1>0, <2>1, <2>2, PostFacts DEF AppInv, Parts
  <2> QED
    BY <2>2, <2>3 DEF Lifecycle
<1>5. boot = "run"
    BY DEF NotifyCreated, MainReady
<1>11. TypeOK'
  <2>1. Parts'
    BY <1>0, <1>1, <1>2, <1>4 DEF Parts
  <2> QED
    BY <2>1, Zenon DEF Parts, TypeOK
<1>12. BeforeRun'
    BY <1>2, <1>5 DEF BeforeRun
<1>13. MainShape'
    BY <1>2, <1>3 DEF AppInv, MainShape
<1>14. EvShape'
    BY <1>2, <1>3 DEF AppInv, EvShape
<1>16. EventOrder'
    BY <1>4
<1>17. HandledFirst'
    BY <1>3, <1>4 DEF AppInv, HandledFirst
<1>18. Reports'
    BY <1>2, <1>3 DEF AppInv, Reports
<1>19. EndIsLast'
    BY <1>2, <1>3, <1>4 DEF AppInv, EndIsLast, InUse, Ended, Closed
<1>20. Unknown'
    BY <1>2, <1>3, <1>4 DEF AppInv, Unknown, InUse
<1>21. Launching'
    BY <1>2, <1>3, <1>4 DEF AppInv, Launching, InUse
<1>22. Adding'
    BY <1>2, <1>3, <1>4 DEF AppInv, Adding, InUse
<1>23. LaunchIsFound'
    BY <1>2, <1>3, <1>4 DEF AppInv, LaunchIsFound, ToBeTold
<1>24. MapIsLive'
    BY <1>2, <1>3 DEF AppInv, MapIsLive
<1>25. AddedIsTold'
    BY <1>2, <1>3, <1>4 DEF AppInv, AddedIsTold, ToBeTold
<1>26. ToldLast'
    BY <1>2, <1>3, <1>4 DEF AppInv, ToldLast, Ended
<1> QED
    BY <1>11, <1>12, <1>13, <1>14, <1>3, <1>16, <1>17, <1>18, <1>19, <1>20, <1>21,
       <1>22, <1>23, <1>24, <1>25, <1>26 DEF AppInv

(* An application is activated, or changes.                                *)
LEMMA NotifyWorkspaceStep ==
    ASSUME AppInv, NEW p \in Process, NotifyWorkspace(p)
    PROVE  AppInv'
<1>0. Parts
    BY PartsHold DEF AppInv
<1>1. /\ \E t \in {"activated", "changed", "created"}, q \in Process, o \in Reference :
            queue' = Append(queue, Event(t, q, o))
  <2>1. \E t \in {"activated", "changed"} : queue' = Append(queue, Event(t, p, NoApp))
    BY DEF NotifyWorkspace, Post
  <2> QED
    BY <2>1, RecordFacts
<1>2. UNCHANGED <<proc, interactive, boot, carbon, creations, cache, info, elapsed, timer, app,
                  observed, applications, main, ev, told, activateDue>>
    BY DEF NotifyWorkspace, system, infoVars, appVars, history
<1>3. /\ \A kind : Sent(kind)' = Sent(kind)
      /\ \A kind : Handled(kind)' = Handled(kind)
      /\ CarbonOrder'
    BY <1>2, Frames DEF AppInv
<1>4. /\ queue' \in Seq(QueuedEvent) /\ EventOrder'
      /\ Queued("launched")' = Queued("launched") /\ Queued("terminated")' = Queued("terminated")
  <2>1. PICK t \in {"activated", "changed", "created"}, q \in Process, o \in Reference :
            queue' = Append(queue, Event(t, q, o))
    BY <1>1
  <2>2. t \notin Lifecycle /\ t \in {"launched", "terminated", "activated", "changed", "created"}
    BY DEF Lifecycle
  <2>3. /\ queue' \in Seq(QueuedEvent) /\ EventOrder'
        /\ \A kind \in Lifecycle :
            Queued(kind)' = IF kind = t THEN Queued(kind) \union {q} ELSE Queued(kind)
    BY <1>0, <2>1, <2>2, PostFacts DEF AppInv, Parts
  <2> QED
    BY <2>2, <2>3 DEF Lifecycle
<1>5. boot = "run"
    BY DEF NotifyWorkspace, MainReady
<1>11. TypeOK'
  <2>1. Parts'
    BY <1>0, <1>1, <1>2, <1>4 DEF Parts
  <2> QED
    BY <2>1, Zenon DEF Parts, TypeOK
<1>12. BeforeRun'
    BY <1>2, <1>5 DEF BeforeRun
<1>13. MainShape'
    BY <1>2, <1>3 DEF AppInv, MainShape
<1>14. EvShape'
    BY <1>2, <1>3 DEF AppInv, EvShape
<1>16. EventOrder'
    BY <1>4
<1>17. HandledFirst'
    BY <1>3, <1>4 DEF AppInv, HandledFirst
<1>18. Reports'
    BY <1>2, <1>3 DEF AppInv, Reports
<1>19. EndIsLast'
    BY <1>2, <1>3, <1>4 DEF AppInv, EndIsLast, InUse, Ended, Closed
<1>20. Unknown'
    BY <1>2, <1>3, <1>4 DEF AppInv, Unknown, InUse
<1>21. Launching'
    BY <1>2, <1>3, <1>4 DEF AppInv, Launching, InUse
<1>22. Adding'
    BY <1>2, <1>3, <1>4 DEF AppInv, Adding, InUse
<1>23. LaunchIsFound'
    BY <1>2, <1>3, <1>4 DEF AppInv, LaunchIsFound, ToBeTold
<1>24. MapIsLive'
    BY <1>2, <1>3 DEF AppInv, MapIsLive
<1>25. AddedIsTold'
    BY <1>2, <1>3, <1>4 DEF AppInv, AddedIsTold, ToBeTold
<1>26. ToldLast'
    BY <1>2, <1>3, <1>4 DEF AppInv, ToldLast, Ended
<1> QED
    BY <1>11, <1>12, <1>13, <1>14, <1>3, <1>16, <1>17, <1>18, <1>19, <1>20, <1>21,
       <1>22, <1>23, <1>24, <1>25, <1>26 DEF AppInv

----
(* The handlers.                                                           *)

(* The event under way.                                                    *)
LEMMA EvFacts ==
    ASSUME AppInv, ev.pc # "idle"
    PROVE  /\ boot = "run" /\ ev \in HandlerState /\ ev.event \in QueuedEvent
           /\ ev.event.type \in {"launched", "terminated", "activated", "changed", "created"}
           /\ ev.event.proc \in Process
           /\ \A kind \in Lifecycle :
                Handled(kind) = IF kind = ev.event.type THEN {ev.event.proc} ELSE {}
<1>1. boot = "run" /\ ev.event \in QueuedEvent /\ ev \in HandlerState
    BY RecordFacts DEF AppInv, BeforeRun, EvShape, TypeOK
<1>2. /\ ev.event.type \in {"launched", "terminated", "activated", "changed", "created"}
      /\ ev.event.proc \in Process
    BY <1>1, RecordFacts
<1> QED
    BY <1>1, <1>2 DEF Handled

(* The handler goes on with the event, or returns.                         *)
LEMMA HandledFacts ==
    /\ ev'.pc = "idle" => \A kind : Handled(kind)' = {}
    /\ ev'.pc # "idle" /\ ev.pc # "idle" /\ ev'.event = ev.event =>
            \A kind : Handled(kind)' = Handled(kind)
    /\ ev.pc = "idle" => \A kind : Handled(kind) = {}
BY DEF Handled


(* An event is taken.                                                      *)
LEMMA TakeEventStep ==
    ASSUME AppInv, TakeEvent
    PROVE  AppInv'
<1>0. Parts
    BY PartsHold DEF AppInv
<1>1. /\ boot = "run" /\ ev.pc = "idle" /\ queue # <<>> /\ queue' = Tail(queue)
      /\ Head(queue) \in QueuedEvent /\ Head(queue).proc \in Process
      /\ ev' \in HandlerState /\ ev'.event = Head(queue) /\ ev'.app \in Reference
      /\ ev'.pc = IF Head(queue).type = "created" THEN "register" ELSE "find"
      /\ queue' \in Seq(QueuedEvent) /\ EventOrder'
  <2>1. /\ boot = "run" /\ ev = EventIdle /\ queue # <<>> /\ queue' = Tail(queue)
        /\ ev' = [pc |-> IF Head(queue).type = "created" THEN "register" ELSE "find",
                  event |-> Head(queue), app |-> Head(queue).owner]
    BY DEF TakeEvent
  <2>2. Head(queue) \in QueuedEvent /\ queue' \in Seq(QueuedEvent) /\ EventOrder'
    BY <1>0, <2>1, TakeFacts DEF AppInv, Parts
  <2>3. Head(queue).proc \in Process /\ Head(queue).owner \in Reference
    BY <2>2, RecordFacts
  <2>4. ev' \in HandlerState /\ ev'.app \in Reference
    BY <2>1, <2>2, <2>3 DEF HandlerState
  <2> QED
    BY <2>1, <2>2, <2>3, <2>4, RecordFacts
<1>2. UNCHANGED <<proc, interactive, boot, carbon, creations, cache, info, elapsed, timer, app,
                  observed, applications, main, told, activateDue>>
    BY DEF TakeEvent, system, infoVars, appVars, history
<1>3. /\ \A kind : Sent(kind)' = Sent(kind)
      /\ CarbonOrder'
    BY <1>2, Frames DEF AppInv
<1>4. PICK e \in QueuedEvent : e = Head(queue)
    BY <1>1
<1>5. /\ \A kind \in Lifecycle :
            Queued(kind) = IF kind = e.type THEN Queued(kind)' \union {e.proc} ELSE Queued(kind)'
      /\ e.type = "launched" => e.proc \notin Queued("launched")'
      /\ e.type = "terminated" => \A kind \in Lifecycle : e.proc \notin Queued(kind)'
    BY <1>0, <1>1, <1>4, TakeFacts DEF AppInv, Parts
<1>6. \A kind \in Lifecycle : Handled(kind) = {} /\ Handled(kind)' = IF kind = e.type THEN {e.proc} ELSE {}
    BY <1>1, <1>4 DEF Handled, Lifecycle
<1>7. e.type \in Lifecycle => ev'.pc = "find"
    BY <1>1, <1>4 DEF Lifecycle
<1>8. \A q \in Process :
        /\ Ended(q)' <=> Ended(q)
        /\ InUse(q)' <=> InUse(q)
        /\ ToBeTold(q)' <=> ToBeTold(q)
        /\ q \notin Handled("launched") /\ q \notin Handled("terminated")
    BY <1>1, <1>2, <1>5, <1>6, <1>7 DEF Ended, InUse, ToBeTold, Lifecycle
<1>11. TypeOK'
  <2>1. Parts'
    BY <1>0, <1>1, <1>2 DEF Parts
  <2> QED
    BY <2>1, Zenon DEF Parts, TypeOK
<1>12. BeforeRun'
    BY <1>1, <1>2 DEF BeforeRun
<1>13. MainShape'
    BY <1>2, <1>3 DEF AppInv, MainShape
<1>14. EvShape'
    BY <1>1 DEF EvShape
<1>16. EventOrder'
    BY <1>1
<1>17. HandledFirst'
    BY <1>5, <1>6 DEF HandledFirst, Lifecycle
<1>18. Reports'
    BY <1>2, <1>3 DEF AppInv, Reports
<1>19. EndIsLast'
    BY <1>2, <1>3, <1>8 DEF AppInv, EndIsLast, Closed
<1>20. Unknown'
    BY <1>2, <1>8 DEF AppInv, Unknown
<1>21. Launching'
    BY <1>2, <1>8 DEF AppInv, Launching
<1>22. Adding'
    BY <1>2, <1>8 DEF AppInv, Adding
<1>23. LaunchIsFound'
    BY <1>2, <1>8 DEF AppInv, LaunchIsFound
<1>24. MapIsLive'
    BY <1>2, <1>3 DEF AppInv, MapIsLive
<1>25. AddedIsTold'
    BY <1>2, <1>8 DEF AppInv, AddedIsTold
<1>26. ToldLast'
    BY <1>2, <1>8 DEF AppInv, ToldLast
<1> QED
    BY <1>11, <1>12, <1>13, <1>14, <1>3, <1>16, <1>17, <1>18, <1>19, <1>20, <1>21,
       <1>22, <1>23, <1>24, <1>25, <1>26 DEF AppInv

(* The owner of the window is told of its notifications.                   *)
LEMMA RegisterCreatedStep ==
    ASSUME AppInv, RegisterCreated
    PROVE  AppInv'
<1>0. Parts
    BY PartsHold DEF AppInv
<1>1. /\ ev.pc = "register" /\ ev' = EventIdle
      /\ ev' \in HandlerState /\ ev'.pc = "idle" /\ ev'.app \in Reference
    BY RecordFacts DEF RegisterCreated
<1>2. UNCHANGED <<proc, interactive, boot, carbon, creations, cache, info, elapsed, timer, app,
                  observed, applications, main, queue, told, activateDue>>
    BY DEF RegisterCreated, system, infoVars, appVars, history
<1>3. /\ \A kind : Sent(kind)' = Sent(kind)
      /\ \A kind : Queued(kind)' = Queued(kind)
      /\ CarbonOrder'
      /\ EventOrder'
    BY <1>2, Frames DEF AppInv
<1>4. /\ boot = "run" /\ ev \in HandlerState
      /\ ev.event.type \in {"launched", "terminated", "activated", "changed", "created"}
      /\ ev.event.proc \in Process
      /\ Handled("launched") = IF ev.event.type = "launched" THEN {ev.event.proc} ELSE {}
      /\ Handled("terminated") = IF ev.event.type = "terminated" THEN {ev.event.proc} ELSE {}
    BY <1>1, EvFacts DEF Lifecycle
<1>5. Handled("launched")' = Handled("launched") /\ Handled("terminated")' = Handled("terminated")
  <2>1. ev.event.type = "created"
    BY <1>1 DEF AppInv, EvShape
  <2> QED
    BY <1>1, <1>4, <2>1, HandledFacts
<1>6. \A q \in Process : ToBeTold(q)' <=> ToBeTold(q)
    BY <1>1, <1>3, <1>5 DEF ToBeTold
<1>11. TypeOK'
  <2>1. Parts'
    BY <1>0, <1>1, <1>2 DEF Parts
  <2> QED
    BY <2>1, Zenon DEF Parts, TypeOK
<1>12. BeforeRun'
    BY <1>2, <1>4 DEF BeforeRun
<1>13. MainShape'
    BY <1>2, <1>3 DEF AppInv, MainShape
<1>14. EvShape'
    BY <1>1 DEF EvShape
<1>17. HandledFirst'
    BY <1>3, <1>5 DEF AppInv, HandledFirst
<1>18. Reports'
    BY <1>2, <1>3 DEF AppInv, Reports
<1>19. EndIsLast'
    BY <1>2, <1>3, <1>5 DEF AppInv, EndIsLast, InUse, Ended, Closed
<1>20. Unknown'
    BY <1>2, <1>3, <1>5 DEF AppInv, Unknown, InUse
<1>21. Launching'
    BY <1>2, <1>3, <1>5 DEF AppInv, Launching, InUse
<1>22. Adding'
    BY <1>2, <1>3, <1>5 DEF AppInv, Adding, InUse
<1>23. LaunchIsFound'
    BY <1>2, <1>6 DEF AppInv, LaunchIsFound
<1>24. MapIsLive'
    BY <1>2, <1>3 DEF AppInv, MapIsLive
<1>25. AddedIsTold'
    BY <1>2, <1>6 DEF AppInv, AddedIsTold
<1>26. ToldLast'
    BY <1>1, <1>2, <1>3, <1>5 DEF AppInv, ToldLast, Ended
<1> QED
    BY <1>11, <1>12, <1>13, <1>14, <1>3, <1>17, <1>18, <1>19, <1>20, <1>21, <1>22,
       <1>23, <1>24, <1>25, <1>26 DEF AppInv

(* The application of the event is looked up.                              *)
LEMMA FindStep ==
    ASSUME AppInv, FindApplication
    PROVE  AppInv'
<1>0. Parts
    BY PartsHold DEF AppInv
<1>1. /\ ev.pc = "find"
      /\ ev' \in HandlerState /\ ev'.app \in Reference
      /\ \/ /\ ev'.pc = "tell" /\ ev'.event = ev.event
            /\ ev'.app = applications[ev.event.proc] /\ ev'.app # NoApp
         \/ ev'.pc = "end" /\ ev'.event = ev.event /\ ev.event.type = "terminated"
         \/ ev' = EventIdle /\ ev.event.type \notin {"launched", "terminated"}
  <2>1. /\ ev.pc = "find" /\ ev \in HandlerState /\ ev.event.proc \in Process
        /\ Handled("launched") = IF ev.event.type = "launched" THEN {ev.event.proc} ELSE {}
    BY EvFacts DEF FindApplication, Lifecycle
  <2>2. ev.event.type = "launched" => applications[ev.event.proc] # NoApp
    BY <2>1 DEF AppInv, LaunchIsFound, ToBeTold
  <2>3. CASE applications[ev.event.proc] # NoApp
    <3>1. ev' = [ev EXCEPT !.pc = "tell", !.app = applications[ev.event.proc]]
        BY <2>3 DEF FindApplication
    <3>2. applications[ev.event.proc] \in Reference
        BY <1>0, <2>1 DEF Parts
    <3> QED
        BY <2>1, <2>3, <3>1, <3>2 DEF HandlerState
  <2>4. CASE applications[ev.event.proc] = NoApp /\ ev.event.type = "terminated"
    <3>1. ev' = [ev EXCEPT !.pc = "end"]
        BY <2>4 DEF FindApplication
    <3> QED
        BY <1>0, <2>1, <2>4, <3>1 DEF HandlerState, Parts
  <2>5. CASE applications[ev.event.proc] = NoApp /\ ev.event.type \notin {"launched", "terminated"}
    <3>1. ev' = EventIdle
        BY <2>5 DEF FindApplication
    <3> QED
        BY <2>1, <2>5, <3>1, RecordFacts
  <2> QED
    BY <2>2, <2>3, <2>4, <2>5
<1>2. UNCHANGED <<proc, interactive, boot, carbon, creations, cache, info, elapsed, timer, app,
                  observed, applications, main, queue, told, activateDue>>
    BY DEF FindApplication, system, infoVars, appVars, history
<1>3. /\ \A kind : Sent(kind)' = Sent(kind)
      /\ \A kind : Queued(kind)' = Queued(kind)
      /\ CarbonOrder'
      /\ EventOrder'
    BY <1>2, Frames DEF AppInv
<1>4. /\ boot = "run" /\ ev \in HandlerState
      /\ ev.event.type \in {"launched", "terminated", "activated", "changed", "created"}
      /\ ev.event.proc \in Process
      /\ Handled("launched") = IF ev.event.type = "launched" THEN {ev.event.proc} ELSE {}
      /\ Handled("terminated") = IF ev.event.type = "terminated" THEN {ev.event.proc} ELSE {}
    BY <1>1, EvFacts DEF Lifecycle
<1>5. Handled("launched")' = Handled("launched") /\ Handled("terminated")' = Handled("terminated")
  <2>1. CASE ev' = EventIdle /\ ev.event.type \notin {"launched", "terminated"}
    <3>1. Handled("launched")' = {} /\ Handled("terminated")' = {}
        BY <2>1, HandledFacts, RecordFacts
    <3> QED
        BY <1>4, <2>1, <3>1
  <2>2. CASE ev'.pc # "idle" /\ ev'.event = ev.event
    BY <1>1, <2>2, HandledFacts
  <2> QED
    BY <1>1, <2>1, <2>2
<1>6. \A q \in Process : ToBeTold(q)' <=> ToBeTold(q)
  <2>1. ev.event.type = "launched" => ev'.pc = "tell"
    BY <1>1
  <2> QED
    BY <1>1, <1>3, <1>4, <1>5, <2>1 DEF ToBeTold
<1>11. TypeOK'
  <2>1. Parts'
    BY <1>0, <1>1, <1>2 DEF Parts
  <2> QED
    BY <2>1, Zenon DEF Parts, TypeOK
<1>12. BeforeRun'
    BY <1>2, <1>4 DEF BeforeRun
<1>13. MainShape'
    BY <1>2, <1>3 DEF AppInv, MainShape
<1>14. EvShape'
  <2>1. ev.event \in QueuedEvent
    BY <1>1, EvFacts
  <2> QED
    BY <1>1, <1>2, <2>1, RecordFacts DEF AppInv, EvShape
<1>17. HandledFirst'
    BY <1>3, <1>5 DEF AppInv, HandledFirst
<1>18. Reports'
    BY <1>2, <1>3 DEF AppInv, Reports
<1>19. EndIsLast'
    BY <1>2, <1>3, <1>5 DEF AppInv, EndIsLast, InUse, Ended, Closed
<1>20. Unknown'
    BY <1>2, <1>3, <1>5 DEF AppInv, Unknown, InUse
<1>21. Launching'
    BY <1>2, <1>3, <1>5 DEF AppInv, Launching, InUse
<1>22. Adding'
    BY <1>2, <1>3, <1>5 DEF AppInv, Adding, InUse
<1>23. LaunchIsFound'
    BY <1>2, <1>6 DEF AppInv, LaunchIsFound
<1>24. MapIsLive'
    BY <1>2, <1>3 DEF AppInv, MapIsLive
<1>25. AddedIsTold'
    BY <1>2, <1>6 DEF AppInv, AddedIsTold
<1>26. ToldLast'
    BY <1>1, <1>2, <1>3, <1>5 DEF AppInv, ToldLast, Ended
<1> QED
    BY <1>11, <1>12, <1>13, <1>14, <1>3, <1>17, <1>18, <1>19, <1>20, <1>21, <1>22,
       <1>23, <1>24, <1>25, <1>26 DEF AppInv

(* The plugins are told of the event.                                      *)
LEMMA TellPluginsStep ==
    ASSUME AppInv, TellPlugins
    PROVE  AppInv'
<1>0. Parts
    BY PartsHold DEF AppInv
<1>1. /\ ev.pc = "tell"
      /\ ev' \in HandlerState /\ ev'.app \in Reference
      /\ told' \in [Process -> {"nothing", "launched", "terminated"}] /\ activateDue' \subseteq Process
      /\ \A q \in Process : q # ev.event.proc => told'[q] = told[q]
      /\ told'[ev.event.proc] = IF ev.event.type \in {"launched", "terminated"}
                               THEN ev.event.type ELSE told[ev.event.proc]
      /\ \/ /\ ev.event.type = "launched" /\ ev'.pc = "restore"
            /\ ev'.event = ev.event /\ ev'.app = ev.app
         \/ /\ ev.event.type = "terminated" /\ ev'.pc = "remove"
            /\ ev'.event = ev.event /\ ev'.app = ev.app
         \/ ev' = EventIdle /\ ev.event.type \notin {"launched", "terminated"}
  <2>1. /\ ev.pc = "tell" /\ ev \in HandlerState /\ ev.event.proc \in Process
        /\ ev.event.type \in {"launched", "terminated", "activated", "changed", "created"}
    BY EvFacts DEF TellPlugins
  <2>2. told' = [told EXCEPT ![ev.event.proc] = IF ev.event.type \in {"launched", "terminated"}
                                                THEN ev.event.type ELSE @]
    BY DEF TellPlugins
  <2>3. told' \in [Process -> {"nothing", "launched", "terminated"}]
    BY <1>0, <2>1, <2>2 DEF Parts
  <2>4. activateDue' \subseteq Process
    BY <1>0, <2>1 DEF TellPlugins, Parts
  <2>5. \/ ev.event.type = "launched" /\ ev' = [ev EXCEPT !.pc = "restore"]
        \/ ev.event.type = "terminated" /\ ev' = [ev EXCEPT !.pc = "remove"]
        \/ ev.event.type \notin {"launched", "terminated"} /\ ev' = EventIdle
    BY <2>1 DEF TellPlugins
  <2>6. ASSUME NEW l \in {"restore", "remove"}, ev' = [ev EXCEPT !.pc = l]
        PROVE  /\ ev' \in HandlerState /\ ev'.app \in Reference
               /\ ev'.pc = l /\ ev'.event = ev.event /\ ev'.app = ev.app
    BY <1>0, <2>1, <2>6 DEF HandlerState, Parts
  <2>7. /\ ev' \in HandlerState /\ ev'.app \in Reference
        /\ \/ /\ ev.event.type = "launched" /\ ev'.pc = "restore"
              /\ ev'.event = ev.event /\ ev'.app = ev.app
           \/ /\ ev.event.type = "terminated" /\ ev'.pc = "remove"
              /\ ev'.event = ev.event /\ ev'.app = ev.app
           \/ ev' = EventIdle /\ ev.event.type \notin {"launched", "terminated"}
    BY <2>5, <2>6, RecordFacts
  <2> QED
    BY <1>0, <2>1, <2>2, <2>3, <2>4, <2>7 DEF Parts
<1>2. UNCHANGED <<proc, interactive, boot, carbon, creations, cache, info, elapsed, timer, app,
                  observed, applications, main, queue>>
    BY DEF TellPlugins, system, infoVars, appVars, history
<1>3. /\ \A kind : Sent(kind)' = Sent(kind)
      /\ \A kind : Queued(kind)' = Queued(kind)
      /\ CarbonOrder'
      /\ EventOrder'
    BY <1>2, Frames DEF AppInv
<1>4. /\ boot = "run" /\ ev \in HandlerState
      /\ ev.event.type \in {"launched", "terminated", "activated", "changed", "created"}
      /\ ev.event.proc \in Process
      /\ Handled("launched") = IF ev.event.type = "launched" THEN {ev.event.proc} ELSE {}
      /\ Handled("terminated") = IF ev.event.type = "terminated" THEN {ev.event.proc} ELSE {}
    BY <1>1, EvFacts DEF Lifecycle
<1>5. Handled("launched")' = Handled("launched") /\ Handled("terminated")' = Handled("terminated")
  <2>1. CASE ev' = EventIdle /\ ev.event.type \notin {"launched", "terminated"}
    <3>1. Handled("launched")' = {} /\ Handled("terminated")' = {}
        BY <2>1, HandledFacts, RecordFacts
    <3> QED
        BY <1>4, <2>1, <3>1
  <2>2. CASE ev'.pc # "idle" /\ ev'.event = ev.event
    BY <1>1, <2>2, HandledFacts
  <2> QED
    BY <1>1, <2>1, <2>2
<1>6. PICK p \in Process : p = ev.event.proc
    BY <1>4
<1>7. /\ ev.event.type \in {"launched", "terminated"} => InUse(p)
      /\ ev.event.type \in {"launched", "terminated"} => p \notin Queued("launched")
      /\ ev'.pc \notin {"find", "tell"}
    BY <1>1, <1>4, <1>6, RecordFacts DEF AppInv, HandledFirst, InUse
<1>8. \A q \in Process :
        \/ told'[q] = told[q] /\ (ToBeTold(q)' <=> ToBeTold(q))
        \/ q = p /\ InUse(p) /\ ~ToBeTold(p)' /\ told'[p] = ev.event.type /\ told'[p] # "nothing"
  <2> SUFFICES ASSUME NEW q \in Process
               PROVE  \/ told'[q] = told[q] /\ (ToBeTold(q)' <=> ToBeTold(q))
                      \/ /\ q = p /\ InUse(p) /\ ~ToBeTold(p)' /\ told'[p] = ev.event.type
                         /\ told'[p] # "nothing"
    OBVIOUS
  <2>1. CASE q = p /\ ev.event.type \in {"launched", "terminated"}
    BY <1>1, <1>3, <1>6, <1>7, <2>1 DEF ToBeTold
  <2>2. CASE q = p /\ ev.event.type \notin {"launched", "terminated"}
    BY <1>1, <1>3, <1>4, <1>5, <1>6, <2>2 DEF ToBeTold
  <2>3. CASE q # p
    BY <1>1, <1>3, <1>4, <1>5, <1>6, <2>3 DEF ToBeTold
  <2> QED
    BY <2>1, <2>2, <2>3
<1>9. \A q \in Process : InUse(q)' <=> InUse(q)
    BY <1>3, <1>5 DEF InUse
<1>11. TypeOK'
  <2>1. Parts'
    BY <1>0, <1>1, <1>2 DEF Parts
  <2> QED
    BY <2>1, Zenon DEF Parts, TypeOK
<1>12. BeforeRun'
    BY <1>2, <1>4 DEF BeforeRun
<1>13. MainShape'
    BY <1>2, <1>3 DEF AppInv, MainShape
<1>14. EvShape'
  <2>1. ev.event \in QueuedEvent
    BY <1>1, EvFacts
  <2> QED
    BY <1>1, <1>2, <2>1, RecordFacts DEF AppInv, EvShape
<1>17. HandledFirst'
    BY <1>3, <1>5 DEF AppInv, HandledFirst
<1>18. Reports'
    BY <1>2, <1>3 DEF AppInv, Reports
<1>19. EndIsLast'
    BY <1>2, <1>3, <1>5 DEF AppInv, EndIsLast, InUse, Ended, Closed
<1>20. Unknown'
    BY <1>2, <1>8, <1>9 DEF AppInv, Unknown
<1>21. Launching'
    BY <1>2, <1>8, <1>9 DEF AppInv, Launching
<1>22. Adding'
    BY <1>2, <1>8, <1>9 DEF AppInv, Adding
<1>23. LaunchIsFound'
    BY <1>2, <1>8 DEF AppInv, LaunchIsFound
<1>24. MapIsLive'
    BY <1>2, <1>3 DEF AppInv, MapIsLive
<1>25. AddedIsTold'
    BY <1>2, <1>8 DEF AppInv, AddedIsTold
<1>26. ToldLast'
  <2> SUFFICES ASSUME NEW q \in Process, told'[q] = "terminated"
               PROVE  /\ Ended(q)'
                      /\ \/ applications'[q] = NoApp
                         \/ q \in Handled("terminated")' /\ ev'.pc = "remove"
    BY DEF ToldLast
  <2>1. CASE told'[q] = told[q]
    <3>1. applications[q] = NoApp /\ Ended(q)
        BY <1>1, <2>1 DEF AppInv, ToldLast
    <3> QED
        BY <1>2, <1>3, <1>5, <3>1 DEF Ended
  <2>2. CASE q = p /\ told'[p] = ev.event.type
    BY <1>1, <1>4, <1>5, <1>6, <2>2 DEF Ended
  <2> QED
    BY <1>8, <2>1, <2>2
<1> QED
    BY <1>11, <1>12, <1>13, <1>14, <1>3, <1>17, <1>18, <1>19, <1>20, <1>21, <1>22,
       <1>23, <1>24, <1>25, <1>26 DEF AppInv

(* The activation that was discarded is restored.                          *)
LEMMA RestoreStep ==
    ASSUME AppInv, RestoreActivated
    PROVE  AppInv'
<1>0. Parts
    BY PartsHold DEF AppInv
<1>1. /\ ev.pc = "restore" /\ ev' = EventIdle
      /\ ev' \in HandlerState /\ ev'.pc = "idle" /\ ev'.app \in Reference
      /\ queue' = Append(queue, Event("activated", ev.event.proc, NoApp))
    BY RecordFacts DEF RestoreActivated, Post
<1>2. UNCHANGED <<proc, interactive, boot, carbon, creations, cache, info, elapsed, timer, app,
                  observed, applications, main, told, activateDue>>
    BY DEF RestoreActivated, system, infoVars, appVars, history
<1>3. /\ \A kind : Sent(kind)' = Sent(kind)
      /\ CarbonOrder'
    BY <1>2, Frames DEF AppInv
<1>4. /\ boot = "run" /\ ev \in HandlerState
      /\ ev.event.type \in {"launched", "terminated", "activated", "changed", "created"}
      /\ ev.event.proc \in Process
      /\ Handled("launched") = IF ev.event.type = "launched" THEN {ev.event.proc} ELSE {}
      /\ Handled("terminated") = IF ev.event.type = "terminated" THEN {ev.event.proc} ELSE {}
    BY <1>1, EvFacts DEF Lifecycle
<1>5. Handled("launched")' = {} /\ Handled("terminated")' = {} /\ Handled("terminated") = {}
  <2>1. ev.event.type = "launched"
    BY <1>1 DEF AppInv, EvShape
  <2> QED
    BY <1>1, <1>4, <2>1, HandledFacts
<1>6. /\ queue' \in Seq(QueuedEvent) /\ EventOrder'
      /\ Queued("launched")' = Queued("launched") /\ Queued("terminated")' = Queued("terminated")
  <2>1. "activated" \notin Lifecycle
    BY DEF Lifecycle
  <2>2. /\ queue' \in Seq(QueuedEvent) /\ EventOrder'
        /\ \A kind \in Lifecycle : Queued(kind)' = IF kind = "activated"
                THEN Queued(kind) \union {ev.event.proc} ELSE Queued(kind)
    BY <1>0, <1>1, <1>4, <2>1, PostFacts, RecordFacts DEF AppInv, Parts
  <2> QED
    BY <2>1, <2>2 DEF Lifecycle
<1>7. \A q \in Process : ToBeTold(q)' <=> ToBeTold(q)
    BY <1>1, <1>5, <1>6 DEF ToBeTold
<1>11. TypeOK'
  <2>1. Parts'
    BY <1>0, <1>1, <1>2, <1>6 DEF Parts
  <2> QED
    BY <2>1, Zenon DEF Parts, TypeOK
<1>12. BeforeRun'
    BY <1>2, <1>4 DEF BeforeRun
<1>13. MainShape'
    BY <1>2, <1>3 DEF AppInv, MainShape
<1>14. EvShape'
    BY <1>1 DEF EvShape
<1>16. EventOrder'
    BY <1>6
<1>17. HandledFirst'
    BY <1>5 DEF HandledFirst
<1>18. Reports'
    BY <1>2, <1>3 DEF AppInv, Reports
<1>19. EndIsLast'
    BY <1>2, <1>3, <1>5, <1>6 DEF AppInv, EndIsLast, InUse, Ended, Closed
<1>20. Unknown'
    BY <1>2, <1>5, <1>6 DEF AppInv, Unknown, InUse
<1>21. Launching'
    BY <1>2, <1>5, <1>6 DEF AppInv, Launching, InUse
<1>22. Adding'
    BY <1>2, <1>5, <1>6 DEF AppInv, Adding, InUse
<1>23. LaunchIsFound'
    BY <1>2, <1>7 DEF AppInv, LaunchIsFound
<1>24. MapIsLive'
    BY <1>2, <1>3 DEF AppInv, MapIsLive
<1>25. AddedIsTold'
    BY <1>2, <1>7 DEF AppInv, AddedIsTold
<1>26. ToldLast'
    BY <1>1, <1>2, <1>5, <1>6 DEF AppInv, ToldLast, Ended
<1> QED
    BY <1>11, <1>12, <1>13, <1>14, <1>3, <1>16, <1>17, <1>18, <1>19, <1>20, <1>21,
       <1>22, <1>23, <1>24, <1>25, <1>26 DEF AppInv

(* The application that has ended is removed and freed.                    *)
LEMMA RemoveStep ==
    ASSUME AppInv, RemoveAndDestroyApplication
    PROVE  AppInv'
<1>0. Parts
    BY PartsHold DEF AppInv
<1>1. /\ ev.pc = "remove"
      /\ ev' \in HandlerState /\ ev'.app \in Reference
      /\ ev'.pc = "end" /\ ev'.event = ev.event
      /\ applications' = [applications EXCEPT ![ev.event.proc] = NoApp]
      /\ app' = [app EXCEPT ![ev.app] = "freed"]
      /\ observed' \subseteq App /\ creations' \subseteq observed'
  <2>1. /\ ev.pc = "remove" /\ ev' = [ev EXCEPT !.pc = "end"]
        /\ applications' = [applications EXCEPT ![ev.event.proc] = NoApp]
        /\ app' = [app EXCEPT ![ev.app] = "freed"]
        /\ observed' = observed \ {ev.app} /\ creations' = creations \ {ev.app}
    BY DEF RemoveAndDestroyApplication, EventGoto
  <2>2. ev' \in HandlerState /\ ev'.app \in Reference /\ ev'.pc = "end" /\ ev'.event = ev.event
    BY <1>0, <2>1 DEF Parts, HandlerState
  <2> QED
    BY <1>0, <2>1, <2>2 DEF Parts
<1>2. UNCHANGED <<proc, interactive, boot, carbon, cache, info, elapsed, timer, main, queue,
                  told, activateDue>>
    BY DEF RemoveAndDestroyApplication, system, infoVars, appVars, history
<1>3. /\ \A kind : Sent(kind)' = Sent(kind)
      /\ \A kind : Queued(kind)' = Queued(kind)
      /\ CarbonOrder'
      /\ EventOrder'
    BY <1>2, Frames DEF AppInv
<1>4. /\ boot = "run" /\ ev \in HandlerState
      /\ ev.event.type \in {"launched", "terminated", "activated", "changed", "created"}
      /\ ev.event.proc \in Process
      /\ Handled("launched") = IF ev.event.type = "launched" THEN {ev.event.proc} ELSE {}
      /\ Handled("terminated") = IF ev.event.type = "terminated" THEN {ev.event.proc} ELSE {}
    BY <1>1, EvFacts DEF Lifecycle
<1>5. PICK p \in Process : p = ev.event.proc
    BY <1>4
<1>6. Handled("launched") = {} /\ Handled("terminated") = {p}
  <2>1. ev.event.type = "terminated"
    BY <1>1 DEF AppInv, EvShape
  <2> QED
    BY <1>4, <1>5, <2>1
<1>7. InUse(p) /\ Ended(p) /\ Closed(p) /\ p \notin Queued("launched") /\ p \notin Queued("terminated")
    BY <1>6 DEF AppInv, HandledFirst, InUse, Ended, EndIsLast
<1>8. ev.app = applications[p] /\ ev.app \in App /\ ev.app[1] = p
  <2>1. ev.app = applications[p] /\ ev.app # NoApp
    BY <1>1, <1>5 DEF AppInv, EvShape
  <2> QED
    BY <1>0, <2>1 DEF AppInv, MapIsLive, Parts, Reference
<1>9. /\ applications' \in [Process -> Reference] /\ applications'[p] = NoApp
      /\ \A q \in Process : q # p => applications'[q] = applications[q]
      /\ app' \in [App -> {"none", "live", "freed"}]
      /\ \A a \in App : a[1] # p => app'[a] = app[a]
      /\ \A q \in Process : q # p => app'[Launched(q)] = app[Launched(q)]
  <2>1. app' \in [App -> {"none", "live", "freed"}] /\ \A a \in App : a[1] # p => app'[a] = app[a]
    BY <1>0, <1>1, <1>8 DEF Parts
  <2>2. /\ applications' \in [Process -> Reference] /\ applications'[p] = NoApp
        /\ \A q \in Process : q # p => applications'[q] = applications[q]
    BY <1>0, <1>1, <1>5, RecordFacts DEF Parts
  <2> QED
    BY <2>1, <2>2, AppFacts
<1>10. /\ Handled("launched")' = Handled("launched") /\ Handled("terminated")' = Handled("terminated")
       /\ ~ToBeTold(p)' /\ \A q \in Process : ToBeTold(q)' <=> ToBeTold(q)
  <2>1. Handled("launched")' = Handled("launched") /\ Handled("terminated")' = Handled("terminated")
    BY <1>1, HandledFacts
  <2> QED
    BY <1>1, <1>3, <1>6, <1>7, <2>1 DEF ToBeTold
<1>11. TypeOK'
  <2>1. Parts'
    BY <1>0, <1>1, <1>2, <1>9 DEF Parts
  <2> QED
    BY <2>1, Zenon DEF Parts, TypeOK
<1>12. BeforeRun'
    BY <1>2, <1>4 DEF BeforeRun
<1>13. MainShape'
    BY <1>2, <1>3 DEF AppInv, MainShape
<1>14. EvShape'
  <2>1. ev.event \in QueuedEvent /\ ev.event.type = "terminated"
    BY <1>1, EvFacts DEF AppInv, EvShape
  <2> QED
    BY <1>1, <2>1 DEF EvShape
<1>17. HandledFirst'
    BY <1>3, <1>10 DEF AppInv, HandledFirst
<1>18. Reports'
    BY <1>2, <1>3 DEF AppInv, Reports
<1>19. EndIsLast'
    BY <1>2, <1>3, <1>10 DEF AppInv, EndIsLast, InUse, Ended, Closed
<1>20. Unknown'
    BY <1>2, <1>3, <1>7, <1>9, <1>10 DEF AppInv, Unknown, InUse
<1>21. Launching'
    BY <1>2, <1>3, <1>7, <1>9, <1>10 DEF AppInv, Launching, InUse
<1>22. Adding'
    BY <1>2, <1>3, <1>7, <1>9, <1>10 DEF AppInv, Adding, InUse
<1>23. LaunchIsFound'
    BY <1>2, <1>9, <1>10 DEF AppInv, LaunchIsFound
<1>24. MapIsLive'
  <2>1. \A q \in Process : q # p /\ applications[q] # NoApp => applications[q] \in App
    BY <1>0 DEF Parts, Reference
  <2> QED
    BY <1>9, <2>1 DEF AppInv, MapIsLive
<1>25. AddedIsTold'
    BY <1>2, <1>9, <1>10, AppFacts DEF AppInv, AddedIsTold
<1>26. ToldLast'
    BY <1>1, <1>2, <1>3, <1>6, <1>9, <1>10 DEF AppInv, ToldLast, Ended
<1> QED
    BY <1>11, <1>12, <1>13, <1>14, <1>3, <1>17, <1>18, <1>19, <1>20, <1>21, <1>22,
       <1>23, <1>24, <1>25, <1>26 DEF AppInv

(* The Info of the process is freed.                                       *)
LEMMA EndStep ==
    ASSUME AppInv, EndCarbonApplicationDetails
    PROVE  AppInv'
<1>0. Parts
    BY PartsHold DEF AppInv
<1>1. /\ ev.pc = "end" /\ ev' = EventIdle
      /\ ev' \in HandlerState /\ ev'.pc = "idle" /\ ev'.app \in Reference
      /\ info' = [info EXCEPT ![ev.event.proc] = "freed"]
    BY RecordFacts DEF EndCarbonApplicationDetails
<1>2. UNCHANGED <<proc, interactive, boot, carbon, creations, cache, elapsed, timer, app,
                  observed, applications, main, queue, told, activateDue>>
    BY DEF EndCarbonApplicationDetails, system, infoVars, appVars, history
<1>3. /\ \A kind : Sent(kind)' = Sent(kind)
      /\ \A kind : Queued(kind)' = Queued(kind)
      /\ CarbonOrder'
      /\ EventOrder'
    BY <1>2, Frames DEF AppInv
<1>4. /\ boot = "run" /\ ev \in HandlerState
      /\ ev.event.type \in {"launched", "terminated", "activated", "changed", "created"}
      /\ ev.event.proc \in Process
      /\ Handled("launched") = IF ev.event.type = "launched" THEN {ev.event.proc} ELSE {}
      /\ Handled("terminated") = IF ev.event.type = "terminated" THEN {ev.event.proc} ELSE {}
    BY <1>1, EvFacts DEF Lifecycle
<1>5. PICK p \in Process : p = ev.event.proc
    BY <1>4
<1>6. Handled("launched") = {} /\ Handled("terminated") = {p}
  <2>1. ev.event.type = "terminated"
    BY <1>1 DEF AppInv, EvShape
  <2> QED
    BY <1>4, <1>5, <2>1
<1>7. InUse(p) /\ Ended(p) /\ Closed(p) /\ p \notin Queued("launched") /\ p \notin Queued("terminated")
    BY <1>6 DEF AppInv, HandledFirst, InUse, Ended, EndIsLast
<1>8. /\ info' \in [Process -> InfoState] /\ info'[p] = "freed"
      /\ \A q \in Process : q # p => info'[q] = info[q]
    BY <1>0, <1>1, <1>5 DEF Parts, InfoState
<1>9. /\ Handled("launched")' = {} /\ Handled("terminated")' = {}
      /\ \A q \in Process : ToBeTold(q)' <=> ToBeTold(q)
  <2>1. Handled("launched")' = {} /\ Handled("terminated")' = {}
    BY <1>1, HandledFacts
  <2> QED
    BY <1>3, <1>6, <2>1 DEF ToBeTold
<1>11. TypeOK'
  <2>1. Parts'
    BY <1>0, <1>1, <1>2, <1>8 DEF Parts
  <2> QED
    BY <2>1, Zenon DEF Parts, TypeOK
<1>12. BeforeRun'
    BY <1>2, <1>4 DEF BeforeRun
<1>13. MainShape'
    BY <1>2, <1>3 DEF AppInv, MainShape
<1>14. EvShape'
    BY <1>1 DEF EvShape
<1>17. HandledFirst'
    BY <1>9 DEF HandledFirst
<1>18. Reports'
    BY <1>2, <1>3, <1>7, <1>8 DEF AppInv, Reports, Closed
<1>19. EndIsLast'
    BY <1>2, <1>3, <1>6, <1>7, <1>8, <1>9 DEF AppInv, EndIsLast, InUse, Ended, Closed
<1>20. Unknown'
    BY <1>2, <1>3, <1>6, <1>8, <1>9 DEF AppInv, Unknown, InUse
<1>21. Launching'
    BY <1>2, <1>3, <1>6, <1>7, <1>8, <1>9 DEF AppInv, Launching, InUse
<1>22. Adding'
    BY <1>2, <1>3, <1>6, <1>9 DEF AppInv, Adding, InUse
<1>23. LaunchIsFound'
    BY <1>2, <1>9 DEF AppInv, LaunchIsFound
<1>24. MapIsLive'
    BY <1>2, <1>3 DEF AppInv, MapIsLive
<1>25. AddedIsTold'
    BY <1>2, <1>9 DEF AppInv, AddedIsTold
<1>26. ToldLast'
    BY <1>1, <1>2, <1>3, <1>6, <1>8, <1>9 DEF AppInv, ToldLast, Ended
<1> QED
    BY <1>11, <1>12, <1>13, <1>14, <1>3, <1>17, <1>18, <1>19, <1>20, <1>21, <1>22,
       <1>23, <1>24, <1>25, <1>26 DEF AppInv


----
(* Init establishes AppInv, and every step keeps it.                       *)

(* The strengthening holds when the process of chunkwm starts.             *)
LEMMA InitInv == Init => AppInv
<1> SUFFICES ASSUME Init PROVE AppInv
    OBVIOUS
<1>1. /\ proc \in [Process -> {"unborn", "launching", "ready"}] /\ interactive \subseteq Process
      /\ boot = "cache" /\ carbon = <<>> /\ creations = {} /\ cache = {} /\ observed = {}
      /\ info = [p \in Process |-> "none"] /\ elapsed = [p \in Process |-> 0]
      /\ timer = [p \in Process |-> NoTimer] /\ app = [a \in App |-> "none"]
      /\ applications = [p \in Process |-> NoApp] /\ main = MainIdle
      /\ queue = <<>> /\ ev = EventIdle
      /\ told = [p \in Process |-> "nothing"] /\ activateDue = {}
    BY DEF Init
<1>2. /\ main \in MainState /\ main.pc = "idle" /\ main.app = NoApp
      /\ ev \in HandlerState /\ ev.pc = "idle" /\ ev.app = NoApp /\ NoApp \in Reference
    BY <1>1, RecordFacts
<1>3. Len(carbon) = 0 /\ Len(queue) = 0
    BY <1>1
<1>4. /\ \A p \in Process : ~InUse(p) /\ ~ToBeTold(p) /\ main.app # Launched(p)
      /\ \A p \in Process : p \notin Sent("launched") /\ p \notin Sent("terminated")
      /\ \A p \in Process : info[p] = "none" /\ timer[p] = NoTimer /\ told[p] = "nothing"
      /\ \A p \in Process : applications[p] = NoApp /\ Launched(p) # NoApp
      /\ \A p \in Process : app[Launched(p)] = "none"
  <2>1. \A kind : Queued(kind) = {} /\ Handled(kind) = {} /\ Sent(kind) = {}
    BY <1>2, <1>3 DEF Queued, Handled, Sent
  <2> QED
    BY <1>1, <1>2, <2>1, AppFacts DEF InUse, ToBeTold
<1>5. TypeOK
  <2>1. elapsed \in [Process -> 0..Timeout]
    BY <1>1, AppFacts
  <2>2. carbon \in Seq(Report) /\ queue \in Seq(QueuedEvent)
    BY <1>1
  <2>3. Parts
    BY <1>1, <1>2, <2>1, <2>2 DEF Parts, InfoState
  <2> QED
    BY <2>3, PartsHold
<1>6. BeforeRun
    BY <1>1 DEF BeforeRun
<1>7. MainShape /\ EvShape
    BY <1>1, <1>2 DEF MainShape, EvShape
<1>8. CarbonOrder /\ EventOrder
    BY <1>3 DEF CarbonOrder, EventOrder
<1>9. HandledFirst /\ Reports
    BY <1>4 DEF HandledFirst, Reports, InUse
<1>10. EndIsLast
    BY <1>4 DEF EndIsLast, Ended, InUse
<1>11. Unknown /\ Launching
    BY <1>1, <1>4 DEF Unknown, Launching
<1>12. Adding /\ LaunchIsFound /\ MapIsLive /\ AddedIsTold /\ ToldLast
    BY <1>4 DEF Adding, LaunchIsFound, MapIsLive, AddedIsTold, ToldLast
<1> QED
    BY <1>5, <1>6, <1>7, <1>8, <1>9, <1>10, <1>11, <1>12 DEF AppInv

(* Every step of the system and of both threads keeps it.                  *)
LEMMA StepInv == AppInv /\ [Next]_vars => AppInv'
<1> SUFFICES ASSUME AppInv, [Next]_vars PROVE AppInv'
    OBVIOUS
<1>1. Processes => AppInv'
    BY LaunchProcessStep, FinishLaunchingStep, QuitProcessStep, CreateWindowStep DEF Processes
<1>2. StartUp => AppInv'
    BY CacheStep, InstallStep, ListStep DEF StartUp
<1>3. CarbonHandler => AppInv'
    BY AppLaunchedStep, AppTerminatedStep DEF CarbonHandler
<1>4. ASSUME NEW p \in Process, Block(p) PROVE AppInv'
  <2>1. LaunchFails(p) \/ LaunchUnknown(p) => GiveUp(p)
    BY DEF LaunchFails, LaunchUnknown
  <2> QED
    BY <1>4, <2>1, GiveUpStep, DelayStep, ObserveStep, LaunchCancelledStep DEF Block
<1>5. FinishBlock => AppInv'
    BY AddApplicationStep, PostLaunchedStep DEF FinishBlock
<1>6. Notify => AppInv'
    BY NotifyCreatedStep, NotifyWorkspaceStep DEF Notify
<1>7. HandleEvent => AppInv'
    BY TakeEventStep, RegisterCreatedStep, FindStep, TellPluginsStep, RestoreStep, RemoveStep,
       EndStep DEF HandleEvent
<1>8. UNCHANGED vars => AppInv'
  <2> SUFFICES ASSUME UNCHANGED vars PROVE AppInv'
    OBVIOUS
  <2>1. UNCHANGED <<proc, interactive, boot, carbon, creations, cache, info, elapsed, timer, app,
                    observed, applications, main, queue, ev, told, activateDue>>
    BY DEF vars, system, infoVars, appVars, history
  <2> QED
    BY <2>1 DEF AppInv, TypeOK, BeforeRun, MainShape, EvShape, CarbonOrder, EventOrder,
                HandledFirst, Reports, EndIsLast, Unknown, Launching, Adding, LaunchIsFound,
                MapIsLive, AddedIsTold, ToldLast, InUse, ToBeTold, Ended, Closed, Sent, Queued,
                Handled
<1> QED
    BY <1>1, <1>2, <1>3, <1>4, <1>5, <1>6, <1>7, <1>8 DEF Next

(* The strengthening holds all the time.                                   *)
THEOREM InvariantHolds == Spec => []AppInv
<1> QED
    BY InitInv, StepInv, PTL DEF Spec

(* Neither the Info nor the macos_application of a process is freed before *)
(* its last use, and the handler of a launch finds what the block of       *)
(* ConstructAndAddApplicationDispatch has added.                           *)
THEOREM RecordsStayInUse == Spec => []RecordsOutliveUse
<1>1. AppInv => RecordsOutliveUse
  <2> SUFFICES ASSUME AppInv PROVE RecordsOutliveUse
    OBVIOUS
  <2>0. Parts
    BY PartsHold DEF AppInv
  <2>1. InfoOutlivesUse
    <3> SUFFICES ASSUME NEW p \in Process,
                        \/ p \in cache
                        \/ timer[p] # NoTimer
                        \/ \E i \in DOMAIN queue : /\ queue[i].type \in {"launched", "terminated"}
                                                  /\ queue[i].proc = p
                        \/ /\ ev.pc # "idle" /\ ev.event.type \in {"launched", "terminated"}
                           /\ ev.event.proc = p
                 PROVE  info[p] \notin {"none", "freed"}
        BY DEF InfoOutlivesUse, InfoLive
    <3>1. DOMAIN queue = 1..Len(queue)
        BY <2>0, SeqFacts DEF Parts
    <3>2. p \in cache \/ timer[p] # NoTimer \/ InUse(p)
        BY <3>1 DEF InUse, Queued, Handled
    <3>3. info[p] # "none"
        BY <3>2 DEF AppInv, Unknown
    <3>4. info[p] # "freed"
        BY <3>2 DEF AppInv, EndIsLast, Ended, Closed, Launching
    <3> QED
        BY <3>3, <3>4
  <2>2. ApplicationOutlivesUse
    <3>1. main.app # NoApp => app[main.app] = "live"
        <4>1. main.app # NoApp => \E p \in Process : main.app = Launched(p)
            BY <2>0, AppFacts DEF AppInv, MainShape, Parts, Reference
        <4> QED
            BY <4>1 DEF AppInv, Adding
    <3>2. ev.pc \in {"tell", "remove"} => app[ev.app] = "live"
        <4>1. ev.pc # "idle" => ev.event.proc \in Process
            BY RecordFacts DEF AppInv, EvShape
        <4> QED
            BY <4>1 DEF AppInv, EvShape, MapIsLive
    <3> QED
        BY <3>1, <3>2 DEF ApplicationOutlivesUse, AppInv, MapIsLive, Launching
  <2>3. LaunchedFindsApplication
    BY DEF AppInv, EvShape, LaunchedFindsApplication
  <2> QED
    BY <2>1, <2>2, <2>3 DEF RecordsOutliveUse, AppInv
<1> QED
    BY <1>1, InvariantHolds, PTL

(* Plugins hear of a launch and of a termination at most once, in this     *)
(* order, and of nothing after it (the handlers of core/callback.cpp).     *)
THEOREM PluginsHearInOrder == Spec => []PluginOrder
<1>1. AppInv => PluginOrder
  <2> SUFFICES ASSUME AppInv, ev.pc = "tell"
               PROVE  /\ told[ev.event.proc] # "terminated"
                      /\ ev.event.type = "launched" => told[ev.event.proc] = "nothing"
                      /\ ev.event.type = "terminated" =>
                            told[ev.event.proc] = "launched" \/ ev.app = Listed(ev.event.proc)
    BY DEF PluginOrder
  <2>1. /\ ev.event.proc \in Process
        /\ Handled("launched") = IF ev.event.type = "launched" THEN {ev.event.proc} ELSE {}
        /\ Handled("terminated") = IF ev.event.type = "terminated" THEN {ev.event.proc} ELSE {}
    BY EvFacts DEF Lifecycle
  <2>2. PICK p \in Process : p = ev.event.proc
    BY <2>1
  <2>3. /\ ev.app = applications[p] /\ ev.app # NoApp
        /\ ev.app = Listed(p) \/ ev.app = Launched(p)
    <3>1. ev.app = applications[p] /\ ev.app # NoApp
        BY <2>2 DEF AppInv, EvShape
    <3>2. ev.app \in App /\ ev.app[1] = p
        BY <3>1, PartsHold DEF AppInv, Parts, Reference, MapIsLive
    <3> QED
        BY <3>1, <3>2, AppFacts
  <2>4. told[p] # "terminated"
    BY <2>3 DEF AppInv, ToldLast
  <2>5. ev.event.type = "launched" => told[p] = "nothing"
    BY <2>1, <2>2 DEF AppInv, LaunchIsFound, ToBeTold
  <2>6. ev.event.type = "terminated" /\ ev.app = Launched(p) => told[p] = "launched"
    <3> SUFFICES ASSUME ev.event.type = "terminated", ev.app = Launched(p)
                 PROVE  told[p] = "launched"
        OBVIOUS
    <3>1. p \in Handled("terminated") /\ p \notin Handled("launched")
        BY <2>1, <2>2
    <3>2. main.app # Launched(p) /\ ~ToBeTold(p)
        BY <3>1 DEF AppInv, Adding, HandledFirst, InUse, ToBeTold
    <3>3. told[p] # "nothing"
        BY <2>3, <3>2 DEF AppInv, AddedIsTold
    <3> QED
        BY <2>4, <3>3, PartsHold DEF AppInv, Parts
  <2> QED
    BY <2>2, <2>3, <2>4, <2>5, <2>6
<1> QED
    BY <1>1, InvariantHolds, PTL
====
