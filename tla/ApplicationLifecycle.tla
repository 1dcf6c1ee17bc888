------------------------ MODULE ApplicationLifecycle ------------------------
(***************************************************************************)
(* core/dispatch/carbon.cpp, the application half of core/state.cpp and    *)
(* the application handlers of core/callback.cpp: how a process becomes a   *)
(* macos_application that plugins hear of, and how it stops being one.     *)
(*                                                                         *)
(* The main thread first starts up (main, step by step) and then runs the  *)
(* Carbon handler, the blocks dispatch_after put on the main queue, and    *)
(* ApplicationCallback, one at a time.  The event thread handles events in *)
(* the order of the queue (see EventLoop).  The environment starts and     *)
(* ends processes.                                                         *)
(*                                                                         *)
(* A process has one carbon_application_details (its Info), made when it   *)
(* is cached at start-up or launched after it, and up to two               *)
(* macos_application structs: one for being listed by InitState, one for   *)
(* its launch event.  Serial numbers and pids are not reused.  A find,     *)
(* insert or erase in the map Applications is one step.                    *)
(***************************************************************************)
EXTENDS Integers, Sequences

CONSTANTS Process, NoApp,
          Timeout,     \* LAUNCH_STATE_TIMEOUT, in units of LAUNCH_STATE_DELAY
          MaxPending   \* bound on the queue

App == Process \X {"listed", "launched"}

ASSUME ProcessAssumption == Timeout \in Nat /\ MaxPending \in Nat /\ NoApp \notin App

Listed(p) == <<p, "listed">>
Launched(p) == <<p, "launched">>

NoTimer == -1

VARIABLES
    proc,        \* each process, as the system sees it
    interactive, \* those that IsProcessInteractive accepts
    boot,        \* how far main has come
    carbon,      \* carbon events on their way to the main thread
    creations,   \* structs whose observer has a window creation to report
    cache,       \* CarbonApplicationCache
    info,        \* State of each Info, or whether it is allocated
    elapsed,     \* its TimeElapsed
    timer,       \* the pending dispatch block of a launch: its Delay
    app,         \* whether each macos_application is allocated
    observed,    \* structs whose Observer is valid and started
    applications,\* the map Applications
    main,        \* the main thread in a block that has registered a launch
    queue,       \* the queue of the event loop
    ev,          \* the event thread inside a handler
    told,        \* history: what the plugins know of a process
    activateDue  \* history: processes for which an activation is owed

system == <<proc, interactive, carbon>>
infoVars == <<cache, info, elapsed, timer>>
appVars == <<app, observed, creations, applications>>
history == <<told, activateDue>>
vars == <<system, boot, infoVars, appVars, main, queue, ev, history>>

MainIdle == [pc |-> "idle", app |-> NoApp]
EventIdle == [pc |-> "idle", event |-> NoApp, app |-> NoApp]
Event(type, p, owner) == [type |-> type, proc |-> p, owner |-> owner]
Post(type, p) == queue' = Append(queue, Event(type, p, NoApp))

Alive(p) == proc[p] \in {"launching", "ready"}

Init == /\ proc \in [Process -> {"unborn", "launching", "ready"}]
        /\ interactive \in SUBSET Process
        /\ boot = "cache"
        /\ carbon = <<>>
        /\ creations = {}
        /\ cache = {}
        /\ info = [p \in Process |-> "none"]
        /\ elapsed = [p \in Process |-> 0]
        /\ timer = [p \in Process |-> NoTimer]
        /\ app = [a \in App |-> "none"]
        /\ observed = {}
        /\ applications = [p \in Process |-> NoApp]
        /\ main = MainIdle
        /\ queue = <<>>
        /\ ev = EventIdle
        /\ told = [p \in Process |-> "nothing"]
        /\ activateDue = {}

----
(* The processes.  Carbon events are sent from the moment the handler is   *)
(* installed.  Window creations and activations are bounded by MaxPending. *)

Tell(kind, p) == carbon' = IF boot = "cache" \/ boot = "install" THEN carbon
                           ELSE Append(carbon, <<kind, p>>)

LaunchProcess(p) ==
    /\ proc[p] = "unborn"
    /\ proc' = [proc EXCEPT ![p] = "launching"]
    /\ Tell("launched", p)
    /\ UNCHANGED <<interactive, boot, infoVars, appVars, main, queue, ev, history>>

FinishLaunching(p) ==
    /\ proc[p] = "launching"
    /\ proc' = [proc EXCEPT ![p] = "ready"]
    /\ UNCHANGED <<interactive, carbon, boot, infoVars, appVars, main, queue, ev, history>>

QuitProcess(p) ==
    /\ Alive(p)
    /\ proc' = [proc EXCEPT ![p] = "gone"]
    /\ Tell("terminated", p)
    /\ UNCHANGED <<interactive, boot, infoVars, appVars, main, queue, ev, history>>

CreateWindow(p) ==
    /\ proc[p] = "ready"
    /\ creations' = creations \union (observed \intersect {Listed(p), Launched(p)})
    /\ UNCHANGED <<system, boot, infoVars, app, observed, applications, main, queue, ev, history>>

----
(* main, up to CFRunLoopRun                                                *)

(* CacheRunningProcesses *)
CacheRunningProcesses ==
    /\ boot = "cache"
    /\ boot' = "install"
    /\ cache' = {p \in Process : Alive(p)}
    /\ info' = [p \in Process |-> IF Alive(p) THEN "Finished" ELSE info[p]]
    /\ UNCHANGED <<system, elapsed, timer, appVars, main, queue, ev, history>>

(* InstallEventHandler *)
InstallHandler ==
    /\ boot = "install"
    /\ boot' = "list"
    /\ UNCHANGED <<system, infoVars, appVars, main, queue, ev, history>>

(* InitState, then StartEventLoop.  Whether an observer could be added is   *)
(* not looked at.                                                          *)
ListRunningProcesses ==
    /\ boot = "list"
    /\ boot' = "run"
    /\ LET running == {p \in interactive : Alive(p)}
       IN /\ app' = [a \in App |-> IF a \in {Listed(p) : p \in running} THEN "live" ELSE app[a]]
          /\ applications' = [p \in Process |-> IF p \in running THEN Listed(p) ELSE NoApp]
          /\ \E refused \in SUBSET running :
                observed' = {Listed(p) : p \in running \ refused}
    /\ UNCHANGED <<system, creations, infoVars, main, queue, ev, history>>

----
(* The callbacks of the main thread                                        *)

MainReady == boot = "run" /\ main = MainIdle

CarbonEvent(kind, p) == /\ MainReady
                        /\ carbon # <<>>
                        /\ Head(carbon) = <<kind, p>>
                        /\ carbon' = Tail(carbon)

(* kEventAppLaunched, with ConstructAndAddApplication                      *)
AppLaunched(p) ==
    /\ CarbonEvent("launched", p)
    /\ cache' = cache \union {p}
    /\ IF p \in interactive
       THEN /\ info' = [info EXCEPT ![p] = "In_Progress"]
            /\ app' = [app EXCEPT ![Launched(p)] = "live"]
            /\ timer' = [timer EXCEPT ![p] = 0]
       ELSE /\ info' = [info EXCEPT ![p] = "None"]
            /\ UNCHANGED <<app, timer>>
    /\ UNCHANGED <<proc, interactive, boot, elapsed, observed, creations, applications, main, queue, ev,
                   history>>

(* Fault: a launch in progress is not told apart. *)
AppTerminated_InProgress(p) ==
    /\ CarbonEvent("terminated", p)
    /\ cache' = cache \ {p}
    /\ IF p \in cache /\ info[p] # "None" THEN Post("terminated", p) ELSE UNCHANGED queue
    /\ UNCHANGED <<proc, interactive, boot, info, elapsed, timer, appVars, main, ev, history>>

(* kEventAppTerminated *)
AppTerminated(p) ==
    /\ CarbonEvent("terminated", p)
    /\ cache' = cache \ {p}
    /\ info' = [info EXCEPT ![p] = IF p \in cache /\ @ = "In_Progress" THEN "Invalid" ELSE @]
    /\ IF p \in cache /\ info[p] \in {"Finished", "Failed"}
       THEN Post("terminated", p)
       ELSE UNCHANGED queue
    /\ UNCHANGED <<proc, interactive, boot, elapsed, timer, appVars, main, ev, history>>

(* The block of ConstructAndAddApplicationDispatch, one action for each    *)
(* way through it.  Its Delay is added first.                              *)

TimerFires(p) == MainReady /\ timer[p] # NoTimer

Elapsed(p) == elapsed[p] + timer[p]

AddDelay(p) == elapsed' = [elapsed EXCEPT ![p] = IF Elapsed(p) > Timeout THEN Timeout ELSE Elapsed(p)]

Waiting(p) == TimerFires(p) /\ info[p] = "In_Progress"

GiveUp(p) ==
    /\ Waiting(p)
    /\ AddDelay(p)
    /\ info' = [info EXCEPT ![p] = "Failed"]
    /\ app' = [app EXCEPT ![Launched(p)] = "freed"]
    /\ timer' = [timer EXCEPT ![p] = NoTimer]
    /\ UNCHANGED <<system, boot, cache, observed, creations, applications, main, queue, ev, history>>

(* There is no such process any more, or it has been launching too long.   *)
LaunchFails(p) == /\ GiveUp(p)
                  /\ \/ proc[p] = "gone"
                     \/ proc[p] = "launching" /\ Elapsed(p) >= Timeout

(* NSRunningApplication does not know a process that is being launched.    *)
LaunchUnknown(p) == GiveUp(p) /\ proc[p] = "launching"

(* Fault: the time that has passed is not counted. *)
LaunchContinues_NotCounted(p) ==
    /\ Waiting(p)
    /\ proc[p] = "launching"
    /\ Elapsed(p) < Timeout
    /\ timer' = [timer EXCEPT ![p] = 1]
    /\ UNCHANGED <<system, boot, cache, info, elapsed, appVars, main, queue, ev, history>>

LaunchContinues(p) ==
    /\ Waiting(p)
    /\ AddDelay(p)
    /\ proc[p] = "launching"
    /\ Elapsed(p) < Timeout
    /\ timer' = [timer EXCEPT ![p] = 1]
    /\ UNCHANGED <<system, boot, cache, info, appVars, main, queue, ev, history>>

(* AXLibAddApplicationObserver fails; this is retried without a timeout.   *)
ObserveFails(p) ==
    /\ Waiting(p)
    /\ AddDelay(p)
    /\ proc[p] = "ready"
    /\ timer' = [timer EXCEPT ![p] = 1]
    /\ UNCHANGED <<system, boot, cache, info, appVars, main, queue, ev, history>>

ObserveSucceeds(p) ==
    /\ Waiting(p)
    /\ AddDelay(p)
    /\ proc[p] = "ready"
    /\ observed' = observed \union {Launched(p)}
    /\ info' = [info EXCEPT ![p] = "Finished"]
    /\ timer' = [timer EXCEPT ![p] = NoTimer]
    /\ main' = [pc |-> "add", app |-> Launched(p)]
    /\ UNCHANGED <<system, boot, cache, app, creations, applications, queue, ev, history>>

AddApplication ==
    /\ main.pc = "add"
    /\ applications' = [applications EXCEPT ![main.app[1]] = IF @ = NoApp THEN main.app ELSE @]
    /\ main' = [main EXCEPT !.pc = "post"]
    /\ UNCHANGED <<system, boot, infoVars, app, observed, creations, queue, ev, history>>

PostLaunched ==
    /\ main.pc = "post"
    /\ Post("launched", main.app[1])
    /\ main' = MainIdle
    /\ UNCHANGED <<system, boot, infoVars, appVars, ev, history>>

(* Fault: nobody is told of the end of a cancelled launch. *)
LaunchCancelled_NoEvent(p) ==
    /\ TimerFires(p)
    /\ info[p] = "Invalid"
    /\ app' = [app EXCEPT ![Launched(p)] = "freed"]
    /\ timer' = [timer EXCEPT ![p] = NoTimer]
    /\ UNCHANGED <<system, boot, cache, info, elapsed, observed, creations, applications, main, queue, ev,
                   history>>

(* The process ended while its launch was in progress.                     *)
LaunchCancelled(p) ==
    /\ TimerFires(p)
    /\ info[p] = "Invalid"
    /\ app' = [app EXCEPT ![Launched(p)] = "freed"]
    /\ timer' = [timer EXCEPT ![p] = NoTimer]
    /\ Post("terminated", p)
    /\ UNCHANGED <<system, boot, cache, info, elapsed, observed, creations, applications, main, ev, history>>

(* kAXWindowCreatedNotification; the struct is the Reference of the observer. *)
NotifyCreated(a) ==
    /\ MainReady
    /\ a \in creations
    /\ Len(queue) < MaxPending
    /\ creations' = creations \ {a}
    /\ queue' = Append(queue, Event("created", a[1], a))
    /\ UNCHANGED <<system, boot, infoVars, app, observed, applications, main, ev, history>>

(* didActivateApplication; deactivated, hidden and unhidden are "changed". *)
NotifyWorkspace(p) ==
    /\ MainReady
    /\ Len(queue) < MaxPending
    /\ Alive(p)
    /\ \E type \in {"activated", "changed"} : Post(type, p)
    /\ UNCHANGED <<system, boot, infoVars, appVars, main, ev, history>>

----
(* The handlers, on the event thread                                       *)

EventGoto(l) == ev' = [ev EXCEPT !.pc = l]

(* Fault: the event that was added last is taken first. *)
TakeEvent_Last ==
    /\ boot = "run"
    /\ ev = EventIdle
    /\ queue # <<>>
    /\ queue' = SubSeq(queue, 1, Len(queue) - 1)
    /\ LET e == queue[Len(queue)]
       IN ev' = [pc |-> IF e.type = "created" THEN "register" ELSE "find", event |-> e, app |-> e.owner]
    /\ UNCHANGED <<system, boot, infoVars, appVars, main, history>>

TakeEvent ==
    /\ boot = "run"
    /\ ev = EventIdle
    /\ queue # <<>>
    /\ queue' = Tail(queue)
    /\ ev' = [pc |-> IF Head(queue).type = "created" THEN "register" ELSE "find",
              event |-> Head(queue), app |-> Head(queue).owner]
    /\ UNCHANGED <<system, boot, infoVars, appVars, main, history>>

(* AddWindowToCollection adds notifications to Window->Owner->Observer.    *)
RegisterCreated ==
    /\ ev.pc = "register"
    /\ ev' = EventIdle
    /\ UNCHANGED <<system, boot, infoVars, appVars, main, queue, history>>

(* GetApplicationFromPID *)
FindApplication ==
    /\ ev.pc = "find"
    /\ LET found == applications[ev.event.proc]
       IN ev' = IF found # NoApp THEN [ev EXCEPT !.pc = "tell", !.app = found]
                ELSE CASE ev.event.type = "launched"   -> [ev EXCEPT !.pc = "assert"]
                       [] ev.event.type = "terminated" -> [ev EXCEPT !.pc = "end"]
                       [] OTHER                        -> EventIdle
    /\ UNCHANGED <<system, boot, infoVars, appVars, main, queue, history>>

(* ProcessPluginListThreaded *)
TellPlugins ==
    /\ ev.pc = "tell"
    /\ LET p == ev.event.proc
           type == ev.event.type
       IN /\ told' = [told EXCEPT ![p] = IF type \in {"launched", "terminated"} THEN type ELSE @]
          /\ activateDue' = CASE type = "launched"                   -> activateDue \union {p}
                              [] type \in {"activated", "terminated"} -> activateDue \ {p}
                              [] OTHER                               -> activateDue
          /\ ev' = CASE type = "launched"   -> [ev EXCEPT !.pc = "restore"]
                     [] type = "terminated" -> [ev EXCEPT !.pc = "remove"]
                     [] OTHER               -> EventIdle
    /\ UNCHANGED <<system, boot, infoVars, appVars, main, queue>>

(* Fault: the activation is not restored. *)
RestoreActivated_Not ==
    /\ ev.pc = "restore"
    /\ ev' = EventIdle
    /\ UNCHANGED <<system, boot, infoVars, appVars, main, queue, history>>

(* ConstructEvent(ChunkWM_ApplicationActivated, WSInfo), made from Info.   *)
RestoreActivated ==
    /\ ev.pc = "restore"
    /\ Post("activated", ev.event.proc)
    /\ ev' = EventIdle
    /\ UNCHANGED <<system, boot, infoVars, appVars, main, history>>

(* RemoveAndDestroyApplication; stopping the observer invalidates the run   *)
(* loop source, with what it had to deliver.                               *)
RemoveAndDestroyApplication ==
    /\ ev.pc = "remove"
    /\ applications' = [applications EXCEPT ![ev.event.proc] = NoApp]
    /\ app' = [app EXCEPT ![ev.app] = "freed"]
    /\ observed' = observed \ {ev.app}
    /\ creations' = creations \ {ev.app}
    /\ EventGoto("end")
    /\ UNCHANGED <<system, boot, infoVars, main, queue, history>>

(* EndCarbonApplicationDetails *)
EndCarbonApplicationDetails ==
    /\ ev.pc = "end"
    /\ info' = [info EXCEPT ![ev.event.proc] = "freed"]
    /\ ev' = EventIdle
    /\ UNCHANGED <<system, boot, cache, elapsed, timer, appVars, main, queue, history>>

----
Processes == \E p \in Process : \/ LaunchProcess(p)
                                \/ FinishLaunching(p)
                                \/ QuitProcess(p)
                                \/ CreateWindow(p)

StartUp == CacheRunningProcesses \/ InstallHandler \/ ListRunningProcesses

CarbonHandler == \E p \in Process : AppLaunched(p) \/ AppTerminated(p)

Block(p) == \/ LaunchFails(p)
            \/ LaunchUnknown(p)
            \/ LaunchContinues(p)
            \/ ObserveFails(p)
            \/ ObserveSucceeds(p)
            \/ LaunchCancelled(p)

FinishBlock == AddApplication \/ PostLaunched

Notify == \/ \E a \in App : NotifyCreated(a)
          \/ \E p \in Process : NotifyWorkspace(p)

HandleEvent == \/ TakeEvent
               \/ RegisterCreated
               \/ FindApplication
               \/ TellPlugins
               \/ RestoreActivated
               \/ RemoveAndDestroyApplication
               \/ EndCarbonApplicationDetails

Next == \/ Processes
        \/ StartUp
        \/ CarbonHandler
        \/ \E p \in Process : Block(p)
        \/ FinishBlock
        \/ Notify
        \/ HandleEvent

Spec == Init /\ [][Next]_vars

(* main runs, its run loop serves every source, a block fires after its    *)
(* delay, and the event thread is scheduled.  Between two blocks the run   *)
(* loop may be in a callback, hence strong fairness for a block.  That a    *)
(* launched process is unknown, or that its observer can be added, is not  *)
(* assumed to happen.                                                      *)
FairSpec == /\ Spec
            /\ WF_vars(StartUp)
            /\ SF_vars(CarbonHandler)
            /\ \A p \in Process : /\ SF_vars(LaunchFails(p))
                                  /\ SF_vars(LaunchContinues(p))
                                  /\ SF_vars(LaunchCancelled(p))
            /\ WF_vars(FinishBlock)
            /\ WF_vars(HandleEvent)

----
Reference == App \union {NoApp}
InfoState == {"none", "None", "In_Progress", "Finished", "Failed", "Invalid", "freed"}
Report == {"launched", "terminated"} \X Process
MainState == [pc : {"idle", "add", "post"}, app : Reference]
QueuedEvent == [type : {"launched", "terminated", "activated", "changed", "created"},
                proc : Process, owner : Reference]
HandlerState == [pc : {"idle", "register", "find", "assert", "tell", "restore", "remove", "end"},
                 event : QueuedEvent \union {NoApp}, app : Reference]

TypeOK ==
    /\ proc \in [Process -> {"unborn", "launching", "ready", "gone"}]
    /\ interactive \subseteq Process
    /\ boot \in {"cache", "install", "list", "run"}
    /\ carbon \in Seq(Report)
    /\ creations \subseteq observed /\ observed \subseteq App
    /\ cache \subseteq Process
    /\ info \in [Process -> InfoState]
    /\ elapsed \in [Process -> 0..Timeout]
    /\ timer \in [Process -> {NoTimer, 0, 1}]
    /\ app \in [App -> {"none", "live", "freed"}]
    /\ applications \in [Process -> Reference]
    /\ main \in MainState
    /\ queue \in Seq(QueuedEvent)
    /\ ev \in HandlerState
    /\ told \in [Process -> {"nothing", "launched", "terminated"}]
    /\ activateDue \subseteq Process

InfoLive(p) == info[p] \notin {"none", "freed"}

(***************************************************************************)
(* An Info outlives all that points to it: its entry in the cache, the     *)
(* pending block of its launch, the events that carry it, and the handler  *)
(* of such an event.  In particular it is freed once.                      *)
(***************************************************************************)
InfoOutlivesUse ==
    \A p \in Process :
        \/ p \in cache
        \/ timer[p] # NoTimer
        \/ \E i \in DOMAIN queue : queue[i].type \in {"launched", "terminated"} /\ queue[i].proc = p
        \/ ev.pc # "idle" /\ ev.event.type \in {"launched", "terminated"} /\ ev.event.proc = p
        => InfoLive(p)

(***************************************************************************)
(* A macos_application outlives all that points to it, windows apart (see  *)
(* OwnerIsValid): its entry in Applications, the pending block of its      *)
(* launch, the block that is adding it, and the handler that has found it. *)
(***************************************************************************)
ApplicationOutlivesUse ==
    /\ \A p \in Process : /\ applications[p] # NoApp => app[applications[p]] = "live"
                          /\ timer[p] # NoTimer => app[Launched(p)] = "live"
    /\ main.app # NoApp => app[main.app] = "live"
    /\ ev.pc \in {"tell", "remove"} => app[ev.app] = "live"

(***************************************************************************)
(* ASSERT(Application) in Callback_ChunkWM_ApplicationLaunched: when the   *)
(* event is handled the application is in the map.                         *)
(***************************************************************************)
LaunchedFindsApplication == ev.pc # "assert"

(***************************************************************************)
(* Neither of the two records of a process is freed before its last use,   *)
(* and the launch handler finds what the block of the launch has added.    *)
(***************************************************************************)
RecordsOutliveUse ==
    TypeOK /\ InfoOutlivesUse /\ ApplicationOutlivesUse /\ LaunchedFindsApplication

(***************************************************************************)
(* Plugins hear of a launch and of a termination at most once, in this     *)
(* order, and of nothing after it; a termination without a launch is only  *)
(* told of what was running when chunkwm started.                          *)
(***************************************************************************)
PluginOrder ==
    ev.pc = "tell" =>
        LET p == ev.event.proc
        IN /\ told[p] # "terminated"
           /\ ev.event.type = "launched" => told[p] = "nothing"
           /\ ev.event.type = "terminated" => told[p] = "launched" \/ ev.app = Listed(p)

(***************************************************************************)
(* "application didn't respond within allowed timeframe": a process that   *)
(* stays in its launch is given up.                                        *)
(***************************************************************************)
LaunchTimesOut ==
    \A p \in Process :
        info[p] = "In_Progress" /\ proc[p] = "launching"
            ~> info[p] # "In_Progress" \/ proc[p] # "launching"

(***************************************************************************)
(* When the end of a process is reported, and it is in the cache or its    *)
(* launch is reported first, it leaves Applications and its Info is freed, *)
(* however far its launch has come.  (The Info of a background process     *)
(* that was launched is never freed.)                                      *)
(***************************************************************************)
Reported(kind, p) == \E i \in DOMAIN carbon : carbon[i] = <<kind, p>>

GoneIsRemoved ==
    \A p \in Process : Reported("terminated", p) /\ (p \in cache \/ Reported("launched", p))
        ~> applications[p] = NoApp /\ info[p] \in {"freed", "None"}

(***************************************************************************)
(* "We discard that notification and restore it": after a launch plugins   *)
(* hear of an activation, unless the process ends.                         *)
(***************************************************************************)
ActivationRestored == \A p \in Process : p \in activateDue ~> p \notin activateDue

(***************************************************************************)
(* "We incorrectly receive the applicationActivated first. We discard that *)
(* notification" (callback.cpp): plugins do not hear of the activation of  *)
(* an application they do not know yet.                                    *)
(***************************************************************************)
ActivationDiscarded ==
    ev.pc = "tell" /\ ev.event.type = "activated" /\ ev.app = Launched(ev.event.proc)
        => told[ev.event.proc] # "nothing"

(***************************************************************************)
(* "The caller is responsible for making sure that a valid observer is     *)
(* passed!" (observer.cpp): the owner of a created window still exists     *)
(* when its observer is used for the window.                               *)
(***************************************************************************)
OwnerIsValid == ev.pc = "register" => app[ev.app] = "live"

(***************************************************************************)
(* "We have to cache information about processes that have already been    *)
(* launched before us, such that we can [...] report when any of these     *)
(* applications are terminated" (carbon.cpp): a running application that    *)
(* InitState has listed is in the cache, or its launch event is to come.   *)
(***************************************************************************)
ListedIsCached ==
    \A p \in Process : applications[p] # NoApp /\ Alive(p)
        => p \in cache \/ Reported("launched", p)

(***************************************************************************)
(* "The caller is responsible for calling 'AXLibDestroyApplication()'"     *)
(* (application.cpp): somebody who can destroy it holds every application  *)
(* that is allocated: the map, a block, or the handler that removes it.    *)
(***************************************************************************)
ApplicationIsHeld ==
    \A p \in Process, a \in App :
        a[1] = p /\ app[a] = "live" =>
            applications[p] = a \/ timer[p] # NoTimer \/ main.app = a \/ ev.app = a
====
