# Verification of chunkwm

chunkwm is a tiling window manager for macOS.  A core program (`src/src/core`) receives
notifications about processes and windows from the system, keeps a model of both, and
calls plugins that have subscribed to events; the tiling plugin (`src/src/plugins/tiling`)
keeps a binary tree of windows for each desktop.  This directory holds TLA+ modules that
model the parts of it where order, threads and long sequences of operations decide
whether the code is right, TLC configurations that check them on small instances, and
proofs for every instance where they have been written.

Paths below are relative to the repository, e.g. `core/state.cpp` for `src/src/core/state.cpp`.

## 1. Inventory

### Threads

| thread | created in | runs |
|---|---|---|
| main | `chunkwm.mm` | start-up, then `CFRunLoopRun`: the Carbon handler, `NSWorkspace` notifications, accessibility notifications (`ApplicationCallback`), blocks given to `dispatch_after` |
| event | `StartEventLoop` | `ProcessEventQueue`: every `Callback_*` handler, one at a time |
| workers | `BeginCallbackThreads` | `WorkQueueThreadProc`: the entries of the work queue, i.e. the plugins |
| daemon | `StartDaemon` | one client at a time; commands become events |
| event tap, file watcher | tiling, hotloader | run on the main run loop |

Everybody adds events with `ConstructEvent`; only the event thread handles them.  A
handler looks something up, tells the subscribed plugins through the work queue
(`ProcessPluginListThreaded`), waits for all of them, and returns.

### Components

| component | state | operations | what makes it correct |
|---|---|---|---|
| event loop (`core/dispatch/event.cpp`) | `Running`, `Queue`, a mutex, a *named* semaphore | `AddEvent`, `StartEventLoop`, `StopEventLoop`, `ProcessEventQueue` | first in first out, one handler at a time, no lost wakeup, every event handled |
| work queue (`core/wqueue.cpp`) | a ring of 256 entries, two indices, two counters, a named semaphore | `AddWorkQueueEntry`, `DoNextWorkQueueEntry`, `CompleteWorkQueue`, workers | each subscriber runs once per event; nobody touches the handler's stack after it returned; no handler hangs |
| windows (`core/state.cpp`, `core/callback.cpp`) | map `Windows` under `WindowsLock`, structs with atomic flags, raw pointers in events and observers | construct, add, find, remove, flag, free; the handlers for windows | nothing freed is used, nothing leaks, plugins hear of a window in order |
| processes and applications (`core/dispatch/carbon.cpp`, `core/state.cpp`) | process cache, launch state and timer, map `Applications`, observers | cache, launch, retry, time-out, cancel, terminate; the handlers for applications | records outlive their users and are freed once; plugins hear of launch and end in order |
| window tree (`plugins/tiling/node.cpp`, `plugin.mm`, `controller.cpp`) | nodes with parent, children, zoom; a preselection; a layout | tile, untile, rebalance, swap, warp, zoom, preselect, rotate, mirror, deserialize | the tree stays a proper tree with each window once; no pointer into a freed node |
| layout files (`plugins/tiling/node.cpp`) | a buffer of tokens | serialize, deserialize | what is saved is read back |
| desktops (`plugins/tiling/plugin.mm`, `vspace.cpp`) | a map of virtual spaces with mode, tree, flags and a lock each; the plugin's own collection of windows | the handlers of `PluginMain`, sending a window to a desktop or monitor, changing a layout | when all events are handled, the tree in use holds exactly the windows to tile, in regions of the current resolution |
| rules (`plugins/tiling/rule.cpp`) | a list of rules | add, apply to a window or to all | a rule's state is not undone by a handler |
| mouse dragging (`plugins/tiling/mouse.cpp`, `common/dispatch/cgeventtap.cpp`) | `ResizeState`, `ResizeBorders`, the lock of a space, the tap | begin, tick, end | a lock taken in one callback is given back in a later one; what is remembered is still there |
| regions (`plugins/tiling/region.cpp`, `controller.cpp`) | region, split and ratio of each node, paddings and gap | create and resize regions, rotate, mirror, equalize, adjust | stored regions are those of the tree, and windows do not overlap |
| command lines (`plugins/tiling/config.cpp`) | a chain of parsed commands, the temporary ratio | parse, run, restore | a line runs as a whole or not at all |
| plugin manager (`core/plugin.cpp`) | loaded plugins, subscribers of each event, `dlopen` handles | load, hook, run, unhook, unload | no code of a closed library runs; no loaded plugin is deaf |
| daemon, configuration (`common/ipc/daemon.cpp`, `core/config.cpp`) | a socket, a connection, the script | accept, dispatch, delegate | commands find an initialised program; every client is released |
| hot loader (`core/hotloader.cpp`, `core/hotload.c`) | watched directory, enabled flag | begin, callback | a changed plugin is unloaded, then loaded |
| variables (`core/cvar.cpp`, `common/config/cvar.cpp`) | a map of strings under a lock | create, update, find, acquire | a default never replaces a setting; a value is not freed while somebody reads it |

The rest is drawing (`common/border`, `presel.mm`), wrappers of system calls
(`common/accessibility`), small plugins (border, ffm, purify), an installer (`core/sa*`,
mostly generated bytes), the command-line client and logging.  `PROJECT.json` lists all of
them with what is and is not modelled, and under `hazards` the places where the code is
hard to test.

### What is hard

* **Interleaving.**  `AddEvent` tests `Running` and posts outside the lock.  The work
  queue is lock-free, and its counters are reset while workers may be anywhere.  The map
  `Windows` is written by two threads, each in two critical sections.
* **Order.**  The system sends the focus of a new window before its creation and the
  activation of an application before its launch; the handlers discard and restore them.
  Raw pointers travel through the queue behind the event that frees what they name.
* **Time-outs and retries.**  A launch is polled by blocks until it finishes, fails, times
  out or is cancelled, while the process may end at any point.
* **A world that runs ahead.**  The tiling plugin asks the window server what is true now when
  it handles an event of before: windows have closed, desktops have been switched, displays
  resized in between.  What happens to a desktop that is not shown waits for its activation.
* **Locks across callbacks.**  A drag keeps the lock of a virtual space from one callback of the
  main run loop to a later one.
* **Start-up.**  The daemon listens before anything else is initialised, `main` waits for a
  script whose commands the daemon and the event thread must serve.
* **What a previous run has left.**  Both semaphores are named and never unlinked.
* **Long sequences.**  The window tree keeps pointers (zoom, preselection, layout) that
  later operations may free; splits, ratios, offsets and regions are kept in four places.

## 2. Plan

1. `EventChannel`, `EventLoop`, `EventLoopProofs`: the backbone, with its refinement and
   proofs. **Done.**
2. `WorkQueue`, `WorkQueueProofs`: the thread pool and its client. **Done**, with proofs.
3. `WindowLifecycle` and `ApplicationLifecycle`: everything that allocates, shares and frees
   between the main and the event thread. **Done**, with proofs (`WindowLifecycleProofs`,
   `ApplicationLifecycleProofs`).
4. `BspTree` and `LayoutFile`: the data structure of the tiling plugin. **Done**, with proofs for
   trees without a layout (`BspTreeProofs`).
5. `PluginManager`: start-up, daemon, variables, hot loader, loading and unloading, as one
   composition of all the threads. **Done**, with proofs (`PluginManagerProofs`).
6. `Desktops`: the handlers of the tiling plugin over several desktops and displays, with rules.
   **Done.**
7. `MouseDrag`, `MouseDragProofs`: drags against the handlers that take the same locks.
   **Done**, with proofs.
8. `CommandLine`, `CommandLineProofs`: how a line is parsed and run. **Done**, with proofs.
   `Regions`, `TilingCommands`: geometry and the commands of a line, which implement
   `CommandLine`. **Done.**
9. Left: sticky and native fullscreen windows and displays that come and go in `Desktops`; trees
   with a layout in `BspTreeProofs`, where leafs without a window hang below leafs with one; and
   proofs about `Desktops`.

The modules are written to be proved about: bounds and sets are constants with named
assumptions, and there is one action per operation or atomic step.  Only `Regions`, and
`TilingCommands` which extends it, have RECURSIVE operators; they are for TLC alone.  Where a
module with proofs follows the code through a loop or a queue it uses a recursive function.

## 3. Modules

`EventLoop` is the hub: `queue` and the handler position `ev` of `WindowLifecycle` and
`ApplicationLifecycle` are its channel seen from its clients, which is justified by the
refinement of `EventChannel` (first in first out, one handler at a time, nothing lost).
`ProcessPluginListThreaded` is one step (`TellPlugins`) in these two, justified by
`WorkQueue`: when it returns, each plugin has run once and no thread is still in one.
`PluginManager` uses both results: its `queue` is the channel, and a handler that runs plugins
ends when all have returned.  `Desktops`, `MouseDrag` and `TilingCommands` are inside one
plugin, whose `PluginMain` is called for one event at a time for the same reason.
`TilingCommands` extends `CommandLine` with a desktop for the commands to act on; its run shows that
its specification, `DesktopSpec`, implements that of `CommandLine`.

Definitions headed "Fault:" or "A fault:" (`TakeEvent_TestBeforePop`, `FaultConstrain`, ...) are
plausible mistakes in the definition that follows them.  No specification uses them; with one
of them in its place some property is violated (`PROJECT.json`, `mutants`), which shows
that the property depends on the code.

A listed run checks few properties, and several of these are conjunctions of named parts, with the
type invariant among them: `RingIsSound`, `StructsOutliveUse`, `RecordsOutliveUse`,
`PointersAreSound`, `ReaderIsSound`, `PluginsAreSound`, `TreesAreExact`, `DragIsSafe`,
`RegionsAreRight`.  Each part is stated with its own comment, and can be checked by its name.

### EventLoop, EventChannel (`core/dispatch/event.cpp`, `event.h`)

| code | model |
|---|---|
| `EventLoop.Queue`, `.Running`, `.Semaphore` | `queue`, `running`, `semaphore` |
| `AddEvent`: push under the lock; test `Running`; `sem_post` | `AddEventPush`, `AddEventTestRunning`, `AddEventPost` |
| `StartEventLoop`, `StopEventLoop` | `StartSetRunning`, `StartCreateThread`, `StopClearRunning`, `StopJoin` |
| `ProcessEventQueue` | `LoopTestRunning`, `CheckWork`, `TakeEvent`, `HandlerReturns`, `WaitSemaphore` |

A critical section is one action, and everything outside of one is an action of its
own.  `Init` gives the semaphore any value up to `MaxLeftover`, because `sem_open` with
`O_CREAT` keeps the value of a name that exists.  `EventChannel` is the abstract
specification, a queue and the event whose handler runs; the refinement mapping is the
identity on both.

### WorkQueue (`core/wqueue.cpp`, `ProcessPluginListThreaded` in `core/callback.cpp`)

Every access to a shared volatile field is an action; `seen` and `item` are a thread's local
copies.  `StartBatch(k)` is a handler with k subscribers, `WriteEntry`, `PublishEntry`,
`PostEntry` are `AddWorkQueueEntry`, `CompleteTest`, `CompleteReset` are
`CompleteWorkQueue`, and `ReadEntryToRead` to `CountCompleted` are `DoNextWorkQueueEntry`,
which workers and event thread share.  An entry is a pointer into the stack of the
handler; `runs` counts how often each was executed.

### WindowLifecycle (`core/state.cpp`, `core/callback.cpp`)

`heap`, `invalid` and `minimized` are the allocation and the two flags of each
`macos_window`; `windows` is the map; `registered` is the pointer an accessibility
observer holds; `notes` are notifications on their way to the main thread.  A window of the
user can be represented by up to three structs: the main thread makes one when it searches
the windows of a new application or receives a creation, the event thread when
`UpdateWindowCollection` scans.  `main` and `ev` say where in their function the two threads
are, with the pointer they hold.  `AXLibAddFlags` on the event thread is a load and a store
(`LoadFlags`, `StoreFlags`), because the macro is one; the flag the main thread sets is
atomic.  `CheckFlags` of a struct that was freed may read anything.

### ApplicationLifecycle (`core/dispatch/carbon.cpp`, `core/state.cpp`, `core/callback.cpp`)

`boot` follows `main` up to the run loop (cache the running processes, install the handler,
list the running applications).  Then `AppLaunched` and `AppTerminated` are the Carbon
handler; the block of `ConstructAndAddApplicationDispatch` has one action for each way
through it (`LaunchFails`, `LaunchUnknown`, `LaunchContinues`, `ObserveFails`,
`ObserveSucceeds` followed by `AddApplication` and `PostLaunched`, `LaunchCancelled`); and
`TakeEvent` to `EndCarbonApplicationDetails` are the handlers.  `info` is the launch state of
the record shared by the main thread, the block and the events, or "freed".

### BspTree (`plugins/tiling/plugin.mm`, `node.cpp`, `controller.cpp`)

`vs` is a virtual space: `tree`, the heap of nodes, the preselection.  A freed node is no
longer in the heap and its number can be allocated again.  Each operation holds the lock
of the virtual space and is one action; composite operations (`RebalanceWindowTree`,
`CreateWindowTree`) are folds over the windows, in the order the code uses.  `crash` records
that an assertion of the code failed or a freed node was split, after which the behaviour
ends.  Positions on the screen are left out: "the closest window" and "the nodes with this
split" are any.  `vs.layout`, chosen in `Init` from `Layouts`, is the file the tree is read from.

`BreadthFirst` is the `std::queue` of `GetFirstMinDepthLeafNode`, with the nodes that were taken
out left in front: after `i` visits it has the children of the first `i` nodes.  `InTurn` is a
loop over a list of windows.  `Fresh` is `malloc`: any nodes that are not allocated.

### LayoutFile (`plugins/tiling/node.cpp`)

`Serialize` gives the tokens of a tree in the order the code writes them; the actions read
one token each and keep the reader's single pointer `Current`.

### PluginManager (`core/plugin.cpp`, `core/config.cpp`, `core/cvar.cpp`, `core/chunkwm.mm`, ...)

| code | model |
|---|---|
| the calls in `main` up to `CFRunLoopRun` | `Order`, `boot`; `BeginPart`, `ExecConfigFile`, `HotloadPlugins` |
| `chunkc`, the configuration script | `UserSends`, `ScriptSends`; `backlog`, `waiting`, `script` |
| `HandleConnection`, `DaemonCallback` | `SetCVar`, `GetCVar` and `WriteValue`, `CorePluginDir`, `CoreHotload`, `CoreLoad`, `CoreUnload`, `Delegate` |
| `LoadPlugin` | `LoadPlugin`, `InitFindsCVar`, `InitCreatesCVar`, then `InitFails` or `StoreAndHookPlugin` |
| `UnloadPlugin` | `UnloadPlugin`, with `UnhookPlugin` |
| handlers that run plugins | `PluginCommand`, `PluginBroadcast`, `ProcessPluginListThreaded`, then `RunReads`, `RunUpdates`, `ChunkwmBroadcast`, `RunReturns`, `HandlerReturns` |
| `UpdateCVarAPI`, `AcquireCVarAPI` | operators on `cvar`; a pointer that was acquired is "value" until an update makes it "freed" |
| hot loader | `FileChanges`, `HotloadPluginCallback` |

A command is a connection of its own.  Three variables are told apart: the plugin directory, the
switch of the hot loader, and one variable of the plugins.  A critical section is one action;
`CreateCVar` is two of them.  `DaemonFaults` is a command that uses a variable before
`BeginCVars`, when the pointer to the functions is NULL.  The daemon listens on a socket file;
`PerformIOOperation` connects to a port, which nobody listens on, so what it would send is in the
model and never sent.

### Desktops (`plugins/tiling/plugin.mm`, `vspace.cpp`, `rule.cpp`, `controller.cpp`)

The window server, the applications and the user act at any time (`World`); events wait in
`queue`; `PluginMain` handles one at a time, and each handler is one step over `p`, what the plugin
knows, with the desktops as they are when it runs.  A tree is a set of windows.  A display that
changes its space does so in two steps (`SwitchBegins`, `SwitchEnds`), and the window server
may name the new space as current in either.  `p.stale`, `p.placed` and `p.vacant` only record what
happened.

The properties say what holds when all events are handled.  They do hold in ordinary use, and
fail in seven circumstances, each of which is a value of the constant `Circumstance`.  The listed
run has none of them; `Desktops.cfg` with one of them gives TLC's counterexample:

| circumstance | what may happen | violated |
|---|---|---|
| `behind` | a window opens or acts on a desktop that does not have the focus | `NothingElseIsTiled` |
| `unseen` | a window acts that the plugin has not heard of, since it was on a desktop that was not shown | `MinimizedIsKnown` |
| `dupe` | a window opens while a change of desktop is under way, and both add it | `NoDuplicate` |
| `late rule` | a rule that tiles or sends away is added when its window is there | `NothingElseIsTiled` |
| `float next` | the user asks that the next window floats | `NothingElseIsTiled` |
| `launch` | the desktop is switched while a launch is under way | `WindowsAreTiled` |
| `moved` | a window moves during the animation of a switch | `LockedWindowsInPlace` |

### MouseDrag (`plugins/tiling/mouse.cpp`, `vspace.cpp`, `common/dispatch/cgeventtap.cpp`)

`main` is the main thread inside the callback of the tap, `ev` the event thread inside a handler.
`WindowBegin`, `MainAcquires` and one of `BeginTiledWindow`, `BeginFloatingWindow`, `BeginNothing`
are the three parts of `MouseMoveWindowBegin` and `MouseResizeWindowBegin`; `TickOverNode` and
`WindowTick` are their ticks; `MouseMoveWindowEnd` and `MouseResizeWindowEnd` their ends.  `drag` is
`ResizeState`, `borders` is `ResizeBorders`.  A node is told apart by the generation of its tree,
which each change of the tree increases.  A window has one structure after another: pointers name
the structure (`StructOf`), the tree names the window.

The event thread frees a structure in two ways.  `WindowDestroyed`, `EventAcquires`, `EventReleases`,
`AXLibDestroyWindow` are `WindowDestroyedHandler`: the window leaves the collection, then, under the
lock of the space that is shown, the tree, and is freed only then.  `ApplicationUnhidden`,
`UnhiddenRemoves`, `UnhiddenFrees`, `UnhiddenAdds` are `ApplicationUnhiddenHandler`
(`plugins/tiling/plugin.mm:1098`), which replaces the structure of each window of the application
with no lock at all.  The window may be in the tree: if its application is hidden and shown
again quickly, the handler of the first event finds it visible and keeps it.  A drag that begins between
the two events then has its border's structure freed under it, without any switch of spaces
(`BordersAreLive`, `MouseDrag_unhidden.cfg`).  So `DragIsSafe` promises what the lock can
give: nodes stay, and a structure of a border is freed before the drag ends only if it was replaced
(`DestroyedIsKept`).  Every other handler (`TreeChanges`) tiles and untiles windows under the lock.

`DisableTap` is the window server, which gives up on a tap that waits for a
lock; what the user does then is not heard until `EnableTap`.  `MaySwitch` lets the user switch
spaces in the middle of a drag, after which handlers work on another space under another lock and
borders can refer to windows that were destroyed and freed (`DestroyedIsKept`, `MouseDrag_switch.cfg`).

### CommandLine (`plugins/tiling/config.cpp`)

A line is parsed option by option (`ParseOption`), until one is wrong and the chain is freed
(`Reject`).  A complete line is a rule (`AddRule`) or a chain that runs (`Run`): each command takes
itself off the chain, `TemporaryRatio` with an effect on `bsp_split_ratio` and `OtherCommand`
without one, up to `Finish`, which writes back what `Run` has saved.  `SetRatio` is the daemon.
`done` and `user` record what ran and what the user set.

### Regions, TilingCommands (`plugins/tiling/region.cpp`, `controller.cpp`)

`Regions` has pure functions of a tree whose nodes are records: `FullscreenRegion` to
`ResizeNodeRegion` are `region.cpp`, followed by the direction search and the commands on the whole
tree.  Distances are natural numbers and ratios are numbers out of 120, so a product is rounded
where the code has a `float`; the second child gets the rest.  `TilingCommands` has one
action per command (`FocusWindow` to `AdjustSpaceGap`), each the `NextCommand` of `CommandLine` together
with what it does to the tree of one desktop, its offset and its focus.  A query, a command of a
monitor and what other modules model (`Elsewhere`) changes nothing here.

## 4. Runs

Every run finishes in about two and a half minutes or less with two workers on a machine that is
not busy.

| run | instance | shows |
|---|---|---|
| `EventLoop` | 4 threads, 3 events, semaphore left at 0 or 1 | `TakeFindsEvent`, `NoLostWakeup`, refinement of `EventChannel`, `EveryEventHandled` |
| `WorkQueue` | 2 workers and the event thread, ring of 3, up to 2 subscribers per event, semaphore left at 0 or 3 | `RingIsSound`, `PoolAwake`, `BatchCompletes`, no deadlock, up to an overrun |
| `WindowLifecycle` | one window, 2 notifications and events under way, spaces are switched | `StructsOutliveUse`, `PluginOrder`, `DestroyedIsFreed`, `FocusRestored` |
| `WindowLifecycle_uaf` | the same with 3 under way | counterexample to `NoUseAfterFree`, see section 7 |
| `ApplicationLifecycle` | one process, time-out after 2 delays, 3 events | `RecordsOutliveUse`, `PluginOrder`, `LaunchTimesOut`, `GoneIsRemoved`, `ActivationRestored` |
| `BspTree` | 3 windows, without a layout and with one of 5 nodes | `ProperTree`, `EachWindowOnce`, `PointersAreSound`, `NoLeak` |
| `LayoutFile` | every proper tree up to depth 4 | `ReaderIsSound`, `ReadBack` |
| `PluginManager` | a script of 4 commands, 2 commands of other clients, 2 plugins, 1 event of a window or a plugin | `PluginsAreSound`, `HandlerFindsCore`, `DefaultKeepsSetting`, `ClientIsReleased`, `StartUpCompletes` |
| `Desktops` | 3 windows, 2 displays, 3 desktops, 3 rules; 4 things happen, 2 events wait | `TreesAreExact`, `RegionsAreCurrent`, `LockedWindowsInPlace` |
| `Desktops_empty` | the same | counterexample to `EmptyDesktopIsRebalanced`, see section 7 |
| `MouseDrag` | 2 tiled windows and a floating one of 2 applications, 2 spaces, 1 mouse event waits, 2 handlers | `DragIsSafe`, `MainNeverBlocksItself`, `HandlerProceeds`, no deadlock |
| `TilingCommands` | 3 trees of up to 3 windows, 3 lines of one or two options | `RegionsAreRight`, `RotationIsGeometric`, `EqualizedRowIsEven`, `LinesRunWhole` and `RatioIsRestored` of `CommandLine`, refinement of `CommandLine` (`ImplementsCommandLine`) |

### Bounds

* **EventLoop.**  Three events are enough for one to be handled, one queued and one being
  added by each kind of caller.  The four threads are the four roles of the code: main
  thread, event thread, and two others (daemon and worker).  One leftover post shows what a
  surplus does (the thread wakes up too early); the proofs cover any number.
* **WorkQueue.**  A ring of 3 wraps within two events and holds the two entries of the largest
  batch; two workers race each other and the event thread.  `MaxSemaphore` keeps posts
  finite.  `MaxCompleted` is only reached after an overrun.  `UntilOverrun` stops at states in
  which the ring was overrun; that this can happen is what `WorkQueue_assertion.cfg` shows, and
  everything after it is the consequence of that one step.
* **WindowLifecycle.**  All pointers, flags and map entries of a window belong to it alone: the
  windows of one application only share the two queues and the threads.  One window with two
  notifications or events under way reaches creation, two lookups and an end in every order,
  and all three structs; the use after free needs three.  `MaxPending` bounds what the user does
  (`Room`); the code's own events are never refused.
* **ApplicationLifecycle.**  Processes do not share state except queues and threads either.
  With a time-out of 2 delays a launch can finish, fail, be retried and time out.  `elapsed` is
  cut off at the time-out, beyond which only a comparison with it matters.
* **BspTree.**  Three windows make a tree of depth two, the smallest in which a parent-zoom, a
  fullscreen-zoom and a preselection lie on different levels and a sibling that takes the
  place of its parent has children.  `MaxNode` is the number of nodes they need (more with a
  layout, whose nodes can outnumber its windows).  Windows are interchangeable, hence symmetry;
  no liveness is checked with it.  The proofs cover any number of windows and nodes.
* **LayoutFile.**  Depth 4 has right subtrees that end below left ones at several levels.
* **PluginManager.**  Two plugins are what a broadcast and two entries of a work queue need; one is
  loaded by the script, the other by a user.  With two commands of other clients a load can
  meet an unload, a set, a get or a command for the same plugin at any point of start-up.
  `MaxRaised` bounds the events of windows, broadcasts and updates of plugins together.
* **Desktops.**  Two desktops on one display and one on another: a window can be sent to a desktop
  that is shown, one that is hidden, and another monitor.  Four things that happen are
  enough for a switch, its end being free, an act and a switch back; two events wait so that a
  handler runs in a world that is ahead of it.
* **MouseDrag.**  Two nodes are a swap; the applications have two windows and one, so that a
  handler that replaces structures is between two windows; two handlers are one that waits for
  the lock of the drag and one that has run before it.  One event waits at the tap: the callback
  takes them one by one, and what happens while it waits for a lock (a release, heard or not) is
  there with one.  The theorems are for any number.
* **TilingCommands.**  One window, a row of three and a main window with a stack have each kind of
  sibling; three lines let one command undo, repeat or build on another.  The sizes are chosen
  so that two divisions by 120 leave whole numbers in a square.  Lines have one or two options, a wrong
  one first or last; `CommandLine.cfg`, which is run by hand, has up to three, of every type of line, and
  the proofs any number.

`CHECK_DEADLOCK FALSE` stands where the system may really stop: no more events, an application
whose windows are all closed (a window id is used once), processes that have ended, a
file that has been read, commands that are used up, or an assertion of the code that has failed.

### Fairness

Safety needs none.  For liveness, threads that can take a step are scheduled: weak fairness
for each thread or each of its calls.  Handlers, callbacks and plugins are assumed to return.
`StartSetRunning` is fair because it is on the only path of `main` to the run loop.  What a
user, a process or the window server does is never fair.  In `ApplicationLifecycle` the
Carbon handler and the ways of a block that depend on the process alone are strongly fair,
since other callbacks of the same run loop disable them for a while and the run loop
serves its sources in turn; it is not assumed that an observer can ever be added or that a
process leaves its launch.  In
`PluginManager` main, the daemon and the event thread are weakly fair, and so is the script once it
was started; the other clients, the window server and plugins that broadcast are not.  In
`MouseDrag` both threads are fair, a lock that is free again and again is had by whoever waits, and the
user goes on using the mouse: some button is pressed again, and one that can again and again be let go
while the tap is enabled is let go then one time.  The last is what the code relies on, since the end of a drag that was not
heard leaves the lock with the main thread until another button is let go.  Two more properties say
what follows from fairness:

* `EveryEventHandled` excepts a call of `StopEventLoop`: it clears `Running` and joins a thread
  that may sleep in `sem_wait`, which nobody wakes.  chunkwm calls it nowhere.
* `FocusRestored` refers to the window server for a closed window, since `StoreFlags` on the
  event thread can wipe out a `Window_Invalid` set after `LoadFlags`.

## 5. What is proved

`EventLoopProofs` proves, for every set of threads and events and every value left in the
semaphore, from `EventLoopAssumption` alone (the main and the event thread are two different
threads, `None` is no event, the leftover is a natural number):

| theorem | states |
|---|---|
| `TypeCorrect` | `Spec => []TypeOK`; the semaphore is never negative |
| `InvCorrect` | `Spec => []LoopInv` |
| `TakeIsSafe` | `Spec => []TakeFindsEvent` |
| `WakeupIsSafe` | `Spec => []NoLostWakeup` |
| `LoopRefinesChannel` | `Spec => ImplementsChannel` |

The inductive invariant is
`LoopInv == TypeOK /\ Phases /\ HandlerHoldsEvent /\ WorkRemains /\ NoLostWakeup`.

* `TakeFindsEvent` is not inductive: the thread reaches "take" from a handler with
  `hasWork`, so `WorkRemains` carries a `HasWork` computed in an earlier critical section
  through the handler.  It holds because only the event thread pops.
* `NoLostWakeup` looks at the thread in "wait" and in a handler that will wait.  It is
  inductive only with `Phases`: when `Running` becomes true (`StartSetRunning`) or is
  found false by a thread in `AddEvent`, the event thread does not exist or is going to look
  at the queue before it waits.  This is why the unlocked test of `Running` does no harm.
* `HandlerHoldsEvent` is what the refinement needs: `Begin` of the channel wants no event in
  hand, `End` wants one.

The refinement is the step lemma `ChannelStep`: `AddEventPush` is `Put`, `TakeEvent` is
`Begin`, `HandlerReturns` is `End`, everything else stutters.

`LoopInv` is checked by TLC through its parts in the run `EventLoop` before it is proved.

`MouseDragProofs` proves, for any windows (tiled or floating), applications, spaces, and numbers of mouse
events and handlers, from `DragAssumption` alone:

| theorem | states |
|---|---|
| `NodesAreKept` | `Spec => []DragKeepsNodes` |
| `MainIsFree` | `Spec => []MainNeverBlocksItself` |
| `DragCorrect` | `Spec => []DragIsSafe`, if `~MaySwitch` |

The inductive invariant is
`DragInv == Types /\ EventPhases /\ FreedAreGone /\ MainPhases /\ BorderCount /\ (~MaySwitch => SpaceIsKept /\ BordersAreHeld)`.
TLC finds it to hold on the instance of the run, with and without `MaySwitch`.

* `MainPhases` says whose a lock of the main thread is: it belongs to the callback that begins a
  drag or to the drag of a tiled window.  `CanBegin` keeps the two apart, so the callback never
  waits for itself, and a handler can increase no generation under a drag.
* `DestroyedIsKept` is not inductive: a handler takes a window out of the collection, waits for
  the lock of its space, and frees its structure.  `BordersAreHeld` says how far it can get: the
  structure that a border points to is an earlier one of its window (it was replaced), or it is the
  current one, and then the window is in the collection, or with a handler that waits for the very
  lock the drag holds, or with the handler that replaces it (`WithHandler`).
* `FreedAreGone` says that what is freed is an earlier structure, or the last one of a window that
  left the collection: a drag begins with structures that are there.
* That the lock is the same needs `SpaceIsKept`: the handler goes to the space that is shown
  when it runs, the drag stays in the one where it began.  Here the proof uses `~MaySwitch`, and
  without it `MouseDrag_switch.cfg` shows a destroyed window freed.  The other two theorems do not need it.
* `BorderCount` carries the number of borders of a swap through its ticks.

`WorkQueueProofs` proves, for any finite set of workers, a ring of any size, any number of
subscribers below it and any value left in the semaphore, from `WorkQueueAssumption`:

| theorem | states |
|---|---|
| `RingIsAlwaysSound` | `Spec => []RingIsSound` |
| `PoolStaysAwake` | `Spec => []PoolAwake` |
| `TypeCorrect` | `Spec => []TypeOK` |

`RingInv == Control /\ (~overrun => Accounting /\ SlotsAreKept /\ ItemsAreShared)`.

* Everything is measured from `EntryToWrite`: `Distance(s, toWrite)` says how long ago slot `s` was
  written, `ItemAt(s)` which subscriber it got, `Claimed` how many entries were taken.  The cursors wrap, and
  these numbers do not.
* `EachRunsOnce` looks at the end of a batch only.  `Accounting` adds the threads between a claim and
  its count (`Holders`) to `EntriesCompleted`; the sum is what was claimed, so that counting to the end
  means that nobody holds an entry.  This is why the counters can be reset while workers are anywhere.
* `ItemsAreShared` says that each claimed item has run or is held by exactly one thread.  A thread that
  claimed a slot and has not yet read it relies on `SlotsAreKept`: the slot is not written again before
  the batch is complete, since a batch has fewer entries than the ring.
* A late compare-and-swap overruns the ring, and after that nothing is claimed.  `PoolInv` does not
  need this: some worker is awake with what it saw of the ring, or there is a post.

`WindowLifecycleProofs` proves, for any windows, with or without a change of space, and any number of
notifications and events under way, from `WindowAssumption` (`NoWindow` is no struct):

| theorem | states |
|---|---|
| `StructsStayInUse` | `Spec => []StructsOutliveUse` |
| `PluginsHearInOrder` | `Spec => []PluginOrder` |
| `InvariantHolds` | `Spec => []WindowInv` |

A handler frees the struct of its event and nothing says that another thread has no pointer to it.
`WindowInv` says why none has.

* `LastNote`, `MainEnds`, `LastEvent`: a window is found destroyed by the last notification about it.  The
  struct has by then left the map and the main thread, and every other event of it is ahead of the event
  of its end, except a focus event (`Unused`).  The exception is `NoUseAfterFree` (section 7).
* `CreatedOnce`, `UsesFollow`: the other struct that is freed is the one of a creation whose window is
  closed before it can be observed.  Nobody else refers to it, since a struct of a creation is registered, put into the map and announced by the handler of this event only, and every use of it
  follows (`Introduced`).
* `ToldLast`: when plugins were told of an end, the free is the next step for this struct.

`ApplicationLifecycleProofs` proves, for any processes, any time-out and any number of events, from
`ProcessAssumption` (`NoApp` is no application):

| theorem | states |
|---|---|
| `RecordsStayInUse` | `Spec => []RecordsOutliveUse` |
| `PluginsHearInOrder` | `Spec => []PluginOrder` |
| `InvariantHolds` | `Spec => []AppInv` |

`AppInv` follows a process through its launch and its end; `Sent`, `Queued` and `Handled` are the
processes that a Carbon event, the queue or the handler is about.

* `Launching`, `Adding`: while a block is pending, its application is known to the block alone; then the
  block puts an application into the map before it reports the launch.  Hence `LaunchIsFound`, which is the
  assertion of the launch handler.
* `EndIsLast`, `EventOrder`, `HandledFirst`: the end of a process is reported once.  By then it has left
  the cache, no block is pending, Carbon has nothing more to say of it and only its launch can be ahead in
  the queue; so the handler of the end is the last user of the record it frees.
* `MapIsLive`, `EvShape`: the map refers to allocated applications, and the handler of an end frees the one in the map.

`PluginManagerProofs` proves, for any files, script and commands of other clients, from
`PluginAssumption` (`None` is no file; the script and the clients send commands):

| theorem | states |
|---|---|
| `PluginsStaySound` | `Spec => []PluginsAreSound`, if `~SameLibrary` |
| `HandlesAreReturned` | `Spec => []HandlesAreCounted` |
| `HandlersFindCore` | `Spec => []HandlerFindsCore` |
| `DefaultsKeepSettings` | `Spec => DefaultKeepsSetting` |

* `TablesAgree` counts the handles: a library is open as often as it is listed, once more while it is
  being loaded.  Only the event thread changes the tables, but a load takes several steps, in which
  the daemon and the other clients act.
* `ListsAgree` needs `~SameLibrary`, since with two links to one library unloading one plugin unhooks
  the other (`PluginManager_links.cfg`).  The other three theorems hold either way.
* `ConnectionsAreOwned` gives each connection to the backlog, the daemon, the queue or the handler, to
  one of them only; `TypeOK`, which wants what waits to be open, follows from it.
* `SettingIsKnown` is what `DefaultKeepsSetting` needs: if the setting was made before the event of the
  load was added, the plugin finds the variable and does not create it.

`BspTreeProofs` proves, for any finite set of windows, any number of nodes and both values of
`SpawnLeft`, from `BspAssumption` (an inner node, a leaf without a window and a window are different
things):

| theorem | states |
|---|---|
| `SoundAlways` | `Spec /\ vs.layout = {} => []IInv` |
| `TreeIsProper` | `Spec /\ vs.layout = {} => []ProperTree` |
| `WindowsAreHeldOnce` | `Spec /\ vs.layout = {} => []EachWindowOnce` |
| `PointersStaySound` | `Spec /\ vs.layout = {} => []PointersAreSound` |
| `NodesDoNotLeak` | `Spec /\ vs.layout = {} => []NoLeak` |

`vs.layout = {}` is an initial state in which no layout is configured, the default of the plugin; it
is not an assumption about later states.  With a layout, leafs hang below leafs and the four
invariants stay with TLC.

`IInv` says of the heap itself what the four properties say of what the search from the root finds.

* `Shape`: the children and the parent of each node in the heap agree, and each node other than the root is
  a child of its parent.  Pointers that agree could still form a ring of nodes apart from the root.  The
  `rank` of `Shape`, a number that grows from parent to child and that no node of the code has, excludes
  this; each rewiring gives a new one (`SplitKeepsTree`, `MergeKeepsTree`).
* From `Shape` follows what the loops of the code compute.  `QueueOfTree` carries what is known of the queue
  from one visit to the next: no node is in it twice, and the parent of what is in it was visited before.
  `BreadthFirstMeetsAll` concludes that it has met the whole heap: of the nodes that it missed take one of
  least rank, whose parent was met and visited.  So `TreeNodes` is the heap, and `Leaves` are its leafs.
  This is `ProperTree`, and also `NoLeak`.
* `Unique`, and `Held(vs.heap) = tiled`: no window is in two leafs, and they hold the tiled windows.
  Every operation is described by what it does to `Held`.  For the loops over windows this is an induction
  over the list (`UntileAllIsSound`, `TileAllIsSound`, `AddAllIsSound`), which also counts the free nodes.
* `Zooms` is more than `PointersAreSound`: it names the nodes of the heap, and the zoom of the root together
  with that of a parent.  An untiling frees a node and its sibling; that the zoom of their parent is reset
  and that of another node cannot name them is what `MergeKeepsTree` needs.  The zoom of the root
  can name the sibling, which is the disagreement `NoDanglingZoom` of section 7.
* `Chosen`: a preselected node that was not freed is a leaf with a window, so it can be split.

`CommandLineProofs` proves, for any lines of any length and any number of them, from `LineAssumption` (a
line has a type and a sequence of options):

| theorem | states |
|---|---|
| `LinesAlwaysRunWhole` | `Spec => []LinesRunWhole` |
| `RatioIsAlwaysRestored` | `Spec => []RatioIsRestored`, if `~SetMeanwhile` |

* `LineInv`: while a line is parsed the chain and what is left are the line, and all of the chain was
  accepted; while it runs, what is done and the chain are the line, and all of it was accepted.  The lemma
  `MoveHead` is what both halves have in common.
* `RatioInv`: the ratio is what the user set it to, or a line of window commands runs and `saved` is.  If
  the daemon sets the ratio meanwhile, `saved` is out of date (section 7).

`WindowInv` and `AppInv` were checked by TLC before they were proved: the first with one window and four
notifications or events under way, the second with one process, time-out 2 and three events, both to the end;
with two windows or processes as far as five minutes went.  `RingInv` with `PoolInv` was checked on the
instance of the run `WorkQueue`, overruns included, and `PluginInv` on that of the run `PluginManager`, with and
without two links to one library.  `IInv` was checked on the
instance of the run `BspTree` without a layout, with ranks up to 2.

**Only model-checked:** all liveness properties and everything about ENABLED, which the
prover does not support; window trees with a layout; what a definition over data of any size
computes where it needs induction with an operator as parameter (the reader of
`LayoutFile`, the folds over sets in `Desktops`); the functions of `Regions` and the properties of
`TilingCommands`, its refinement of `CommandLine` included, since its module has RECURSIVE operators; and
the invariants of `Desktops`.  Of `MouseDrag` that is `HandlerProceeds` and the absence of deadlock.

## 6. What is not modelled

* Display handlers of the core (`Callback_ChunkWM_Display*`): each calls the plugins and nothing else.
* Of the map `Applications` a find, an insert and an erase are one step each.  The code takes no
  lock, and `UpdateWindowCollection` iterates over it on the event thread while the main
  thread may insert; what a reader then meets is undefined.
* In the tiling plugin: `WindowFocusedHandler` (it updates a preselection view and variables),
  sticky and native fullscreen windows, displays that are added or removed, the order of windows in
  monocle mode, and the commands that ask the system to switch, create, move or destroy a desktop.  A
  handler is one step of `Desktops`; its questions to the window server are not told apart.
* In `MouseDrag`, windows that the user floats or tiles one by one, and windows that appear; whether
  `ApplicationUnhiddenHandler` has to tile a window, or a rule to tile or untile it, is left open.  A window
  that the user made float loses its flag when its application is shown again: `FloatIsKept`, section 7.
* In `WindowLifecycle`, windows with id 0, which `AddWindowToCollection` refuses (`core/state.cpp:69`), and a
  window on the screen that cannot be observed.
* A write of a window's flags that is lost (`common/accessibility/window.h:61`): the flag `Window_Invalid` is
  set and read in one step each.
* In `PluginManager`, that a plugin is stored, hooked and listed in several statements
  (`core/plugin.cpp:242`): all uses of these lists are on the event thread, which is the one that executes them.
* The rules' regular expressions and what they set of a window's level, alpha and grid region.
* `Deinit` of the tiling plugin, which frees everything without taking a lock.
* Text: tokens, the buffers of a message, an argument list (16 entries) and a layout (fixed size),
  and the parsing of mouse bindings.
* Border, focus-follows-mouse and purify: a few scalars that follow the last event.  What decides
  there is which window the system calls focused when it is asked.
* Reuse of window ids and process ids.
* Drawing, wrappers of system calls, the scripting addition, logging, arguments and privileges.

## 7. Disagreements between code and comments

Two runs end in a counterexample, and `PROJECT.json` lists them as findings.

1. `NoUseAfterFree` (`core/callback.cpp:410`).  The focus event restored by `WindowCreated` can be
   queued behind the `WindowDestroyed` of the same window, which frees the struct.
2. `EmptyDesktopIsRebalanced` (`plugins/tiling/plugin.mm:961`).  "We need to rebalacne our window-tree
   even though there are no visible windows left on this desktop", but
   `SpaceAndDisplayChangedHandler` does so only `if (!Windows.empty())` (`plugin.mm:1347`).  The tree keeps
   a window that left while another desktop was shown, and still has it when windows return.

More statements of the code do not hold in the models.  TLC shows each of them with a configuration
that is run by hand and is not among the listed runs; where a name is followed by *, it is that of the
listed run, with the property in place of its own.

| configuration | property | statement |
|---|---|---|
| `WorkQueue_assertion.cfg` (`MCWorkQueue` without its bound: `WorkQueue`) | `QueueAssertion` | `ASSERT(NextEntryToWrite != Queue->EntryToRead)` (`core/wqueue.cpp:34`), but a thread delayed between the test of `EntryToWrite` and the compare-and-swap, while the ring turned exactly once, claims an entry of an empty ring; with 256 entries this takes a very long delay |
| `WindowLifecycle_dupe.cfg` | `NoDuplicate` | "Caller is responsible for making sure that the window is not a dupe" (`core/state.cpp:60`), but `AddApplicationWindowsToCollection` tests in one critical section and inserts in another (`core/state.cpp:100`) |
| `ApplicationLifecycle.cfg` * | `ActivationDiscarded` | "We discard that notification" (`core/callback.cpp:197`), but the application is in the map before its launch event is queued |
| `ApplicationLifecycle.cfg` * | `OwnerIsValid` | "valid observer is passed!" (`common/accessibility/observer.cpp:37`), but `Window->Owner` may have been freed by an earlier event (`core/state.cpp:71`) |
| `ApplicationLifecycle.cfg` * | `ListedIsCached` | "report when any of these applications are terminated" (`core/dispatch/carbon.cpp:73`), but a process that starts between the snapshot and the handler is in neither |
| `ApplicationLifecycle.cfg` * | `ApplicationIsHeld` | "The caller is responsible for calling 'AXLibDestroyApplication()'" (`common/accessibility/application.cpp:149`), but `AddApplication` drops a second struct for a process (`core/state.cpp:184`) |
| `BspTree_PreselectPlacesWindow.cfg` | `PreselectPlacesWindow` | "If the desktop has an active preselection, the window is placed here." (`plugins/tiling/plugin.mm:392`), but untiling a window or freeing the tree leaves a preselection of a node that is gone |
| `BspTree_NoDanglingZoom.cfg` | `NoDanglingZoom` | "We need to null the pointer to prevent a potential bug." (`plugins/tiling/plugin.mm:538`), but the zoomed node may be the sibling that is freed (`plugin.mm:581`) |
| `BspTree_WarpFindsWindow.cfg` | `WarpFindsWindow` | `ASSERT(WindowNode)` (`plugins/tiling/controller.cpp:680`), but the focused window may be floating |
| `BspTree_WarpKeepsWindow.cfg` | `WarpKeepsWindow` | `ASSERT(FocusedNode)` (`plugins/tiling/controller.cpp:707`), but tiling again is refused when the display has begun to change spaces |
| `LayoutFile.cfg` * | `AlwaysProper` | "the binary-tree is always proper" (`plugins/tiling/node.cpp:419`), but the reader goes up one node after a right leaf, however many subtrees end with it |
| `PluginManager_NoFault.cfg` | `NoFault` | the daemon listens (`core/chunkwm.mm:273`) before `BeginCVars`: a client that is quick enough ends the process |
| `PluginManager_NoReadOfFreed.cfg` | `NoReadOfFreed` | `AcquireCVarAPI` returns the value itself (`core/cvar.cpp:70`), which an update by another thread frees |
| `PluginManager_UserValueKept.cfg` | `UserValueKept` | a setting that falls between `CVarExists` and `UpdateCVar` of `CreateCVar` is replaced by the default (`common/config/cvar.cpp:72`) |
| `PluginManager_ChangedIsReloaded.cfg` | `ChangedIsReloaded` | the hot loader connects to a port (`core/hotloader.cpp:19`), but the daemon listens on a socket file |
| `PluginManager_links.cfg` | `PluginIsUsable` | two links to one file are two plugins of one library (`core/config.cpp:179`): unloading one unhooks the other |
| `Desktops.cfg` * | `OneTree` | a window that moved to another desktop stays in the tree of the one that is not shown |
| `Desktops.cfg` * | `FloatIsKept` | a floating window of an application that is hidden and shown again is tiled, since it is removed and added |
| `MouseDrag_floating.cfg` | `FloatingDragIsLive` | `ResizeState.Window` of a floating drag (`plugins/tiling/mouse.cpp:216`) is kept without a lock while the event thread frees windows |
| `MouseDrag_assert.cfg` | `TickFindsWindow` | `ASSERT(Window)` in `MouseMoveWindowTick`, but a window that is destroyed leaves the collection before the tree |
| `MouseDrag_unhidden.cfg` | `BordersAreLive` | `ResizeBorders[i].Window` (`plugins/tiling/mouse.cpp:158`) points to a structure that `ApplicationUnhiddenHandler` (`plugins/tiling/plugin.mm:1118`) replaces and frees without a lock, while its window is dragged |
| `MouseDrag_switch.cfg` | `DestroyedIsKept` | the user switches spaces during a drag: the handlers take the lock of the other space and free windows of the borders that were destroyed |
| `TilingCommands.cfg` * | `MirrorIsGeometric` | mirroring exchanges the children and keeps the ratio of the first (`plugins/tiling/controller.cpp:1292`), so a window changes its size |
| `TilingCommands.cfg` * | `EqualizedIsEven` | "equalize size of all windows on desktop" (`plugins/tiling/README.md:368`), but rows within columns get their share of the column only |
| `TilingCommands.cfg` * | `ShortFlagsAccepted` | the short flags `-s` and `-d` of `desktop` are not in `Short` (`plugins/tiling/config.cpp:316`) |
| `TilingCommands.cfg` *, with `SetMeanwhile = TRUE` | `RatioIsRestored` | a ratio that the daemon sets while a line runs is overwritten with the one of before (`plugins/tiling/config.cpp:763`) |

The seven circumstances of `Desktops` (section 3) are further ones.

## 8. Running

    tlc -config WorkQueue.cfg MCWorkQueue.tla
    tlapm EventLoopProofs.tla

The other modules with proofs are `WorkQueueProofs`, `WindowLifecycleProofs`,
`ApplicationLifecycleProofs`, `PluginManagerProofs`, `MouseDragProofs`, `BspTreeProofs` and
`CommandLineProofs`; those about windows, applications and window trees take some minutes each.

`PROJECT.json` names the module and the configuration of each listed run; a configuration that is run
by hand belongs to the module `MC...` of its name if there is one.
