---------------------------- MODULE PluginManager ----------------------------
(***************************************************************************)
(* core/plugin.cpp, core/config.cpp, core/cvar.cpp, core/hotload.c and     *)
(* hotloader.cpp, common/ipc/daemon.cpp, common/config/cvar.cpp and the    *)
(* start-up of core/chunkwm.mm: how the process comes up, takes commands   *)
(* from its clients, keeps its variables, and loads, hooks, runs and       *)
(* unloads plugins.                                                        *)
(*                                                                         *)
(* The main thread starts everything, runs the configuration script and    *)
(* waits for it.  The daemon thread serves one connection at a time.  The  *)
(* event thread handles what the others put into the queue (the channel    *)
(* EventLoop implements).  A plugin is run by the event thread itself or   *)
(* by the workers it waits for (WorkQueue): in both cases the event thread *)
(* does nothing else, so the workers are not told apart here, but the      *)
(* plugins of one event run side by side.                                  *)
(*                                                                         *)
(* Every command that is sent is a connection of its own.  One variable of *)
(* the plugins, "setting", stands for all of them.                         *)
(***************************************************************************)
EXTENDS Naturals, Sequences, FiniteSets

CONSTANTS File,        \* file names that end in .so
          Missing,     \* those that are not in the plugin directory
          SameLibrary, \* whether the files are links to one library
          None,        \* NULL
          Script,      \* the commands of the configuration script, in order
          UserCommand, \* the commands other clients may send at any time
          MaxUser,     \* bound on the commands of other clients
          MaxRaised    \* bound on events of windows and broadcasts of plugins

\* What DaemonCallback tells apart: the commands about the file of a plugin and the others.
Command == [op : {"load", "unload", "plugin"}, file : File]
           \cup [op : {"set", "get", "dir", "hotload"}, file : {None}]

ASSUME PluginAssumption ==
    /\ Missing \subseteq File /\ SameLibrary \in BOOLEAN
    /\ None \notin File \cup {"library"}
    /\ Script \in Seq(Command) /\ UserCommand \subseteq Command
    /\ MaxUser \in Nat /\ MaxRaised \in Nat

VARIABLES boot,     \* how many of the steps of Order main has taken
          backlog,  \* connections with their command, not yet accepted
          waiting,  \* connections whose socket the process has not closed
          script,   \* position in Script and whether the script waits for a reply
          sent,     \* commands sent by other clients so far
          daemon,   \* the daemon thread inside DaemonCallback
          queue,    \* the queue of the event loop
          ev,       \* the event thread inside a handler
          raised,   \* events of windows and broadcasts so far
          loaded,   \* LoadedPlugins: the library loaded for each file
          exports,  \* the plugins in ExportedPlugins (one list for all exports)
          handles,  \* dlopen's reference count of each library
          ready,    \* the plugins between Init and DeInit
          cvar,     \* the map CVars: who set the value each variable has
          hotload,  \* the hotloader: whether it is enabled, files that changed
          crashed   \* the process is dead

tables == <<loaded, exports, handles, ready>>
vars == <<boot, backlog, waiting, script, sent, daemon, queue, ev, raised, tables, cvar, hotload,
          crashed>>

\* Faults of the start-up order: the event loop starts after the script, or before InitState.
FaultStartLate == <<"daemon", "cvars", "plugins", "eventloop", "threads", "state", "config", "start",
                    "hotloader", "run">>
FaultStartEarly == <<"daemon", "cvars", "plugins", "eventloop", "threads", "start", "state", "config",
                     "hotloader", "run">>
Order == <<"daemon", "cvars", "plugins", "eventloop", "threads", "state", "start", "config",
           "hotloader", "run">>
Did(step) == \E i \in 1 .. boot : Order[i] = step
Reached(step) == boot < Len(Order) /\ Order[boot + 1] = step

Library == IF SameLibrary THEN {"library"} ELSE File
Resolve(f) == IF SameLibrary THEN "library" ELSE f

Var == {"plugin_dir", "plugin_hotload", "setting"}
Pointer == {"no", "null", "value", "freed"}
DaemonIdle == [pc |-> "accept", conn |-> 0, ptr |-> "no"]
EventIdle == [pc |-> "idle", file |-> None, conn |-> 0, owed |-> FALSE,
              todo |-> {}, ptr |-> [l \in Library |-> "no"]]

Event(type, f, conn) ==
    [type |-> type, file |-> f, conn |-> conn, owed |-> cvar["setting"] = "user"]

Init == /\ boot = 0 /\ backlog = <<>> /\ waiting = {}
        /\ script = [next |-> 1, conn |-> 0] /\ sent = 0
        /\ daemon = DaemonIdle /\ queue = <<>> /\ ev = EventIdle /\ raised = 0
        /\ loaded = [f \in File |-> None] /\ exports = {}
        /\ handles = [l \in Library |-> 0] /\ ready = {}
        /\ cvar = [v \in Var |-> "none"]
        /\ hotload = [enabled |-> FALSE, changed |-> {}] /\ crashed = FALSE

Put(e) == queue' = Append(queue, e)
CloseSocket(conn) == waiting' = waiting \ {conn}
Alive == ~crashed

----
(* Variables.  UpdateCVarAPI frees the value a name has and stores a copy   *)
(* of the new one, in one critical section; whoever still holds a pointer   *)
(* from AcquireCVarAPI to the old value points into freed memory.           *)
(* CreateCVar asks FindCVarAPI first, in a critical section of its own.     *)
FindCVarAPI(v) == cvar[v] # "none"
AcquireCVarAPI(v) == IF cvar[v] = "none" THEN "null" ELSE "value"
Freed(v, p) == IF v = "setting" /\ p = "value" THEN "freed" ELSE p

UpdateCVarAPI(v, by) == cvar' = [cvar EXCEPT ![v] = by]

DaemonIsFreed(v) == [daemon EXCEPT !.ptr = Freed(v, @)]
EventIsFreed(v) == [ev EXCEPT !.ptr = [l \in Library |-> Freed(v, @[l])]]

----
(* Clients.  chunkc connects to the socket, sends one command and waits     *)
(* until the socket is closed.  The script issues its commands in turn.     *)
Connect(conn, cmd) == /\ backlog' = Append(backlog, [conn |-> conn, cmd |-> cmd])
                      /\ waiting' = waiting \cup {conn}

UserSends(cmd) == /\ Did("daemon") /\ sent < MaxUser
                  /\ sent' = sent + 1
                  /\ Connect(Len(Script) + sent + 1, cmd)
                  /\ UNCHANGED <<boot, script, daemon, queue, ev, raised, tables, cvar, hotload, crashed>>

ScriptSends == /\ Reached("config") /\ script.conn \notin waiting /\ script.next <= Len(Script)
               /\ Connect(script.next, Script[script.next])
               /\ script' = [next |-> script.next + 1, conn |-> script.next]
               /\ UNCHANGED <<boot, sent, daemon, queue, ev, raised, tables, cvar, hotload, crashed>>

ScriptIsDone == script.next > Len(Script) /\ script.conn \notin waiting

----
(* main.  Each step initialises one part.  ExecConfigFile forks the script, *)
(* waits for it and then starts the hotloader, which watches the plugin     *)
(* directory if the variables say so.                                       *)
BeginPart == /\ boot < Len(Order) /\ ~Reached("config") /\ ~Reached("hotloader")
             /\ boot' = boot + 1
             /\ UNCHANGED <<backlog, waiting, script, sent, daemon, queue, ev, raised, tables, cvar,
                            hotload, crashed>>

ExecConfigFile == /\ Reached("config") /\ ScriptIsDone
                  /\ boot' = boot + 1
                  /\ UNCHANGED <<backlog, waiting, script, sent, daemon, queue, ev, raised, tables,
                                 cvar, hotload, crashed>>

\* hotloader_add_catalog and hotloader_begin refuse when the hotloader is enabled.
CanWatch == ~hotload.enabled /\ FindCVarAPI("plugin_dir")
HotloadPlugins ==
    /\ Reached("hotloader")
    /\ boot' = boot + 1
    /\ \E value \in 0 .. 1 :   \* of the variable, which the script may also have set to 0
           hotload' = [hotload EXCEPT !.enabled = CanWatch /\ FindCVarAPI("plugin_hotload") /\ value = 1]
    /\ UNCHANGED <<backlog, waiting, script, sent, daemon, queue, ev, raised, tables, cvar, crashed>>

\* The file of a plugin is built anew while the hotloader watches its directory.
FileChanges(f) ==
    /\ hotload.enabled /\ f \in DOMAIN loaded \ (hotload.changed \cup Missing)
    /\ hotload' = [hotload EXCEPT !.changed = @ \cup {f}]
    /\ UNCHANGED <<boot, backlog, waiting, script, sent, daemon, queue, ev, raised, tables, cvar,
                   crashed>>

\* The daemon listens on the socket file of the user and on no port.
Listening(address) == Did("daemon") /\ address = "socket file"
PerformIOOperation(f) ==
    IF Listening("port 3920")
    THEN /\ backlog' = backlog \o <<[conn |-> 0, cmd |-> [op |-> "unload", file |-> f]],
                                   [conn |-> 0, cmd |-> [op |-> "load", file |-> f]]>>
         /\ waiting' = waiting \cup {0}
    ELSE UNCHANGED <<backlog, waiting>>

\* On the main run loop: one FSEvents callback per file.
HotloadPluginCallback(f) ==
    /\ Did("run") /\ f \in hotload.changed
    /\ PerformIOOperation(f)
    /\ hotload' = [hotload EXCEPT !.changed = @ \ {f}]
    /\ UNCHANGED <<boot, script, sent, daemon, queue, ev, raised, tables, cvar, crashed>>

----
(* The daemon thread.  The command of a connection is read and handled:     *)
(* the variables and most of "core" at once, the rest as an event.  Before  *)
(* BeginCVars the pointer to the API is NULL and any use of a variable ends *)
(* the process.                                                             *)
UsesCVars(cmd) == cmd.op # "plugin"
Cmd == Head(backlog).cmd
Conn == Head(backlog).conn

\* accept and recv, when the command handled next is one of ops.
Accept(ops) == /\ Did("daemon") /\ daemon.pc = "accept" /\ backlog # <<>>
               /\ Cmd.op \in ops
               /\ UsesCVars(Cmd) => Did("cvars")
               /\ backlog' = Tail(backlog)
elsewhere == <<boot, script, sent, raised, tables, hotload, crashed>>

DaemonFaults == /\ Did("daemon") /\ daemon.pc = "accept" /\ backlog # <<>>
                /\ UsesCVars(Cmd) /\ ~Did("cvars")
                /\ crashed' = TRUE
                /\ UNCHANGED <<boot, backlog, waiting, script, sent, daemon, queue, ev, raised, tables,
                               cvar, hotload>>

SetCVar == /\ Accept({"set"})
           /\ UpdateCVarAPI("setting", "user") /\ ev' = EventIsFreed("setting")
           /\ CloseSocket(Conn)
           /\ UNCHANGED <<daemon, queue, elsewhere>>

\* The pointer is acquired; the value is sent in a later step.
GetCVar == /\ Accept({"get"})
           /\ daemon' = [pc |-> "get", conn |-> Conn, ptr |-> AcquireCVarAPI("setting")]
           /\ UNCHANGED <<waiting, queue, ev, cvar, elsewhere>>
WriteValue == /\ daemon.pc = "get"
              /\ daemon' = DaemonIdle /\ CloseSocket(daemon.conn)
              /\ UNCHANGED <<backlog, queue, ev, cvar, elsewhere>>

\* core::plugin_dir creates its variable, core::hotload updates it.
CorePluginDir == /\ Accept({"dir"})
                 /\ cvar' = [cvar EXCEPT !["plugin_dir"] = IF @ = "none" THEN "user" ELSE @]
                 /\ CloseSocket(Conn)
                 /\ UNCHANGED <<daemon, queue, ev, elsewhere>>
CoreHotload == /\ Accept({"hotload"})
               /\ UpdateCVarAPI("plugin_hotload", "user")
               /\ CloseSocket(Conn)
               /\ UNCHANGED <<daemon, queue, ev, elsewhere>>

\* A bare file name is a path only if the plugin directory is known.
PopulatePluginPath == FindCVarAPI("plugin_dir")

CoreLoad == /\ Accept({"load"})
            /\ IF PopulatePluginPath /\ Cmd.file \notin Missing
               THEN Put(Event("load", Cmd.file, 0))
               ELSE UNCHANGED queue
            /\ CloseSocket(Conn)
            /\ UNCHANGED <<daemon, ev, cvar, elsewhere>>

CoreUnload == /\ Accept({"unload"})
              /\ IF PopulatePluginPath THEN Put(Event("unload", Cmd.file, 0)) ELSE UNCHANGED queue
              /\ CloseSocket(Conn)
              /\ UNCHANGED <<daemon, ev, cvar, elsewhere>>

\* Any other target: the event owns the socket from here on.
Delegate == /\ Accept({"plugin"})
            /\ Put(Event("command", Cmd.file, Conn))
            /\ UNCHANGED <<waiting, daemon, ev, cvar, elsewhere>>

Daemon == DaemonFaults \/ SetCVar \/ GetCVar \/ WriteValue \/ CorePluginDir \/ CoreHotload \/ CoreLoad
          \/ CoreUnload \/ Delegate

----
(* The event thread.                                                        *)
notEvent == <<boot, backlog, script, sent, hotload, crashed>>
Take(type) == /\ Did("start") /\ ev.pc = "idle" /\ queue # <<>>
              /\ Head(queue).type = type
              /\ queue' = Tail(queue)
Top == Head(queue)
IsPluginLoaded(f) == loaded[f] # None

\* LoadPlugin up to the call of Init.  An already loaded file, and one that
\* dlopen, VerifyPluginFormat or VerifyPluginABI rejects, is left alone.
LoadPlugin == /\ Take("load")
              /\ \/ ev' = EventIdle /\ UNCHANGED handles
                 \/ /\ ~IsPluginLoaded(Top.file)
                    /\ handles' = [handles EXCEPT ![Resolve(Top.file)] = @ + 1]
                    /\ ev' = [EventIdle EXCEPT !.pc = "init", !.file = Top.file, !.owed = Top.owed]
              /\ UNCHANGED <<waiting, daemon, raised, loaded, exports, ready, cvar, notEvent>>

\* Fault: the plugin sets its default without looking for the variable.
FaultInitFindsCVar == /\ ev.pc = "init"
                      /\ ev' = [ev EXCEPT !.pc = "create"]
                      /\ UNCHANGED <<waiting, daemon, queue, raised, tables, cvar, notEvent>>
\* Plugin->Init creates the variable: CVarExists, then UpdateCVar.
InitFindsCVar == /\ ev.pc = "init"
                 /\ ev' = [ev EXCEPT !.pc = IF FindCVarAPI("setting") THEN "store" ELSE "create"]
                 /\ UNCHANGED <<waiting, daemon, queue, raised, tables, cvar, notEvent>>
InitCreatesCVar == /\ ev.pc = "create"
                   /\ UpdateCVarAPI("setting", "default")
                   /\ daemon' = DaemonIsFreed("setting")
                   /\ ev' = [ev EXCEPT !.pc = "store"]
                   /\ UNCHANGED <<waiting, queue, raised, tables, notEvent>>

\* Init fails, and the handle is closed; or the plugin is stored, subscribed
\* to its exports and run with chunkwm_events_subscribed.
InitFails == /\ ev.pc = "store"
             /\ handles' = [handles EXCEPT ![Resolve(ev.file)] = @ - 1]
             /\ ev' = EventIdle
             /\ UNCHANGED <<waiting, daemon, queue, raised, loaded, exports, ready, cvar, notEvent>>
StoreAndHookPlugin ==
    LET l == Resolve(ev.file)
    IN  /\ ev.pc = "store"
        /\ loaded' = [loaded EXCEPT ![ev.file] = l]
        /\ exports' = exports \cup {l}
        /\ ready' = ready \cup {l}
        /\ ev' = [EventIdle EXCEPT !.pc = "run", !.todo = {l}]
        /\ UNCHANGED <<waiting, daemon, queue, raised, handles, cvar, notEvent>>

\* Fault: the plugin stays in the lists of the exports.
FaultUnhookPlugin(l) == UNCHANGED exports
\* RemoveLoadedPlugin, UnhookPlugin, DeInit, dlclose.
UnhookPlugin(l) == exports' = exports \ {l}
UnloadPlugin ==
    LET l == Resolve(Top.file)
    IN  /\ Take("unload")
        /\ IF IsPluginLoaded(Top.file)
           THEN /\ loaded' = [loaded EXCEPT ![Top.file] = None]
                /\ UnhookPlugin(l)
                /\ ready' = ready \ {l}
                /\ handles' = [handles EXCEPT ![l] = @ - 1]
           ELSE UNCHANGED tables
        /\ UNCHANGED <<waiting, daemon, ev, raised, cvar, notEvent>>

\* Handlers that run plugins: one by its file, all but the sender, the hooked.
GetPluginFromFilename(f) == IF IsPluginLoaded(f) THEN {loaded[f]} ELSE {}
Others(sender) == {loaded[f] : f \in {g \in File : loaded[g] # None}} \ {sender}

PluginCommand ==
    /\ Take("command")
    /\ ev' = [EventIdle EXCEPT !.pc = "run", !.todo = GetPluginFromFilename(Top.file), !.conn = Top.conn]
    /\ UNCHANGED <<waiting, daemon, raised, tables, cvar, notEvent>>
PluginBroadcast ==
    /\ Take("broadcast")
    /\ ev' = [EventIdle EXCEPT !.pc = "run", !.todo = Others(Top.file)]
    /\ UNCHANGED <<waiting, daemon, raised, tables, cvar, notEvent>>
ProcessPluginListThreaded ==
    /\ Take("window")
    /\ ev' = [EventIdle EXCEPT !.pc = "run", !.todo = exports]
    /\ UNCHANGED <<waiting, daemon, raised, tables, cvar, notEvent>>

\* A plugin that runs may read a variable, in two steps, may update it, may
\* broadcast, and returns.
Running(l) == ev.pc = "run" /\ l \in ev.todo
RunReads(l) == /\ Running(l) /\ ev.ptr[l] = "no"
               /\ ev' = [ev EXCEPT !.ptr[l] = AcquireCVarAPI("setting")]
               /\ UNCHANGED <<waiting, daemon, queue, raised, tables, cvar, notEvent>>
RunUpdates(l) == /\ Running(l) /\ raised < MaxRaised /\ raised' = raised + 1
                 /\ UpdateCVarAPI("setting", "plugin")
                 /\ daemon' = DaemonIsFreed("setting") /\ ev' = EventIsFreed("setting")
                 /\ UNCHANGED <<waiting, queue, tables, notEvent>>
ChunkwmBroadcast(l) == /\ Running(l) /\ raised < MaxRaised /\ raised' = raised + 1
                       /\ Put(Event("broadcast", l, 0))
                       /\ UNCHANGED <<waiting, daemon, ev, tables, cvar, notEvent>>
RunReturns(l) == /\ Running(l)
                 /\ ev' = [ev EXCEPT !.todo = @ \ {l}, !.ptr[l] = "no"]
                 /\ UNCHANGED <<waiting, daemon, queue, raised, tables, cvar, notEvent>>

\* Fault: the socket of a command is left to the plugin.
FaultHandlerReturns == /\ ev.pc = "run" /\ ev.todo = {}
                       /\ ev' = EventIdle
                       /\ UNCHANGED <<waiting, daemon, queue, raised, tables, cvar, notEvent>>
\* CompleteWorkQueue has returned, or the one call has.
HandlerReturns == /\ ev.pc = "run" /\ ev.todo = {}
                  /\ ev' = EventIdle /\ CloseSocket(ev.conn)
                  /\ UNCHANGED <<daemon, queue, raised, tables, cvar, notEvent>>

EventThread == \/ LoadPlugin \/ InitFindsCVar \/ InitCreatesCVar \/ InitFails \/ StoreAndHookPlugin
               \/ UnloadPlugin \/ PluginCommand \/ PluginBroadcast \/ ProcessPluginListThreaded
               \/ HandlerReturns
               \/ \E l \in Library : RunReads(l) \/ RunUpdates(l) \/ ChunkwmBroadcast(l) \/ RunReturns(l)

\* An event of a window or an application, from the main thread.
WindowEvent == /\ Did("state") /\ raised < MaxRaised /\ raised' = raised + 1
               /\ Put(Event("window", None, 0))
               /\ UNCHANGED <<waiting, daemon, ev, tables, cvar, notEvent>>

Main == BeginPart \/ ExecConfigFile \/ HotloadPlugins
Next == /\ Alive
        /\ \/ Main \/ ScriptSends \/ Daemon \/ EventThread \/ WindowEvent
           \/ \E cmd \in UserCommand : UserSends(cmd)
           \/ \E f \in File : FileChanges(f) \/ HotloadPluginCallback(f)

Spec == Init /\ [][Next]_vars
\* Every thread runs on, and the script, once started, issues its commands.
FairSpec == /\ Spec
            /\ WF_vars(Alive /\ Main) /\ WF_vars(Alive /\ ScriptSends)
            /\ WF_vars(Alive /\ Daemon) /\ WF_vars(Alive /\ EventThread)
            /\ WF_vars(Alive /\ \E f \in File : HotloadPluginCallback(f))

----
(* Properties                                                               *)
TypeOK ==
    /\ boot \in 0 .. Len(Order) /\ crashed \in BOOLEAN
    /\ \A i \in DOMAIN backlog : backlog[i].conn \in waiting
    /\ daemon.pc \in {"accept", "get"} /\ daemon.ptr \in Pointer
    /\ ev.pc \in {"idle", "init", "create", "store", "run"}
    /\ ev.todo \subseteq Library /\ ev.ptr \in [Library -> Pointer]
    /\ loaded \in [File -> Library \cup {None}] /\ handles \in [Library -> Nat]
    /\ exports \subseteq Library /\ ready \subseteq Library
    /\ cvar \in [Var -> {"none", "default", "user", "plugin"}]

FilesOf(l) == {f \in File : loaded[f] = l}

\* A plugin that is listed, hooked to an export or being run is one whose
\* library is open and that is between its Init and its DeInit, and the
\* plugins that are listed are those that are hooked: across loads, failed
\* loads and unloads in any order nothing calls into a closed library, and
\* no loaded plugin is deaf.
PluginIsUsable ==
    /\ exports = {loaded[f] : f \in {g \in File : loaded[g] # None}}
    /\ \A l \in exports \cup ev.todo : l \in ready /\ handles[l] > 0

\* Every path through LoadPlugin and UnloadPlugin gives back the handle it
\* took: a library is open once for each file that is loaded or being loaded.
HandlesAreCounted ==
    \A l \in Library :
        LET loading == ev.pc \in {"init", "create", "store"} /\ Resolve(ev.file) = l
        IN  handles[l] = (IF loading THEN 1 ELSE 0) + Cardinality(FilesOf(l))

\* Both: the lists of plugins and of hooks, the open libraries and what runs
\* agree after every step of a load or an unload (LoadPlugin, UnloadPlugin).
PluginsAreSound == TypeOK /\ PluginIsUsable /\ HandlesAreCounted

\* A handler of the event loop runs only when the variables, the plugin
\* mutexes, the worker threads and the collections it uses are initialised,
\* however early the first client sends a command; what the daemon thread
\* handles itself can go wrong only before BeginCVars.
HandlerFindsCore ==
    /\ ev.pc # "idle" => \A part \in {"cvars", "plugins", "threads", "state"} : Did(part)
    /\ crashed => ~Did("cvars")

\* A setting the user made before the load of a plugin was asked for is not
\* replaced by the default the plugin creates when it is initialised, though
\* the load happens later and on another thread.
DefaultKeepsSetting ==
    [][ev.owed /\ cvar["setting"] = "user" => cvar'["setting"] # "default"]_vars

\* Every client is released: the socket of every command, known or not, for a
\* plugin that is loaded or not, is closed in the end, so chunkc returns.  The
\* commands are finitely many and each is sent once, so all have been released
\* again and again just when each is.
ClientIsReleased == []<>(waiting = {} \/ crashed)

\* Start-up ends: main waits for the script, which waits for its commands,
\* which wait for the event loop, and all the same the run loop is reached.
StartUpCompletes == <>(Did("run") \/ crashed)

\* What the code does not promise.  A value read from a variable stays
\* allocated until its reader is done with it.
NoReadOfFreed == daemon.ptr # "freed" /\ \A l \in Library : ev.ptr[l] # "freed"

\* No command, however early, ends the process.
NoFault == ~crashed

\* A setting is never replaced by a default, whenever the user made it.
UserValueKept == [][cvar["setting"] = "user" => cvar'["setting"] # "default"]_vars

\* With hot loading enabled, a plugin whose file changed is unloaded.
ChangedIsReloaded ==
    \A f \in File : f \in hotload.changed ~> (loaded[f] = None \/ crashed)
====
