------------------------ MODULE PluginManagerProofs ------------------------
(***************************************************************************)
(* Theorems about PluginManager for any files, any configuration script    *)
(* and any commands of other clients, however many.                        *)
(***************************************************************************)
EXTENDS PluginManager, Integers, FiniteSetTheorems, TLAPS

Listed(f) == loaded[f] # None
Loading == ev.pc \in {"init", "create", "store"}
Opened(l) == IF Loading /\ Resolve(ev.file) = l THEN 1 ELSE 0

Connection == [conn : Nat, cmd : Command]
Entry == [type : {"load", "unload", "command"}, file : File, conn : Nat, owed : BOOLEAN]
         \cup [type : {"window"}, file : {None}, conn : {0}, owed : BOOLEAN]
         \cup [type : {"broadcast"}, file : Library, conn : {0}, owed : BOOLEAN]

Handler ==
    {e \in [pc : {"idle", "init", "create", "store", "run"}, file : File \cup {None}, conn : Nat,
            owed : BOOLEAN, todo : SUBSET Library, ptr : [Library -> Pointer]] :
        e.pc \in {"init", "create", "store"} => e.file \in File}
Reader == [pc : {"accept", "get"}, conn : Nat, ptr : Pointer]
Setting == {"none", "default", "user", "plugin"}

Types ==
    /\ boot \in 0 .. Len(Order) /\ crashed \in BOOLEAN
    /\ backlog \in Seq(Connection)
    /\ waiting \in SUBSET Nat
    /\ script \in [next : Nat \ {0}, conn : Nat] /\ sent \in Nat
    /\ daemon \in Reader
    /\ queue \in Seq(Entry)
    /\ ev \in Handler
    /\ loaded \in [File -> Library \cup {None}] /\ handles \in [Library -> Int]
    /\ exports \in SUBSET Library /\ ready \in SUBSET Library
    /\ cvar \in [Var -> Setting]

Used == {c \in 1 .. Len(Script) + sent : c < script.next \/ c > Len(Script)}
ConnectionsAreOwned ==
    /\ script.next \in 1 .. Len(Script) + 1
    /\ \A i \in DOMAIN backlog :
          /\ backlog[i].conn \in Used \cap waiting
          /\ backlog[i].conn # daemon.conn /\ backlog[i].conn # ev.conn
          /\ \A j \in DOMAIN backlog : i # j => backlog[i].conn # backlog[j].conn
          /\ \A j \in DOMAIN queue : backlog[i].conn # queue[j].conn
    /\ daemon.conn \in Used \cup {0} /\ ev.conn \in Used \cup {0}
    /\ \A j \in DOMAIN queue : queue[j].conn \in Used \cup {0}

Started ==
    /\ ev.pc # "idle" => Did("start")
    /\ crashed => ~Did("cvars")

SettingIsKnown ==
    /\ \A i \in DOMAIN queue : queue[i].owed => FindCVarAPI("setting")
    /\ ev.owed => FindCVarAPI("setting")
    /\ ev.pc = "create" => ~ev.owed

TablesAgree ==
    /\ Loading => ~Listed(ev.file)
    /\ \A f \in File : Listed(f) => loaded[f] = Resolve(f)
    /\ ready = exports
    /\ \A l \in Library : IsFiniteSet(FilesOf(l))
    /\ \A l \in Library : handles[l] = Opened(l) + Cardinality(FilesOf(l))

ListsAgree ==
    /\ ev.pc # "run" => ev.todo = {}
    /\ ~SameLibrary => /\ ev.todo \subseteq exports
                       /\ \A f \in File : f \in exports <=> Listed(f)

----
(***************************************************************************)
(* Queues: what is left after the head, and what is there after an append.  *)
(***************************************************************************)
LEMMA TailFacts ==
  ASSUME NEW S, NEW s \in Seq(S), s # <<>>, NEW t, t = Tail(s)
  PROVE  /\ Head(s) \in S /\ 1 \in DOMAIN s /\ Head(s) = s[1]
         /\ t \in Seq(S)
         /\ \A i \in DOMAIN t : i + 1 \in DOMAIN s /\ i + 1 # 1 /\ t[i] = s[i + 1]
         /\ \A i, j \in DOMAIN t : i # j => i + 1 # j + 1
OBVIOUS

(***************************************************************************)
(* A queue with one more element.                                          *)
(***************************************************************************)
LEMMA AppendFacts ==
  ASSUME NEW S, NEW s \in Seq(S), NEW e \in S, NEW t, t = Append(s, e)
  PROVE  /\ t \in Seq(S)
         /\ \A i \in DOMAIN t : (i \in DOMAIN s /\ t[i] = s[i]) \/ (i \notin DOMAIN s /\ t[i] = e)
         /\ \A i, j \in DOMAIN t : i # j => i \in DOMAIN s \/ j \in DOMAIN s
<1>1. /\ t \in Seq(S) /\ Len(t) = Len(s) + 1 /\ t[Len(s) + 1] = e
      /\ \A i \in 1 .. Len(s) : t[i] = s[i]
      OBVIOUS
<1>2. DOMAIN s = 1 .. Len(s) /\ DOMAIN t = 1 .. Len(s) + 1 /\ Len(s) \in Nat
      BY <1>1
<1>3. QED
      BY <1>1, <1>2

(***************************************************************************)
(* The order of the start-up.                                              *)
(***************************************************************************)
LEMMA BootOrder ==
  ASSUME boot \in 0 .. Len(Order)
  PROVE  /\ Did("cvars") <=> boot >= 2
         /\ Did("plugins") <=> boot >= 3
         /\ Did("threads") <=> boot >= 5
         /\ Did("state") <=> boot >= 6
         /\ Did("start") <=> boot >= 7
<1>1. Len(Order) = 10
      BY DEF Order
<1>2. /\ Order[1] = "daemon" /\ Order[2] = "cvars" /\ Order[3] = "plugins"
      /\ Order[4] = "eventloop" /\ Order[5] = "threads" /\ Order[6] = "state"
      /\ Order[7] = "start" /\ Order[8] = "config" /\ Order[9] = "hotloader"
      /\ Order[10] = "run"
      BY DEF Order
<1>3. \A i \in 1 .. boot : i \in {1, 2, 3, 4, 5, 6, 7, 8, 9, 10}
      BY <1>1
<1>4. QED
      BY <1>1, <1>2, <1>3 DEF Did

(***************************************************************************)
(* Every file is a library, which is never the absent one.                 *)
(***************************************************************************)
LEMMA LibraryIsNoNull == None \notin Library /\ \A f \in File : Resolve(f) \in Library
BY PluginAssumption DEF PluginAssumption, Library, Resolve

----
(***************************************************************************)
(* The types of the state, of the two queues as well.                      *)
(***************************************************************************)
LEMMA IdleTypes == DaemonIdle \in Reader /\ EventIdle \in Handler
<1>1. DaemonIdle \in Reader
      BY DEF DaemonIdle, Reader, Pointer
<1>2. EventIdle \in Handler
      BY DEF EventIdle, Handler, Pointer
<1>3. QED
      BY <1>1, <1>2

(***************************************************************************)
(* The types hold when main starts.                                        *)
(***************************************************************************)
LEMMA TypesInit == Init => Types
<1> SUFFICES ASSUME Init PROVE Types
    OBVIOUS
<1>1. 0 \in 0 .. Len(Order)
      BY DEF Order
<1>2. backlog \in Seq(Connection) /\ queue \in Seq(Entry)
      BY DEF Init
<1>3. daemon \in Reader /\ ev \in Handler
      BY IdleTypes DEF Init
<1>4. /\ loaded \in [File -> Library \cup {None}] /\ handles \in [Library -> Int]
      /\ exports \in SUBSET Library /\ ready \in SUBSET Library
      BY DEF Init
<1>5. cvar \in [Var -> Setting] /\ script \in [next : Nat \ {0}, conn : Nat]
      BY DEF Init, Setting
<1>6. boot \in 0 .. Len(Order) /\ crashed \in BOOLEAN /\ waiting \in SUBSET Nat /\ sent \in Nat
      BY <1>1 DEF Init
<1>7. QED
      BY <1>2, <1>3, <1>4, <1>5, <1>6 DEF Types

(***************************************************************************)
(* Every event that the daemon, the window server or a plugin adds is one. *)
(***************************************************************************)
LEMMA NewEvents ==
  ASSUME Types
  PROVE  /\ \A f \in File, c \in Nat, type \in {"load", "unload", "command"} :
                Event(type, f, c) \in Entry
         /\ \A l \in Library : Event("broadcast", l, 0) \in Entry
         /\ Event("window", None, 0) \in Entry
<1>1. (cvar["setting"] = "user") \in BOOLEAN
      OBVIOUS
<1>2. QED
      BY <1>1 DEF Event, Entry

(***************************************************************************)
(* What Accept hands to the daemon thread, and Take to the event thread.    *)
(***************************************************************************)
LEMMA AcceptFacts ==
  ASSUME Types, NEW ops, Accept(ops)
  PROVE  /\ Cmd.op \in ops /\ Conn \in Nat
         /\ Cmd.op \in {"load", "unload", "plugin"} => Cmd.file \in File
         /\ backlog' \in Seq(Connection)
         /\ 1 \in DOMAIN backlog /\ Conn = backlog[1].conn
         /\ \A i \in DOMAIN backlog' :
                i + 1 \in DOMAIN backlog /\ i + 1 # 1 /\ backlog'[i] = backlog[i + 1]
         /\ \A i, j \in DOMAIN backlog' : i # j => i + 1 # j + 1
<1>1. /\ backlog \in Seq(Connection) /\ backlog # <<>>
      /\ backlog' = Tail(backlog) /\ Cmd.op \in ops
      BY DEF Types, Accept
<1>2. /\ Head(backlog) \in Connection
      /\ 1 \in DOMAIN backlog /\ Head(backlog) = backlog[1]
      /\ backlog' \in Seq(Connection)
      /\ \A i \in DOMAIN backlog' :
                i + 1 \in DOMAIN backlog /\ i + 1 # 1 /\ backlog'[i] = backlog[i + 1]
      /\ \A i, j \in DOMAIN backlog' : i # j => i + 1 # j + 1
      BY <1>1, TailFacts
<1>3. Cmd \in Command /\ Conn \in Nat
      BY <1>2 DEF Cmd, Conn, Connection
<1>4. Cmd.op \in {"load", "unload", "plugin"} => Cmd.file \in File
      BY <1>3 DEF Command
<1>5. QED
      BY <1>1, <1>2, <1>3, <1>4 DEF Conn

(***************************************************************************)
(* What the event thread takes out of the queue is an event.               *)
(***************************************************************************)
LEMMA TakeFacts ==
  ASSUME Types, NEW type, Take(type)
  PROVE  /\ Did("start") /\ ev.pc = "idle"
         /\ Top \in Entry /\ Top.type = type /\ queue' \in Seq(Entry)
         /\ Top.conn \in Nat /\ Top.owed \in BOOLEAN
         /\ type \in {"load", "unload", "command"} => Top.file \in File
         /\ 1 \in DOMAIN queue /\ Top = queue[1]
         /\ \A i \in DOMAIN queue' : i + 1 \in DOMAIN queue /\ queue'[i] = queue[i + 1]
<1>1. /\ queue \in Seq(Entry) /\ queue # <<>> /\ queue' = Tail(queue) /\ Head(queue).type = type
      /\ Did("start") /\ ev.pc = "idle"
      BY DEF Types, Take
<1>2. /\ Head(queue) \in Entry /\ 1 \in DOMAIN queue /\ Head(queue) = queue[1]
      /\ queue' \in Seq(Entry)
      /\ \A i \in DOMAIN queue' : i + 1 \in DOMAIN queue /\ queue'[i] = queue[i + 1]
      BY <1>1, TailFacts
<1>3. /\ Top.conn \in Nat /\ Top.owed \in BOOLEAN
      /\ type \in {"load", "unload", "command"} => Top.file \in File
      BY <1>1, <1>2 DEF Top, Entry
<1>4. QED
      BY <1>1, <1>2, <1>3 DEF Top

(***************************************************************************)
(* Every step keeps the types.                                             *)
(***************************************************************************)
LEMMA TypesStep ==
  ASSUME Types, Next
  PROVE  Types'
<1> USE DEF elsewhere, notEvent, tables, CloseSocket
<1>1. ASSUME BeginPart \/ ExecConfigFile \/ HotloadPlugins
      PROVE  Types'
  <2>1. boot' = boot + 1 /\ boot < Len(Order)
        BY <1>1 DEF BeginPart, ExecConfigFile, HotloadPlugins, Reached
  <2>2. Len(Order) \in Nat
        BY DEF Order
  <2>3. boot' \in 0 .. Len(Order)
        BY <2>1, <2>2 DEF Types
  <2>4. QED
        BY <1>1, <2>3 DEF Types, BeginPart, ExecConfigFile, HotloadPlugins
<1>2. ASSUME NEW c \in Nat, NEW cmd \in Command, Connect(c, cmd)
      PROVE  backlog' \in Seq(Connection) /\ waiting' \in SUBSET Nat
  <2>1. \E e \in Connection : backlog' = Append(backlog, e)
        BY <1>2 DEF Connect, Connection
  <2>2. backlog' \in Seq(Connection)
        BY <2>1, AppendFacts DEF Types
  <2>3. QED
        BY <1>2, <2>2 DEF Connect, Types
<1>3. ASSUME ScriptSends
      PROVE  Types'
  <2>1. script.next \in Nat /\ Script[script.next] \in Command
        BY <1>3, PluginAssumption DEF ScriptSends, Types, PluginAssumption
  <2>2. backlog' \in Seq(Connection) /\ waiting' \in SUBSET Nat
        BY <1>2, <1>3, <2>1 DEF ScriptSends
  <2>3. script' \in [next : Nat \ {0}, conn : Nat]
        BY <1>3, <2>1 DEF ScriptSends
  <2>4. QED
        BY <1>3, <2>2, <2>3 DEF ScriptSends, Types
<1>4. ASSUME NEW cmd \in UserCommand, UserSends(cmd)
      PROVE  Types'
  <2>1. cmd \in Command /\ Len(Script) + sent + 1 \in Nat
        BY PluginAssumption DEF Types, PluginAssumption
  <2>2. backlog' \in Seq(Connection) /\ waiting' \in SUBSET Nat
        BY <1>2, <1>4, <2>1 DEF UserSends
  <2>3. QED
        BY <1>4, <2>2 DEF UserSends, Types
<1>5. ASSUME NEW f \in File, FileChanges(f)
      PROVE  Types'
      BY <1>5 DEF FileChanges, Types
<1>6. ASSUME NEW f \in File, HotloadPluginCallback(f)
      PROVE  Types'
      BY <1>6 DEF HotloadPluginCallback, PerformIOOperation, Listening, Types
<1>7. ASSUME DaemonFaults
      PROVE  Types'
      BY <1>7 DEF DaemonFaults, Types
<1>8. ASSUME NEW v \in Var, NEW by \in Setting, UpdateCVarAPI(v, by)
      PROVE  cvar' \in [Var -> Setting]
      BY <1>8 DEF UpdateCVarAPI, Types
<1>9. DaemonIsFreed("setting") \in Reader /\ EventIsFreed("setting") \in Handler
  <2>1. DaemonIsFreed("setting") \in Reader
        BY DEF Types, Reader, DaemonIsFreed, Freed, Pointer
  <2>2. EventIsFreed("setting") \in Handler
        BY DEF Types, Handler, EventIsFreed, Freed, Pointer
  <2>3. QED
        BY <2>1, <2>2
<1>10. AcquireCVarAPI("setting") \in Pointer /\ "no" \in Pointer
       BY DEF AcquireCVarAPI, Pointer
<1>11. {"default", "user", "plugin"} \subseteq Setting
       BY DEF Setting
<1>12. ASSUME SetCVar
       PROVE  Types'
  <2>1. backlog' \in Seq(Connection)
        BY <1>12, AcceptFacts DEF SetCVar
  <2>2. cvar' \in [Var -> Setting]
        BY <1>8, <1>11, <1>12 DEF SetCVar, Var
  <2>3. QED
        BY <1>9, <1>12, <2>1, <2>2 DEF SetCVar, Types
<1>13. ASSUME GetCVar
       PROVE  Types'
  <2>1. backlog' \in Seq(Connection) /\ Conn \in Nat
        BY <1>13, AcceptFacts DEF GetCVar
  <2>2. daemon' \in Reader
        BY <1>10, <1>13, <2>1 DEF GetCVar, Reader
  <2>3. QED
        BY <1>13, <2>1, <2>2 DEF GetCVar, Types
<1>14. ASSUME WriteValue
       PROVE  Types'
       BY <1>14, IdleTypes DEF WriteValue, Types
<1>15. ASSUME CorePluginDir \/ CoreHotload
       PROVE  Types'
  <2>1. backlog' \in Seq(Connection)
        BY <1>15, AcceptFacts DEF CorePluginDir, CoreHotload
  <2>2. cvar' \in [Var -> Setting]
        BY <1>11, <1>15 DEF CorePluginDir, CoreHotload, UpdateCVarAPI, Var, Types
  <2>3. QED
        BY <1>15, <2>1, <2>2 DEF CorePluginDir, CoreHotload, Types
<1>16. ASSUME NEW e \in Entry, Put(e)
       PROVE  queue' \in Seq(Entry)
  <2>1. queue \in Seq(Entry)
        BY DEF Types
  <2>2. QED
        BY <1>16, <2>1, AppendFacts DEF Put
<1>17. ASSUME CoreLoad \/ CoreUnload
       PROVE  Types'
  <2>1. PICK ops \in {{"load"}, {"unload"}} : Accept(ops)
        BY <1>17 DEF CoreLoad, CoreUnload
  <2>2. backlog' \in Seq(Connection) /\ Cmd.file \in File
        BY <2>1, AcceptFacts
  <2>3. Event("load", Cmd.file, 0) \in Entry /\ Event("unload", Cmd.file, 0) \in Entry
        BY <2>2, NewEvents
  <2>4. queue' \in Seq(Entry)
        BY <1>16, <1>17, <2>3 DEF CoreLoad, CoreUnload, Types
  <2>5. QED
        BY <1>17, <2>2, <2>4 DEF CoreLoad, CoreUnload, Types
<1>18. ASSUME Delegate
       PROVE  Types'
  <2>1. Accept({"plugin"})
        BY <1>18 DEF Delegate
  <2>2. backlog' \in Seq(Connection) /\ Cmd.file \in File /\ Conn \in Nat
        BY <2>1, AcceptFacts
  <2>3. Event("command", Cmd.file, Conn) \in Entry
        BY <2>2, NewEvents
  <2>4. queue' \in Seq(Entry)
        BY <1>16, <1>18, <2>3 DEF Delegate
  <2>5. QED
        BY <1>18, <2>2, <2>4 DEF Delegate, Types
<1>19. ASSUME LoadPlugin
       PROVE  Types'
  <2>1. queue' \in Seq(Entry) /\ Top.file \in File /\ Top.owed \in BOOLEAN
        BY <1>19, TakeFacts DEF LoadPlugin
  <2>2. [EventIdle EXCEPT !.pc = "init", !.file = Top.file, !.owed = Top.owed] \in Handler
        BY <2>1, IdleTypes DEF Handler
  <2>3. ev' \in Handler
        BY <1>19, <2>2, IdleTypes DEF LoadPlugin
  <2>4. handles' \in [Library -> Int]
        BY <1>19 DEF LoadPlugin, Types
  <2>5. QED
        BY <1>19, <2>1, <2>3, <2>4 DEF LoadPlugin, Types
<1>20. ASSUME InitFindsCVar
       PROVE  Types'
  <2>1. ev' \in Handler
        BY <1>20 DEF InitFindsCVar, Types, Handler
  <2>2. QED
        BY <1>20, <2>1 DEF InitFindsCVar, Types
<1>21. ASSUME InitCreatesCVar
       PROVE  Types'
  <2>1. cvar' \in [Var -> Setting]
        BY <1>8, <1>11, <1>21 DEF InitCreatesCVar, Var
  <2>2. ev' \in Handler
        BY <1>21 DEF InitCreatesCVar, Types, Handler
  <2>3. QED
        BY <1>9, <1>21, <2>1, <2>2 DEF InitCreatesCVar, Types
<1>22. ASSUME InitFails
       PROVE  Types'
  <2>1. Resolve(ev.file) \in Library
        BY <1>22, LibraryIsNoNull DEF InitFails, Types, Handler
  <2>2. handles' \in [Library -> Int]
        BY <1>22, <2>1 DEF Types, InitFails
  <2>3. QED
        BY <1>22, <2>2, IdleTypes DEF Types, InitFails
<1>23. ASSUME StoreAndHookPlugin
       PROVE  Types'
  <2>1. ev.file \in File /\ Resolve(ev.file) \in Library
        BY <1>23, LibraryIsNoNull DEF StoreAndHookPlugin, Types, Handler
  <2>2. ev' \in Handler
        BY <1>23, <2>1, IdleTypes DEF StoreAndHookPlugin, Handler
  <2>3. /\ loaded' \in [File -> Library \cup {None}]
        /\ exports' \in SUBSET Library /\ ready' \in SUBSET Library
        BY <1>23, <2>1 DEF StoreAndHookPlugin, Types
  <2>4. QED
        BY <1>23, <2>2, <2>3 DEF StoreAndHookPlugin, Types
<1>24. ASSUME UnloadPlugin
       PROVE  Types'
  <2>1. queue' \in Seq(Entry)
        BY <1>24, TakeFacts DEF UnloadPlugin
  <2>2. loaded' \in [File -> Library \cup {None}]
        BY <1>24 DEF UnloadPlugin, Types
  <2>3. handles' \in [Library -> Int]
        BY <1>24 DEF UnloadPlugin, Types
  <2>4. exports' \in SUBSET Library /\ ready' \in SUBSET Library
        BY <1>24 DEF UnloadPlugin, UnhookPlugin, Types
  <2>5. QED
        BY <1>24, <2>1, <2>2, <2>3, <2>4 DEF UnloadPlugin, Types
<1>25. ASSUME PluginCommand
       PROVE  Types'
  <2>1. queue' \in Seq(Entry) /\ Top.file \in File /\ Top.conn \in Nat
        BY <1>25, TakeFacts DEF PluginCommand
  <2>2. GetPluginFromFilename(Top.file) \subseteq Library
        BY <2>1 DEF GetPluginFromFilename, IsPluginLoaded, Types
  <2>3. ev' \in Handler
        BY <1>25, <2>1, <2>2, IdleTypes DEF PluginCommand, Handler
  <2>4. QED
        BY <1>25, <2>1, <2>3 DEF PluginCommand, Types
<1>26. ASSUME PluginBroadcast \/ ProcessPluginListThreaded
       PROVE  Types'
  <2>1. queue' \in Seq(Entry)
        BY <1>26, TakeFacts DEF PluginBroadcast, ProcessPluginListThreaded
  <2>2. Others(Top.file) \subseteq Library /\ exports \subseteq Library
        BY DEF Others, Types
  <2>3. \A s \in SUBSET Library : [EventIdle EXCEPT !.pc = "run", !.todo = s] \in Handler
        BY IdleTypes DEF Handler
  <2>4. ev' \in Handler
        BY <1>26, <2>2, <2>3 DEF PluginBroadcast, ProcessPluginListThreaded
  <2>5. QED
        BY <1>26, <2>1, <2>4 DEF PluginBroadcast, ProcessPluginListThreaded, Types
<1>27. ASSUME NEW l \in Library, RunReads(l)
       PROVE  Types'
  <2>1. ev' \in Handler
        BY <1>10, <1>27 DEF RunReads, Types, Handler
  <2>2. QED
        BY <1>27, <2>1 DEF RunReads, Types
<1>28. ASSUME NEW l \in Library, RunReturns(l)
       PROVE  Types'
  <2>1. ev' \in Handler
        BY <1>10, <1>28 DEF RunReturns, Types, Handler
  <2>2. QED
        BY <1>28, <2>1 DEF RunReturns, Types
<1>29. ASSUME NEW l \in Library, RunUpdates(l)
       PROVE  Types'
  <2>1. cvar' \in [Var -> Setting]
        BY <1>8, <1>11, <1>29 DEF RunUpdates, Var
  <2>2. QED
        BY <1>9, <1>29, <2>1 DEF RunUpdates, Types
<1>30. ASSUME NEW l \in Library, ChunkwmBroadcast(l)
       PROVE  Types'
  <2>1. queue' \in Seq(Entry)
        BY <1>16, <1>30, NewEvents DEF ChunkwmBroadcast
  <2>2. QED
        BY <1>30, <2>1 DEF ChunkwmBroadcast, Types
<1>31. ASSUME HandlerReturns
       PROVE  Types'
       BY <1>31, IdleTypes DEF HandlerReturns, Types
<1>32. ASSUME WindowEvent
       PROVE  Types'
  <2>1. queue' \in Seq(Entry)
        BY <1>16, <1>32, NewEvents DEF WindowEvent
  <2>2. QED
        BY <1>32, <2>1 DEF WindowEvent, Types
<1>33. QED
       BY <1>1, <1>3, <1>4, <1>5, <1>6, <1>7, <1>12, <1>13, <1>14, <1>15, <1>17, <1>18, <1>19,
          <1>20, <1>21, <1>22, <1>23, <1>24, <1>25, <1>26, <1>27, <1>28, <1>29, <1>30, <1>31, <1>32
       DEF Next, Main, Daemon, EventThread

----
(***************************************************************************)
(* What the threads do to each other's state.  Nobody but the event thread *)
(* touches the tables, or anything of a handler but the value it has read. *)
(***************************************************************************)
OtherThreads == \/ Main \/ ScriptSends \/ Daemon \/ WindowEvent
                \/ \E cmd \in UserCommand : UserSends(cmd)
                \/ \E f \in File : FileChanges(f) \/ HotloadPluginCallback(f)

(***************************************************************************)
(* Only the event thread moves the handler and changes the tables of       *)
(* plugins.                                                                *)
(***************************************************************************)
LEMMA OthersKeepHandler ==
  ASSUME Types, OtherThreads
  PROVE  /\ UNCHANGED tables
         /\ ev'.pc = ev.pc /\ ev'.file = ev.file /\ ev'.conn = ev.conn
         /\ ev'.owed = ev.owed /\ ev'.todo = ev.todo
<1> USE DEF elsewhere, notEvent
<1>1. UNCHANGED tables /\ (ev' = ev \/ ev' = EventIsFreed("setting"))
  <2>1. CASE Main \/ ScriptSends \/ WindowEvent
        BY <2>1 DEF Main, BeginPart, ExecConfigFile, HotloadPlugins, ScriptSends, WindowEvent
  <2>2. CASE Daemon
        BY <2>2 DEF Daemon, DaemonFaults, SetCVar, GetCVar, WriteValue, CorePluginDir, CoreHotload,
           CoreLoad, CoreUnload, Delegate
  <2>3. CASE \E cmd \in UserCommand : UserSends(cmd)
        BY <2>3 DEF UserSends
  <2>4. CASE \E f \in File : FileChanges(f) \/ HotloadPluginCallback(f)
        BY <2>4 DEF FileChanges, HotloadPluginCallback
  <2>5. QED
        BY <2>1, <2>2, <2>3, <2>4 DEF OtherThreads
<1>2. LET e == EventIsFreed("setting")
      IN  e.pc = ev.pc /\ e.file = ev.file /\ e.conn = ev.conn /\ e.owed = ev.owed
          /\ e.todo = ev.todo
      BY DEF EventIsFreed, Types, Handler
<1>3. QED
      BY <1>1, <1>2

(***************************************************************************)
(* The event thread takes no part in the start-up.                         *)
(***************************************************************************)
LEMMA EventThreadKeepsBoot ==
  ASSUME EventThread
  PROVE  UNCHANGED <<boot, backlog, script, sent, crashed>>
BY DEF EventThread, LoadPlugin, InitFindsCVar, InitCreatesCVar, InitFails, StoreAndHookPlugin,
   UnloadPlugin, PluginCommand, PluginBroadcast, ProcessPluginListThreaded, HandlerReturns,
   RunReads, RunUpdates, ChunkwmBroadcast, RunReturns, notEvent

(***************************************************************************)
(* Start-up only goes on, and a process that is dead takes no step.        *)
(***************************************************************************)
LEMMA BootGoesOn ==
  ASSUME Types, Next
  PROVE  /\ \A step : Did(step) => Did(step)'
         /\ ~crashed
         /\ crashed' => boot' = boot /\ ~Did("cvars")
<1>1. boot' = boot \/ boot' = boot + 1
  <2>1. CASE EventThread
        BY <2>1, EventThreadKeepsBoot
  <2>2. CASE OtherThreads
        BY <2>2 DEF OtherThreads, Main, BeginPart, ExecConfigFile, HotloadPlugins, ScriptSends,
           WindowEvent, Daemon, DaemonFaults, SetCVar, GetCVar, WriteValue, CorePluginDir,
           CoreHotload, CoreLoad, CoreUnload, Delegate, UserSends, FileChanges,
           HotloadPluginCallback, elsewhere, notEvent
  <2>3. QED
        BY <2>1, <2>2 DEF Next, OtherThreads
<1>2. ~crashed
      BY DEF Next, Alive
<1>3. crashed' => boot' = boot /\ ~Did("cvars")
  <2>1. CASE EventThread
        BY <1>2, <2>1, EventThreadKeepsBoot
  <2>2. CASE DaemonFaults
        BY <2>2 DEF DaemonFaults
  <2>3. CASE OtherThreads /\ ~DaemonFaults
    <3>1. crashed' = crashed
          BY <2>3 DEF OtherThreads, Main, BeginPart, ExecConfigFile, HotloadPlugins, ScriptSends,
             WindowEvent, Daemon, SetCVar, GetCVar, WriteValue, CorePluginDir, CoreHotload,
             CoreLoad, CoreUnload, Delegate, UserSends, FileChanges, HotloadPluginCallback,
             elsewhere, notEvent
    <3>2. QED
          BY <1>2, <3>1
  <2>4. QED
        BY <2>1, <2>2, <2>3 DEF Next, OtherThreads
<1>4. ASSUME NEW step, Did(step)
      PROVE  Did(step)'
      BY <1>1, <1>4 DEF Did, Types
<1>5. QED
      BY <1>2, <1>3, <1>4

(***************************************************************************)
(* An entry of the queue was there before, or its event is made now.       *)
(***************************************************************************)
LEMMA QueueSteps ==
  ASSUME Types, Next, NEW i \in DOMAIN queue'
  PROVE  \/ \E j \in DOMAIN queue : queue'[i] = queue[j]
         \/ /\ queue'[i].owed <=> cvar["setting"] = "user"
            /\ queue'[i].conn = 0 \/ (Delegate /\ queue'[i].conn = Conn)
<1> USE DEF elsewhere, notEvent
<1>1. ASSUME NEW type, NEW f, NEW c, Event(type, f, c) \in Entry, Put(Event(type, f, c))
      PROVE  \/ \E j \in DOMAIN queue : queue'[i] = queue[j]
             \/ (queue'[i].owed <=> cvar["setting"] = "user") /\ queue'[i].conn = c
  <2>1. queue \in Seq(Entry) /\ queue' = Append(queue, Event(type, f, c))
        BY <1>1 DEF Put, Types
  <2>2. (i \in DOMAIN queue /\ queue'[i] = queue[i]) \/ queue'[i] = Event(type, f, c)
        BY <1>1, <2>1, AppendFacts
  <2>3. Event(type, f, c).conn = c
        BY DEF Event
  <2>4. Event(type, f, c).owed <=> cvar["setting"] = "user"
        BY DEF Event
  <2>5. QED
        BY <2>2, <2>3, <2>4
<1>2. CASE UNCHANGED queue
      BY <1>2
<1>3. CASE LoadPlugin \/ UnloadPlugin \/ PluginCommand \/ PluginBroadcast
           \/ ProcessPluginListThreaded
  <2>1. PICK type : Take(type)
        BY <1>3 DEF LoadPlugin, UnloadPlugin, PluginCommand, PluginBroadcast,
           ProcessPluginListThreaded
  <2>2. QED
        BY <2>1, TakeFacts
<1>4. CASE CoreLoad \/ CoreUnload
  <2>1. PICK ops \in {{"load"}, {"unload"}} : Accept(ops)
        BY <1>4 DEF CoreLoad, CoreUnload
  <2>2. Cmd.file \in File
        BY <2>1, AcceptFacts
  <2>3. Event("load", Cmd.file, 0) \in Entry /\ Event("unload", Cmd.file, 0) \in Entry
        BY <2>2, NewEvents
  <2>4. \/ Put(Event("load", Cmd.file, 0)) \/ Put(Event("unload", Cmd.file, 0)) \/ queue' = queue
        BY <1>4 DEF CoreLoad, CoreUnload
  <2>5. QED
        BY <1>1, <2>3, <2>4
<1>5. CASE Delegate
  <2>1. Accept({"plugin"}) /\ Put(Event("command", Cmd.file, Conn))
        BY <1>5 DEF Delegate
  <2>2. Event("command", Cmd.file, Conn) \in Entry
        BY <2>1, AcceptFacts, NewEvents
  <2>3. QED
        BY <1>1, <1>5, <2>1, <2>2
<1>6. CASE \E l \in Library : ChunkwmBroadcast(l)
  <2>1. PICK l \in Library : Put(Event("broadcast", l, 0))
        BY <1>6 DEF ChunkwmBroadcast
  <2>2. QED
        BY <1>1, <2>1, NewEvents
<1>7. CASE WindowEvent
  <2>1. Put(Event("window", None, 0))
        BY <1>7 DEF WindowEvent
  <2>2. QED
        BY <1>1, <2>1, NewEvents
<1>8. QED
  <2>1. CASE Main \/ ScriptSends \/ (\E cmd \in UserCommand : UserSends(cmd))
             \/ \E f \in File : FileChanges(f) \/ HotloadPluginCallback(f)
        BY <1>2, <2>1 DEF Main, BeginPart, ExecConfigFile, HotloadPlugins, ScriptSends, UserSends,
           FileChanges, HotloadPluginCallback
  <2>2. CASE Daemon
        BY <1>2, <1>4, <1>5, <2>2 DEF Daemon, DaemonFaults, SetCVar, GetCVar, WriteValue,
           CorePluginDir, CoreHotload
  <2>3. CASE EventThread
        BY <1>2, <1>3, <1>6, <2>3 DEF EventThread, InitFindsCVar, InitCreatesCVar, InitFails,
           StoreAndHookPlugin, HandlerReturns, RunReads, RunUpdates, RunReturns
  <2>4. QED
        BY <1>7, <2>1, <2>2, <2>3 DEF Next

(***************************************************************************)
(* Who changes the setting, and to what.                                   *)
(***************************************************************************)
LEMMA CVarSteps ==
  ASSUME Types, Next
  PROVE  \/ cvar'["setting"] = cvar["setting"]
         \/ cvar'["setting"] \in {"user", "plugin"}
         \/ InitCreatesCVar /\ cvar'["setting"] = "default"
<1> USE DEF elsewhere, notEvent
<1>1. \A v \in Var : \A by : UpdateCVarAPI(v, by) =>
          cvar'["setting"] = (IF v = "setting" THEN by ELSE cvar["setting"])
      BY DEF UpdateCVarAPI, Types, Var
<1>2. CASE SetCVar \/ InitCreatesCVar \/ \E l \in Library : RunUpdates(l)
  <2>1. \/ UpdateCVarAPI("setting", "user") \/ UpdateCVarAPI("setting", "plugin")
        \/ InitCreatesCVar /\ UpdateCVarAPI("setting", "default")
        BY <1>2 DEF SetCVar, InitCreatesCVar, RunUpdates
  <2>2. QED
        BY <1>1, <2>1 DEF Var
<1>3. CASE CorePluginDir \/ CoreHotload
      BY <1>3 DEF CorePluginDir, CoreHotload, UpdateCVarAPI, Types, Var
<1>4. CASE UNCHANGED cvar
      BY <1>4
<1>5. QED
  <2>1. CASE Main \/ ScriptSends \/ WindowEvent \/ (\E cmd \in UserCommand : UserSends(cmd))
             \/ \E f \in File : FileChanges(f) \/ HotloadPluginCallback(f)
        BY <1>4, <2>1 DEF Main, BeginPart, ExecConfigFile, HotloadPlugins, ScriptSends, UserSends,
           FileChanges, HotloadPluginCallback, WindowEvent
  <2>2. CASE Daemon
        BY <1>2, <1>3, <1>4, <2>2 DEF Daemon, DaemonFaults, GetCVar, WriteValue, CoreLoad,
           CoreUnload, Delegate
  <2>3. CASE EventThread
        BY <1>2, <1>4, <2>3 DEF EventThread, LoadPlugin, InitFindsCVar, InitFails,
           StoreAndHookPlugin, UnloadPlugin, PluginCommand, PluginBroadcast,
           ProcessPluginListThreaded, HandlerReturns, RunReads, ChunkwmBroadcast, RunReturns
  <2>4. QED
        BY <2>1, <2>2, <2>3 DEF Next

----
(***************************************************************************)
(* Handlers run when the parts of the core are there.                      *)
(***************************************************************************)
LEMMA StartedStep ==
  ASSUME Types, Started, Next
  PROVE  Started'
<1>1. ev'.pc # "idle" => ev.pc # "idle" \/ Did("start")
  <2>1. CASE OtherThreads
        BY <2>1, OthersKeepHandler
  <2>2. CASE LoadPlugin \/ UnloadPlugin \/ PluginCommand \/ PluginBroadcast
             \/ ProcessPluginListThreaded
    <3>1. PICK type : Take(type)
          BY <2>2 DEF LoadPlugin, UnloadPlugin, PluginCommand, PluginBroadcast,
             ProcessPluginListThreaded
    <3>2. QED
          BY <3>1, TakeFacts
  <2>3. CASE EventThread
        BY <2>2, <2>3 DEF EventThread, InitFindsCVar, InitCreatesCVar, InitFails,
           StoreAndHookPlugin, HandlerReturns, RunReads, RunUpdates, ChunkwmBroadcast, RunReturns,
           Running
  <2>4. QED
        BY <2>1, <2>3 DEF Next, OtherThreads
<1>2. ev'.pc # "idle" => Did("start")'
      BY <1>1, BootGoesOn DEF Started
<1>3. crashed' => ~Did("cvars")'
      BY BootGoesOn DEF Did
<1>4. QED
      BY <1>2, <1>3 DEF Started

(***************************************************************************)
(* An event that was made when the user had made the setting finds it.     *)
(***************************************************************************)
LEMMA SettingStep ==
  ASSUME Types, SettingIsKnown, Next
  PROVE  SettingIsKnown'
<1>1. FindCVarAPI("setting") => FindCVarAPI("setting")'
      BY CVarSteps DEF FindCVarAPI
<1>2. ASSUME NEW i \in DOMAIN queue', queue'[i].owed
      PROVE  FindCVarAPI("setting")'
  <2>1. CASE \E j \in DOMAIN queue : queue'[i] = queue[j]
        BY <1>1, <1>2, <2>1 DEF SettingIsKnown
  <2>2. CASE queue'[i].owed <=> cvar["setting"] = "user"
        BY <1>1, <1>2, <2>2 DEF FindCVarAPI
  <2>3. QED
        BY <2>1, <2>2, QueueSteps
<1>3. /\ ev'.owed => ev.owed \/ \E j \in DOMAIN queue : queue[j].owed
      /\ ev'.pc = "create" => /\ ev'.owed = ev.owed
                              /\ ev.pc = "create" \/ ~FindCVarAPI("setting")
  <2>1. CASE OtherThreads
        BY <2>1, OthersKeepHandler
  <2>2. EventIdle.owed = FALSE /\ EventIdle.pc = "idle"
        BY DEF EventIdle
  <2>3. CASE LoadPlugin
    <3>1. 1 \in DOMAIN queue /\ Top = queue[1]
          BY <2>3, TakeFacts DEF LoadPlugin
    <3>2. ev'.pc \in {"idle", "init"} /\ (ev'.owed => Top.owed)
          BY <2>2, <2>3 DEF LoadPlugin, EventIdle
    <3>3. QED
          BY <3>1, <3>2
  <2>4. CASE PluginCommand \/ PluginBroadcast \/ ProcessPluginListThreaded \/ HandlerReturns
             \/ InitFails \/ StoreAndHookPlugin
    <3>1. ~ev'.owed /\ ev'.pc # "create"
          BY <2>2, <2>4 DEF PluginCommand, PluginBroadcast, ProcessPluginListThreaded,
             HandlerReturns, InitFails, StoreAndHookPlugin, EventIdle
    <3>2. QED
          BY <3>1
  <2>5. CASE InitFindsCVar
        BY <2>5 DEF InitFindsCVar, Types, Handler
  <2>6. CASE InitCreatesCVar
        BY <2>6 DEF InitCreatesCVar, Types, Handler
  <2>7. CASE UnloadPlugin
        BY <2>7 DEF UnloadPlugin
  <2>8. CASE \E l \in Library : RunReads(l) \/ RunUpdates(l) \/ ChunkwmBroadcast(l) \/ RunReturns(l)
        BY <2>8 DEF RunReads, RunUpdates, ChunkwmBroadcast, RunReturns, EventIsFreed, Types, Handler
  <2>9. QED
        BY <2>1, <2>3, <2>4, <2>5, <2>6, <2>7, <2>8 DEF Next, OtherThreads, EventThread
<1>4. ev'.owed => FindCVarAPI("setting")'
      BY <1>1, <1>3 DEF SettingIsKnown
<1>5. ev'.pc = "create" => ~ev'.owed
      BY <1>3 DEF SettingIsKnown
<1>6. QED
      BY <1>2, <1>4, <1>5 DEF SettingIsKnown

----
(***************************************************************************)
(* A connection is in one place: in the backlog, with the daemon thread,   *)
(* in the queue or with a handler.  Its socket is closed by who has it.    *)
(***************************************************************************)
LEMMA ConnectionsInit == Init => ConnectionsAreOwned
<1> SUFFICES ASSUME Init PROVE ConnectionsAreOwned
    OBVIOUS
<1>1. script.next = 1 /\ Len(Script) \in Nat
      BY PluginAssumption DEF Init, PluginAssumption
<1>2. DOMAIN backlog = {} /\ DOMAIN queue = {}
      BY DEF Init
<1>3. daemon.conn = 0 /\ ev.conn = 0
      BY DEF Init, DaemonIdle, EventIdle
<1>4. QED
      BY <1>1, <1>2, <1>3 DEF ConnectionsAreOwned

(***************************************************************************)
(* A connection gets a number that none has had.                           *)
(***************************************************************************)
LEMMA UsedNumbers ==
  ASSUME Types
  PROVE  0 \notin Used /\ Len(Script) \in Nat /\ Used \subseteq Nat
BY PluginAssumption DEF Used, Types, PluginAssumption

(***************************************************************************)
(* Steps that leave the backlog alone: a socket is closed by the handler   *)
(* or by the daemon thread, an event moves from the queue to its handler.   *)
(***************************************************************************)
LEMMA ConnectionsMove ==
  ASSUME Types, ConnectionsAreOwned,
         UNCHANGED <<backlog, script, sent>>,
         waiting \ {ev.conn, daemon.conn} \subseteq waiting',
         daemon'.conn \in {daemon.conn, 0},
         ev'.conn \in {ev.conn, 0} \/ \E j \in DOMAIN queue : ev'.conn = queue[j].conn,
         \A i \in DOMAIN queue' : \/ \E j \in DOMAIN queue : queue'[i] = queue[j]
                                  \/ queue'[i].conn = 0
  PROVE  ConnectionsAreOwned'
<1>1. Used' = Used /\ 0 \notin Used
      BY UsedNumbers DEF Used
<1>2. \A j \in DOMAIN queue' : /\ queue'[j].conn \in Used \cup {0}
                               /\ \A i \in DOMAIN backlog : backlog[i].conn # queue'[j].conn
      BY <1>1 DEF ConnectionsAreOwned
<1>3. \A i \in DOMAIN backlog : /\ backlog[i].conn \in Used \cap waiting'
                                /\ backlog[i].conn # daemon'.conn /\ backlog[i].conn # ev'.conn
      BY <1>1 DEF ConnectionsAreOwned
<1>4. daemon'.conn \in Used \cup {0} /\ ev'.conn \in Used \cup {0}
      BY DEF ConnectionsAreOwned
<1>5. QED
      BY <1>1, <1>2, <1>3, <1>4 DEF ConnectionsAreOwned

(***************************************************************************)
(* Steps of the daemon thread that take the first connection.              *)
(***************************************************************************)
LEMMA ConnectionsAccept ==
  ASSUME Types, ConnectionsAreOwned, NEW ops, Accept(ops),
         UNCHANGED <<script, sent>>,
         waiting \ {Conn} \subseteq waiting',
         daemon'.conn \in {daemon.conn, Conn},
         ev'.conn = ev.conn,
         \A i \in DOMAIN queue' : \/ \E j \in DOMAIN queue : queue'[i] = queue[j]
                                  \/ queue'[i].conn \in {0, Conn}
  PROVE  ConnectionsAreOwned'
<1>1. Used' = Used /\ 0 \notin Used
      BY UsedNumbers DEF Used
<1>2. Conn \in Used
      BY AcceptFacts DEF ConnectionsAreOwned
<1>3. \A i \in DOMAIN backlog' :
          i + 1 \in DOMAIN backlog /\ backlog'[i].conn = backlog[i + 1].conn /\ backlog'[i].conn # Conn
      BY AcceptFacts DEF ConnectionsAreOwned
<1>4. \A i \in DOMAIN backlog' : /\ backlog'[i].conn \in Used \cap waiting'
                                 /\ backlog'[i].conn # daemon'.conn /\ backlog'[i].conn # ev'.conn
      BY <1>3 DEF ConnectionsAreOwned
<1>5. \A i, j \in DOMAIN backlog' : i # j => backlog'[i].conn # backlog'[j].conn
  <2>1. TAKE i, j \in DOMAIN backlog'
  <2>2. HAVE i # j
  <2>3. i + 1 \in DOMAIN backlog /\ j + 1 \in DOMAIN backlog /\ i + 1 # j + 1
        BY <2>2, AcceptFacts
  <2>4. QED
        BY <1>3, <2>3 DEF ConnectionsAreOwned
<1>6. \A j \in DOMAIN queue' : /\ queue'[j].conn \in Used \cup {0}
                               /\ \A i \in DOMAIN backlog' : backlog'[i].conn # queue'[j].conn
      BY <1>1, <1>2, <1>3, <1>4 DEF ConnectionsAreOwned
<1>7. daemon'.conn \in Used \cup {0} /\ ev'.conn \in Used \cup {0}
      BY <1>2 DEF ConnectionsAreOwned
<1>8. QED
      BY <1>1, <1>4, <1>5, <1>6, <1>7 DEF ConnectionsAreOwned

(***************************************************************************)
(* A client connects, with a number that has not been used.                *)
(***************************************************************************)
LEMMA ConnectionsSend ==
  ASSUME Types, ConnectionsAreOwned, NEW c, NEW cmd \in Command, Connect(c, cmd),
         c \notin Used, Used' = Used \cup {c}, script'.next \in 1 .. Len(Script) + 1,
         c \in Nat \ {0}, UNCHANGED <<daemon, ev, queue>>
  PROVE  ConnectionsAreOwned'
<1>1. PICK e \in Connection : e.conn = c /\ backlog' = Append(backlog, e)
      BY DEF Connect, Connection
<1>2. backlog \in Seq(Connection) /\ waiting' = waiting \cup {c}
      BY DEF Connect, Types
<1>3. \A i \in DOMAIN backlog' : (i \in DOMAIN backlog /\ backlog'[i] = backlog[i])
                               \/ (i \notin DOMAIN backlog /\ backlog'[i] = e)
      BY <1>1, <1>2, AppendFacts
<1>4. \A i, j \in DOMAIN backlog' : i # j => i \in DOMAIN backlog \/ j \in DOMAIN backlog
      BY <1>1, <1>2, AppendFacts
<1>5. /\ daemon.conn # c /\ ev.conn # c /\ \A j \in DOMAIN queue : queue[j].conn # c
      /\ \A i \in DOMAIN backlog : backlog[i].conn # c
      BY DEF ConnectionsAreOwned
<1>6. \A i \in DOMAIN backlog' : \/ i \in DOMAIN backlog /\ backlog'[i].conn = backlog[i].conn
                                 \/ i \notin DOMAIN backlog /\ backlog'[i].conn = c
      BY <1>1, <1>3
<1>7. ASSUME NEW i \in DOMAIN backlog'
      PROVE  /\ backlog'[i].conn \in Used' \cap waiting'
             /\ backlog'[i].conn # daemon.conn /\ backlog'[i].conn # ev.conn
             /\ \A j \in DOMAIN queue : backlog'[i].conn # queue[j].conn
  <2>1. CASE i \in DOMAIN backlog
        BY <1>2, <1>6, <2>1 DEF ConnectionsAreOwned
  <2>2. CASE i \notin DOMAIN backlog
        BY <1>2, <1>5, <1>6, <2>2
  <2>3. QED
        BY <2>1, <2>2
<1>8. \A i, j \in DOMAIN backlog' : i # j => backlog'[i].conn # backlog'[j].conn
      BY <1>4, <1>5, <1>6 DEF ConnectionsAreOwned
<1>9. QED
      BY <1>7, <1>8 DEF ConnectionsAreOwned

(***************************************************************************)
(* Every step keeps each connection with one owner.                        *)
(***************************************************************************)
LEMMA ConnectionsStep ==
  ASSUME Types, ConnectionsAreOwned, Next
  PROVE  ConnectionsAreOwned'
<1> USE DEF elsewhere, notEvent, CloseSocket
<1>1. CASE ScriptSends
  <2>1. /\ script.next \in 1 .. Len(Script) /\ Len(Script) \in Nat
        /\ script'.next = script.next + 1 /\ sent' = sent /\ sent \in Nat
        /\ Connect(script.next, Script[script.next]) /\ Script[script.next] \in Command
        /\ UNCHANGED <<daemon, ev, queue>>
        BY <1>1, PluginAssumption DEF ScriptSends, ConnectionsAreOwned, PluginAssumption, Types
  <2>2. script.next \notin Used /\ Used' = Used \cup {script.next}
        BY <2>1 DEF Used
  <2>3. script'.next \in 1 .. Len(Script) + 1
        BY <2>1
  <2>4. QED
        BY <2>1, <2>2, <2>3, ConnectionsSend
<1>2. CASE \E cmd \in UserCommand : UserSends(cmd)
  <2>1. PICK cmd \in UserCommand : UserSends(cmd)
        BY <1>2
  <2>2. /\ script.next \in 1 .. Len(Script) + 1 /\ Len(Script) \in Nat
        /\ script' = script /\ sent' = sent + 1 /\ sent \in Nat
        /\ Connect(Len(Script) + sent + 1, cmd) /\ cmd \in Command
        /\ UNCHANGED <<daemon, ev, queue>>
        BY <2>1, PluginAssumption DEF UserSends, ConnectionsAreOwned, PluginAssumption, Types
  <2>3. /\ Len(Script) + sent + 1 \notin Used /\ Len(Script) + sent + 1 \in Nat \ {0}
        /\ Used' = Used \cup {Len(Script) + sent + 1}
        BY <2>2 DEF Used
  <2>4. QED
        BY <2>2, <2>3, ConnectionsSend
<1>3. ASSUME ~Delegate, NEW i \in DOMAIN queue'
      PROVE  \/ \E j \in DOMAIN queue : queue'[i] = queue[j]
             \/ queue'[i].conn = 0
      BY <1>3, QueueSteps
<1>4. DaemonIsFreed("setting").conn = daemon.conn
      BY DEF DaemonIsFreed, Types, Reader
<1>5. DaemonIdle.conn = 0 /\ EventIdle.conn = 0
      BY DEF DaemonIdle, EventIdle
<1>6. CASE Delegate
  <2>1. /\ Accept({"plugin"}) /\ UNCHANGED <<script, sent, waiting, daemon, ev>>
        BY <1>6 DEF Delegate
  <2>2. \A i \in DOMAIN queue' : \/ \E j \in DOMAIN queue : queue'[i] = queue[j]
                                 \/ queue'[i].conn \in {0, Conn}
        BY QueueSteps
  <2>3. QED
        BY <2>1, <2>2, ConnectionsAccept
<1>7. CASE (SetCVar \/ GetCVar \/ CorePluginDir \/ CoreHotload \/ CoreLoad \/ CoreUnload) /\ ~Delegate
  <2>1. PICK ops : Accept(ops)
        BY <1>7 DEF SetCVar, GetCVar, CorePluginDir, CoreHotload, CoreLoad, CoreUnload
  <2>2. /\ UNCHANGED <<script, sent>> /\ waiting \ {Conn} \subseteq waiting'
        /\ daemon'.conn \in {daemon.conn, Conn}
        BY <1>7 DEF SetCVar, GetCVar, CorePluginDir, CoreHotload, CoreLoad, CoreUnload
  <2>3. ev'.conn = ev.conn
        BY <1>7, OthersKeepHandler DEF OtherThreads, Daemon
  <2>4. QED
        BY <1>3, <1>7, <2>1, <2>2, <2>3, ConnectionsAccept
<1>8. CASE (Main \/ DaemonFaults \/ WriteValue \/ WindowEvent
            \/ \E f \in File : FileChanges(f) \/ HotloadPluginCallback(f)) /\ ~Delegate
  <2>1. /\ UNCHANGED <<backlog, script, sent>> /\ waiting \ {daemon.conn} \subseteq waiting'
        /\ daemon'.conn \in {daemon.conn, 0}
        BY <1>5, <1>8 DEF Main, BeginPart, ExecConfigFile, HotloadPlugins, DaemonFaults, WriteValue,
           WindowEvent, FileChanges, HotloadPluginCallback, PerformIOOperation, Listening
  <2>2. ev'.conn = ev.conn
        BY <1>8, OthersKeepHandler DEF OtherThreads, Daemon
  <2>3. QED
        BY <1>3, <1>8, <2>1, <2>2, ConnectionsMove
<1>9. CASE EventThread /\ ~Delegate
  <2>1. UNCHANGED <<backlog, script, sent>>
        BY <1>9, EventThreadKeepsBoot
  <2>2. daemon'.conn = daemon.conn
        BY <1>4, <1>9 DEF EventThread, LoadPlugin, InitFindsCVar, InitCreatesCVar, InitFails,
           StoreAndHookPlugin, UnloadPlugin, PluginCommand, PluginBroadcast,
           ProcessPluginListThreaded, HandlerReturns, RunReads, RunUpdates, ChunkwmBroadcast,
           RunReturns
  <2>3. waiting \ {ev.conn} \subseteq waiting'
        BY <1>9 DEF EventThread, LoadPlugin, InitFindsCVar, InitCreatesCVar, InitFails,
           StoreAndHookPlugin, UnloadPlugin, PluginCommand, PluginBroadcast,
           ProcessPluginListThreaded, HandlerReturns, RunReads, RunUpdates, ChunkwmBroadcast,
           RunReturns
  <2>4. ev'.conn \in {ev.conn, 0} \/ \E j \in DOMAIN queue : ev'.conn = queue[j].conn
    <3>1. CASE PluginCommand
      <4>1. 1 \in DOMAIN queue /\ Top = queue[1]
            BY <3>1, TakeFacts DEF PluginCommand
      <4>2. ev'.conn = Top.conn
            BY <3>1 DEF PluginCommand, EventIdle
      <4>3. QED
            BY <4>1, <4>2
    <3>2. CASE LoadPlugin
      <4>1. \/ ev' = EventIdle
            \/ ev' = [EventIdle EXCEPT !.pc = "init", !.file = Top.file, !.owed = Top.owed]
            BY <3>2 DEF LoadPlugin
      <4>2. QED
            BY <1>5, <4>1 DEF EventIdle
    <3>3. CASE PluginBroadcast \/ ProcessPluginListThreaded \/ StoreAndHookPlugin
          BY <3>3 DEF PluginBroadcast, ProcessPluginListThreaded, StoreAndHookPlugin, EventIdle
    <3>4. CASE HandlerReturns \/ InitFails
          BY <1>5, <3>4 DEF HandlerReturns, InitFails
    <3>5. CASE \/ InitFindsCVar \/ InitCreatesCVar \/ UnloadPlugin
               \/ \E l \in Library : RunReads(l) \/ RunUpdates(l) \/ ChunkwmBroadcast(l) \/ RunReturns(l)
          BY <3>5 DEF InitFindsCVar, InitCreatesCVar, UnloadPlugin, RunReads, RunUpdates,
             ChunkwmBroadcast, RunReturns, EventIsFreed, Types, Handler
    <3>6. QED
          BY <1>9, <3>1, <3>2, <3>3, <3>4, <3>5 DEF EventThread
  <2>5. QED
        BY <1>3, <1>9, <2>1, <2>2, <2>3, <2>4, ConnectionsMove
<1>10. QED
       BY <1>1, <1>2, <1>6, <1>7, <1>8, <1>9 DEF Next, Daemon

----
(***************************************************************************)
(* The tables.  Every handle that is open belongs to a file in the list of *)
(* plugins or to the one that is being loaded.                             *)
(***************************************************************************)
LEMMA TablesInit == Init => TablesAgree
<1> SUFFICES ASSUME Init PROVE TablesAgree
    OBVIOUS
<1>1. ~Loading /\ \A f \in File : ~Listed(f)
      BY DEF Init, Loading, EventIdle, Listed
<1>2. \A l \in Library : FilesOf(l) = {}
      BY LibraryIsNoNull DEF Init, FilesOf
<1>3. \A l \in Library : Cardinality(FilesOf(l)) = 0 /\ IsFiniteSet(FilesOf(l))
      BY <1>2, FS_EmptySet
<1>4. ready = exports /\ \A l \in Library : handles[l] = 0 /\ Opened(l) = 0
      BY <1>1 DEF Init, Opened
<1>5. QED
      BY <1>1, <1>3, <1>4 DEF TablesAgree

(***************************************************************************)
(* Steps that leave the tables alone and neither begin nor end a load.     *)
(***************************************************************************)
LEMMA TablesKept ==
  ASSUME TablesAgree, UNCHANGED tables,
         Loading' <=> Loading, Loading => ev'.file = ev.file
  PROVE  TablesAgree'
<1>1. \A l \in Library : FilesOf(l)' = FilesOf(l) /\ Opened(l)' = Opened(l)
      BY DEF FilesOf, Opened, tables
<1>2. QED
      BY <1>1 DEF TablesAgree, Listed, tables

(***************************************************************************)
(* Every step keeps the tables in agreement with each other.               *)
(***************************************************************************)
LEMMA TablesStep ==
  ASSUME Types, TablesAgree, Next
  PROVE  TablesAgree'
<1> USE DEF notEvent
<1>1. CASE OtherThreads
      BY <1>1, OthersKeepHandler, TablesKept DEF Loading
<1>2. CASE LoadPlugin /\ UNCHANGED handles
  <2>1. ~Loading /\ UNCHANGED tables
        BY <1>2, TakeFacts DEF LoadPlugin, Loading, tables
  <2>2. CASE Loading'
    <3>1. PICK l \in Library : handles' = [handles EXCEPT ![l] = @ + 1]
          BY <1>2, <2>2, TakeFacts, LibraryIsNoNull DEF LoadPlugin, Loading, EventIdle
    <3>2. handles'[l] = handles[l] + 1 /\ handles[l] \in Int
          BY <3>1 DEF Types
    <3>3. QED
          BY <1>2, <3>2
  <2>3. CASE ~Loading'
        BY <2>1, <2>3, TablesKept
  <2>4. QED
        BY <2>2, <2>3
<1>3. CASE LoadPlugin /\ handles' # handles
  <2>1. /\ Top.file \in File /\ ~Loading /\ ~Listed(Top.file)
        /\ handles' = [handles EXCEPT ![Resolve(Top.file)] = @ + 1]
        /\ UNCHANGED <<loaded, exports, ready>>
        BY <1>3, TakeFacts DEF LoadPlugin, Loading, Listed, IsPluginLoaded
  <2>2. Loading' /\ ev'.file = Top.file
        BY <1>3 DEF LoadPlugin, Loading, EventIdle
  <2>3. \A l \in Library : FilesOf(l)' = FilesOf(l) /\ Opened(l) = 0
        BY <2>1 DEF FilesOf, Opened
  <2>4. \A l \in Library : handles'[l] = handles[l] + Opened(l)'
        BY <2>1, <2>2 DEF Opened, Types
  <2>5. \A l \in Library : handles'[l] = Opened(l)' + Cardinality(FilesOf(l))
    <3>1. TAKE l \in Library
    <3>2. handles[l] = 0 + Cardinality(FilesOf(l)) /\ Cardinality(FilesOf(l)) \in Nat
          BY <2>3, FS_CardinalityType DEF TablesAgree
    <3>3. Opened(l)' \in {0, 1}
          BY DEF Opened
    <3>4. QED
          BY <2>4, <3>2, <3>3
  <2>6. QED
        BY <2>1, <2>2, <2>3, <2>5 DEF TablesAgree, Listed
<1>4. CASE InitFindsCVar \/ InitCreatesCVar
  <2>1. UNCHANGED tables /\ Loading /\ Loading' /\ ev'.file = ev.file
        BY <1>4 DEF InitFindsCVar, InitCreatesCVar, Loading, Types, Handler
  <2>2. QED
        BY <2>1, TablesKept
<1>5. CASE InitFails
  <2>1. /\ Loading /\ ~Loading' /\ ev.file \in File /\ Resolve(ev.file) \in Library
        /\ handles' = [handles EXCEPT ![Resolve(ev.file)] = @ - 1]
        /\ UNCHANGED <<loaded, exports, ready>>
        BY <1>5, LibraryIsNoNull DEF InitFails, Loading, EventIdle, Types, Handler
  <2>2. \A l \in Library : /\ FilesOf(l)' = FilesOf(l) /\ Opened(l)' = 0
                           /\ handles'[l] = handles[l] - Opened(l)
        BY <2>1 DEF FilesOf, Opened, Types
  <2>3. \A l \in Library : handles'[l] = Opened(l)' + Cardinality(FilesOf(l))
    <3>1. TAKE l \in Library
    <3>2. handles[l] = Opened(l) + Cardinality(FilesOf(l)) /\ Cardinality(FilesOf(l)) \in Nat
          BY FS_CardinalityType DEF TablesAgree
    <3>3. Opened(l) \in {0, 1}
          BY DEF Opened
    <3>4. QED
          BY <2>2, <3>2, <3>3
  <2>4. QED
        BY <2>1, <2>2, <2>3 DEF TablesAgree, Listed
<1>6. CASE StoreAndHookPlugin
  <2>0. ev.file \in File /\ Resolve(ev.file) \in Library
        BY <1>6, LibraryIsNoNull DEF StoreAndHookPlugin, Types, Handler
  <2> PICK f \in File, k \in Library : f = ev.file /\ k = Resolve(f)
      BY <2>0
  <2>1. /\ Loading /\ ~Loading' /\ ~Listed(f) /\ k # None
        /\ loaded' = [loaded EXCEPT ![f] = k]
        /\ exports' = exports \cup {k} /\ ready' = ready \cup {k} /\ handles' = handles
        BY <1>6, LibraryIsNoNull DEF StoreAndHookPlugin, Loading, EventIdle, Types, Handler,
           TablesAgree
  <2>2. f \notin FilesOf(k) /\ FilesOf(k)' = FilesOf(k) \cup {f}
        BY <2>1 DEF FilesOf, Listed, Types
  <2>3. \A l \in Library : l # k => FilesOf(l)' = FilesOf(l)
        BY <2>1, LibraryIsNoNull DEF FilesOf, Listed, Types
  <2>4. \A l \in Library : Opened(l)' = 0 /\ Opened(l) = IF l = k THEN 1 ELSE 0
        BY <2>1 DEF Opened
  <2>5. ASSUME NEW l \in Library
        PROVE  /\ IsFiniteSet(FilesOf(l)')
               /\ handles'[l] = Opened(l)' + Cardinality(FilesOf(l)')
    <3>1. /\ IsFiniteSet(FilesOf(l)) /\ Cardinality(FilesOf(l)) \in Nat
          /\ handles[l] = Opened(l) + Cardinality(FilesOf(l))
          BY FS_CardinalityType DEF TablesAgree
    <3>2. CASE l = k
      <4>1. f \notin FilesOf(l) /\ FilesOf(l)' = FilesOf(l) \cup {f}
            BY <2>2, <3>2
      <4>2. /\ Cardinality(FilesOf(l)') = Cardinality(FilesOf(l)) + 1
            /\ IsFiniteSet(FilesOf(l)')
            BY <3>1, <4>1, FS_AddElement
      <4>3. QED
            BY <2>1, <2>4, <3>1, <3>2, <4>2
    <3>3. CASE l # k
          BY <2>1, <2>3, <2>4, <3>1, <3>3
    <3>4. QED
          BY <3>2, <3>3
  <2>6. \A g \in File : Listed(g)' => loaded'[g] = Resolve(g)
        BY <2>1 DEF Listed, TablesAgree, Types
  <2>7. QED
        BY <2>1, <2>5, <2>6 DEF TablesAgree
<1>7. CASE UnloadPlugin
  <2>0. Top.file \in File /\ Resolve(Top.file) \in Library
        BY <1>7, TakeFacts, LibraryIsNoNull DEF UnloadPlugin
  <2> PICK f \in File, k \in Library : f = Top.file /\ k = Resolve(f)
      BY <2>0
  <2>1. ~Loading /\ ev' = ev
        BY <1>7, TakeFacts DEF UnloadPlugin, Loading
  <2>2. CASE ~Listed(f)
    <3>1. UNCHANGED tables
          BY <1>7, <2>2 DEF UnloadPlugin, Listed, IsPluginLoaded
    <3>2. QED
          BY <2>1, <3>1, TablesKept DEF Loading
  <2>3. CASE Listed(f)
    <3>1. /\ loaded' = [loaded EXCEPT ![f] = None] /\ loaded[f] = k
          /\ exports' = exports \ {k} /\ ready' = ready \ {k}
          /\ handles' = [handles EXCEPT ![k] = @ - 1]
          BY <1>7, <2>1, <2>3 DEF UnloadPlugin, UnhookPlugin, Listed, IsPluginLoaded, TablesAgree
    <3>2. f \in FilesOf(k) /\ FilesOf(k)' = FilesOf(k) \ {f}
          BY <2>1, <3>1, LibraryIsNoNull DEF FilesOf, Types
    <3>3. \A l \in Library : l # k => FilesOf(l)' = FilesOf(l)
          BY <2>1, <3>1, LibraryIsNoNull DEF FilesOf, Types
    <3>4. ~Loading' /\ \A l \in Library : Opened(l)' = 0 /\ Opened(l) = 0
          BY <2>1 DEF Opened, Loading
    <3>5. ASSUME NEW l \in Library
          PROVE  /\ IsFiniteSet(FilesOf(l)')
                 /\ handles'[l] = Opened(l)' + Cardinality(FilesOf(l)')
      <4>1. /\ IsFiniteSet(FilesOf(l)) /\ Cardinality(FilesOf(l)) \in Nat
            /\ handles[l] = Opened(l) + Cardinality(FilesOf(l))
            BY FS_CardinalityType DEF TablesAgree
      <4>2. CASE l = k
        <5>1. /\ Cardinality(FilesOf(l)') = Cardinality(FilesOf(l)) - 1
              /\ IsFiniteSet(FilesOf(l)')
              BY <3>2, <4>1, <4>2, FS_RemoveElement
        <5>2. handles'[l] = handles[l] - 1
              BY <2>1, <3>1, <4>2 DEF Types
        <5>3. QED
              BY <3>4, <4>1, <5>1, <5>2
      <4>3. CASE l # k
        <5>1. handles'[l] = handles[l]
              BY <2>1, <3>1, <4>3 DEF Types
        <5>2. QED
              BY <3>3, <3>4, <4>1, <4>3, <5>1
      <4>4. QED
            BY <4>2, <4>3
    <3>6. \A g \in File : Listed(g)' => loaded'[g] = Resolve(g)
          BY <2>1, <3>1 DEF Listed, TablesAgree, Types
    <3>7. QED
          BY <3>1, <3>4, <3>5, <3>6 DEF TablesAgree
  <2>4. QED
        BY <2>2, <2>3
<1>8. CASE PluginCommand \/ PluginBroadcast \/ ProcessPluginListThreaded
  <2>1. PICK type : Take(type)
        BY <1>8 DEF PluginCommand, PluginBroadcast, ProcessPluginListThreaded
  <2>2. UNCHANGED tables /\ ~Loading /\ ~Loading'
        BY <1>8, <2>1, TakeFacts DEF PluginCommand, PluginBroadcast, ProcessPluginListThreaded,
           Loading, EventIdle
  <2>3. QED
        BY <2>2, TablesKept
<1>9. CASE \/ HandlerReturns
           \/ \E l \in Library : RunReads(l) \/ RunUpdates(l) \/ ChunkwmBroadcast(l) \/ RunReturns(l)
  <2>1. UNCHANGED tables /\ ~Loading
        BY <1>9 DEF HandlerReturns, RunReads, RunUpdates, ChunkwmBroadcast, RunReturns, Running,
           Loading
  <2>2. ev'.pc \in {"idle", "run"}
    <3>1. CASE HandlerReturns
          BY <3>1 DEF HandlerReturns, EventIdle
    <3>2. CASE \E l \in Library : RunReads(l) \/ RunUpdates(l) \/ ChunkwmBroadcast(l) \/ RunReturns(l)
          BY <3>2 DEF RunReads, RunUpdates, ChunkwmBroadcast, RunReturns, Running, EventIsFreed,
             Types, Handler
    <3>3. QED
          BY <1>9, <3>1, <3>2
  <2>3. QED
        BY <2>1, <2>2, TablesKept DEF Loading
<1>10. QED
       BY <1>1, <1>2, <1>3, <1>4, <1>5, <1>6, <1>7, <1>8, <1>9
       DEF Next, OtherThreads, EventThread

(***************************************************************************)
(* The lists.  Without two links to one library, the plugins hooked to the *)
(* exports are those in the list of plugins, and only they are run.        *)
(***************************************************************************)
LEMMA ListsInit == Init => ListsAgree
<1> SUFFICES ASSUME Init PROVE ListsAgree
    OBVIOUS
<1>1. ev.todo = {} /\ exports = {} /\ \A f \in File : ~Listed(f)
      BY DEF Init, EventIdle, Listed
<1>2. QED
      BY <1>1 DEF ListsAgree

(***************************************************************************)
(* Every step keeps the lists in agreement with the exports.               *)
(***************************************************************************)
LEMMA ListsStep ==
  ASSUME Types, TablesAgree, ListsAgree, Next
  PROVE  ListsAgree'
<1> USE DEF notEvent
<1>1. EventIdle.todo = {} /\ EventIdle.pc = "idle"
      BY DEF EventIdle
<1>2. ASSUME UNCHANGED <<loaded, exports>>,
             ev'.pc # "run" => ev'.todo = {},
             ~SameLibrary => ev'.todo \subseteq exports
      PROVE  ListsAgree'
      BY <1>2 DEF ListsAgree, Listed
<1>3. CASE OtherThreads
      BY <1>2, <1>3, OthersKeepHandler DEF ListsAgree, tables
<1>4. CASE LoadPlugin
  <2>1. ev'.todo = {}
    <3>1. \/ ev' = EventIdle
          \/ ev' = [EventIdle EXCEPT !.pc = "init", !.file = Top.file, !.owed = Top.owed]
          BY <1>4 DEF LoadPlugin
    <3>2. QED
          BY <1>1, <3>1 DEF EventIdle
  <2>2. QED
        BY <1>2, <1>4, <2>1 DEF LoadPlugin
<1>5. CASE InitFindsCVar \/ InitCreatesCVar \/ InitFails
  <2>1. ev'.todo = {}
        BY <1>1, <1>5 DEF InitFindsCVar, InitCreatesCVar, InitFails, ListsAgree, Types, Handler
  <2>2. QED
        BY <1>2, <1>5, <2>1 DEF InitFindsCVar, InitCreatesCVar, InitFails, tables
<1>6. CASE StoreAndHookPlugin
  <2>1. ev.file \in File /\ Resolve(ev.file) \in Library
        BY <1>6, LibraryIsNoNull DEF StoreAndHookPlugin, Types, Handler
  <2> PICK f \in File, k \in Library : f = ev.file /\ k = Resolve(f)
      BY <2>1
  <2>2. /\ loaded' = [loaded EXCEPT ![f] = k] /\ exports' = exports \cup {k} /\ k # None
        /\ ev'.pc = "run" /\ ev'.todo = {k}
        BY <1>6, LibraryIsNoNull DEF StoreAndHookPlugin, EventIdle
  <2>3. ASSUME ~SameLibrary, NEW g \in File
        PROVE  g \in exports' <=> Listed(g)'
    <3>1. k = f
          BY <2>3 DEF Resolve
    <3>2. g \in exports <=> Listed(g)
          BY <2>3 DEF ListsAgree
    <3>3. QED
          BY <2>2, <3>1, <3>2 DEF Listed, Types
  <2>4. QED
        BY <2>2, <2>3 DEF ListsAgree
<1>7. CASE UnloadPlugin
  <2>1. /\ Top.file \in File /\ ev' = ev /\ ev.pc = "idle" /\ ev.todo = {}
        BY <1>7, TakeFacts DEF UnloadPlugin, ListsAgree
  <2> PICK f \in File : f = Top.file
      BY <2>1
  <2>2. CASE ~Listed(f)
        BY <1>2, <1>7, <2>1, <2>2 DEF UnloadPlugin, Listed, IsPluginLoaded, tables
  <2>3. CASE Listed(f)
    <3>1. loaded' = [loaded EXCEPT ![f] = None] /\ exports' = exports \ {Resolve(f)}
          BY <1>7, <2>1, <2>3 DEF UnloadPlugin, UnhookPlugin, Listed, IsPluginLoaded
    <3>2. ASSUME ~SameLibrary, NEW g \in File
          PROVE  g \in exports' <=> Listed(g)'
      <4>1. Resolve(f) = f
            BY <3>2 DEF Resolve
      <4>2. g \in exports <=> Listed(g)
            BY <3>2 DEF ListsAgree
      <4>3. QED
            BY <3>1, <4>1, <4>2 DEF Listed, Types
    <3>3. QED
          BY <2>1, <3>2 DEF ListsAgree
  <2>4. QED
        BY <2>2, <2>3
<1>8. CASE PluginCommand \/ PluginBroadcast \/ ProcessPluginListThreaded
  <2>1. ASSUME ~SameLibrary
        PROVE  ev'.todo \subseteq exports
    <3>1. \A f \in File : Listed(f) => loaded[f] = f /\ f \in exports
          BY <2>1 DEF TablesAgree, ListsAgree, Resolve
    <3>2. CASE PluginCommand
      <4>1. Top.file \in File
            BY <3>2, TakeFacts DEF PluginCommand
      <4>2. ev'.todo = GetPluginFromFilename(Top.file)
            BY <3>2 DEF PluginCommand, EventIdle
      <4>3. QED
            BY <3>1, <4>1, <4>2 DEF GetPluginFromFilename, IsPluginLoaded, Listed
    <3>3. CASE PluginBroadcast
      <4>1. ev'.todo = Others(Top.file)
            BY <3>3 DEF PluginBroadcast, EventIdle
      <4>2. QED
            BY <3>1, <4>1 DEF Others, Listed
    <3>4. CASE ProcessPluginListThreaded
          BY <3>4 DEF ProcessPluginListThreaded, EventIdle
    <3>5. QED
          BY <1>8, <3>2, <3>3, <3>4
  <2>2. ev'.pc = "run"
        BY <1>8 DEF PluginCommand, PluginBroadcast, ProcessPluginListThreaded, EventIdle
  <2>3. QED
        BY <1>2, <1>8, <2>1, <2>2 DEF PluginCommand, PluginBroadcast, ProcessPluginListThreaded,
           tables
<1>9. CASE HandlerReturns
      BY <1>1, <1>2, <1>9 DEF HandlerReturns, tables
<1>10. CASE \E l \in Library : RunReads(l) \/ RunUpdates(l) \/ ChunkwmBroadcast(l) \/ RunReturns(l)
  <2>1. ev'.pc = "run" /\ ev'.todo \subseteq ev.todo /\ UNCHANGED <<loaded, exports>>
    <3>1. PICK l \in Library :
              RunReads(l) \/ RunUpdates(l) \/ ChunkwmBroadcast(l) \/ RunReturns(l)
          BY <1>10
    <3>2. ev.pc = "run" /\ UNCHANGED <<loaded, exports>>
          BY <3>1 DEF RunReads, RunUpdates, ChunkwmBroadcast, RunReturns, Running, tables
    <3>3. ev'.pc = ev.pc /\ ev'.todo \in {ev.todo, ev.todo \ {l}}
      <4>1. CASE RunReads(l)
            BY <4>1 DEF RunReads, Types, Handler
      <4>2. CASE RunUpdates(l)
            BY <4>2 DEF RunUpdates, EventIsFreed, Types, Handler
      <4>3. CASE ChunkwmBroadcast(l)
            BY <4>3 DEF ChunkwmBroadcast
      <4>4. CASE RunReturns(l)
            BY <4>4 DEF RunReturns, Types, Handler
      <4>5. QED
            BY <3>1, <4>1, <4>2, <4>3, <4>4
    <3>4. QED
          BY <3>2, <3>3
  <2>2. QED
        BY <1>2, <2>1 DEF ListsAgree
<1>11. QED
       BY <1>3, <1>4, <1>5, <1>6, <1>7, <1>8, <1>9, <1>10 DEF Next, OtherThreads, EventThread

----
(***************************************************************************)
(* The inductive invariant.                                                *)
(***************************************************************************)
PluginInv == /\ Types /\ ConnectionsAreOwned /\ Started /\ SettingIsKnown
             /\ TablesAgree /\ ListsAgree

(***************************************************************************)
(* The strengthening holds all the time.                                   *)
(***************************************************************************)
LEMMA InvariantHolds == Spec => []PluginInv
<1>1. ASSUME Init
      PROVE  PluginInv
  <2>1. Started
        BY <1>1 DEF Init, Started, EventIdle
  <2>2. SettingIsKnown
        BY <1>1 DEF Init, SettingIsKnown, EventIdle
  <2>3. QED
        BY <1>1, <2>1, <2>2, TypesInit, ConnectionsInit, TablesInit, ListsInit DEF PluginInv
<1>2. ASSUME PluginInv, [Next]_vars
      PROVE  PluginInv'
  <2>1. CASE Next
        BY <1>2, <2>1, TypesStep, ConnectionsStep, StartedStep, SettingStep, TablesStep, ListsStep
        DEF PluginInv
  <2>2. CASE UNCHANGED vars
        BY <1>2, <2>2 DEF vars, tables, PluginInv, Types, ConnectionsAreOwned, Started,
           SettingIsKnown, TablesAgree, ListsAgree, Used, Loading, Opened, Listed, FilesOf, Did,
           FindCVarAPI
  <2>3. QED
        BY <1>2, <2>1, <2>2
<1>3. QED
      BY <1>1, <1>2, PTL DEF Spec

(***************************************************************************)
(* Every path through LoadPlugin and UnloadPlugin gives back the handle it *)
(* took, with or without two links to one library; and a connection whose  *)
(* command waits is open.                                                  *)
(***************************************************************************)
LEMMA CountsAndTypes ==
  ASSUME PluginInv
  PROVE  TypeOK /\ HandlesAreCounted
<1>1. \A l \in Library : /\ handles[l] = Opened(l) + Cardinality(FilesOf(l))
                         /\ Cardinality(FilesOf(l)) \in Nat /\ Opened(l) \in {0, 1}
      BY FS_CardinalityType DEF PluginInv, TablesAgree, Opened
<1>2. HandlesAreCounted
      BY <1>1 DEF HandlesAreCounted, Opened, Loading
<1>3. handles \in [Library -> Nat]
  <2>1. \A l \in Library : handles[l] \in Nat
        BY <1>1
  <2>2. QED
        BY <2>1 DEF PluginInv, Types
<1>4. /\ daemon.pc \in {"accept", "get"} /\ daemon.ptr \in Pointer
      /\ ev.pc \in {"idle", "init", "create", "store", "run"}
      /\ ev.todo \subseteq Library /\ ev.ptr \in [Library -> Pointer]
      BY DEF PluginInv, Types, Reader, Handler
<1>5. \A i \in DOMAIN backlog : backlog[i].conn \in waiting
      BY DEF PluginInv, ConnectionsAreOwned
<1>6. QED
      BY <1>2, <1>3, <1>4, <1>5 DEF TypeOK, PluginInv, Types, Setting

(***************************************************************************)
(* Every path through LoadPlugin and UnloadPlugin gives back the handle it *)
(* took: a library is open exactly as often as it is listed or being       *)
(* loaded.                                                                 *)
(***************************************************************************)
THEOREM HandlesAreReturned == Spec => []HandlesAreCounted
<1>1. PluginInv => HandlesAreCounted
      BY CountsAndTypes
<1>2. QED
      BY <1>1, InvariantHolds, PTL

(***************************************************************************)
(* Unless two files are links to one library: whatever is listed, hooked to *)
(* an export or run by a handler is an open library between its Init and   *)
(* its DeInit, the lists agree with each other, and every open handle is   *)
(* accounted for, after any loads, failed loads and unloads.               *)
(***************************************************************************)
THEOREM PluginsStaySound ==
  ASSUME ~SameLibrary
  PROVE  Spec => []PluginsAreSound
<1>1. ASSUME PluginInv
      PROVE  PluginsAreSound
  <2>1. /\ Types /\ TablesAgree /\ ListsAgree /\ TypeOK /\ HandlesAreCounted
        BY <1>1, CountsAndTypes DEF PluginInv
  <2>2. Library = File /\ None \notin File
        BY PluginAssumption DEF Library, PluginAssumption
  <2>3. \A f \in File : /\ f \in exports <=> loaded[f] # None
                        /\ loaded[f] # None => loaded[f] = f
        BY <2>1 DEF TablesAgree, ListsAgree, Listed, Resolve
  <2>4. exports = {loaded[f] : f \in {g \in File : loaded[g] # None}}
    <3>1. exports \subseteq File
          BY <2>1, <2>2 DEF Types
    <3>2. {loaded[f] : f \in {g \in File : loaded[g] # None}} = {g \in File : loaded[g] # None}
          BY <2>3
    <3>3. QED
          BY <2>3, <3>1, <3>2
  <2>5. ASSUME NEW l \in exports \cup ev.todo
        PROVE  l \in ready /\ handles[l] > 0
    <3>1. l \in exports /\ l \in ready /\ l \in File
          BY <2>1, <2>2 DEF TablesAgree, ListsAgree, Types
    <3>2. l \in FilesOf(l)
          BY <2>3, <3>1 DEF FilesOf
    <3>3. IsFiniteSet(FilesOf(l)) /\ handles[l] = Opened(l) + Cardinality(FilesOf(l))
          BY <2>1, <2>2, <3>1 DEF TablesAgree
    <3>4. Cardinality(FilesOf(l)) \in Nat /\ Cardinality(FilesOf(l)) # 0
          BY <3>2, <3>3, FS_CardinalityType, FS_EmptySet
    <3>5. Opened(l) \in {0, 1}
          BY DEF Opened
    <3>6. QED
          BY <3>1, <3>3, <3>4, <3>5
  <2>6. QED
        BY <2>1, <2>4, <2>5 DEF PluginsAreSound, PluginIsUsable
<1>2. QED
      BY <1>1, InvariantHolds, PTL

(***************************************************************************)
(* However early a client sends a command, no handler of the event loop    *)
(* runs before the variables, the plugin mutexes, the threads and the      *)
(* collections are initialised, and the daemon thread can fault only       *)
(* before BeginCVars.                                                      *)
(***************************************************************************)
THEOREM HandlersFindCore == Spec => []HandlerFindsCore
<1>1. ASSUME PluginInv
      PROVE  HandlerFindsCore
  <2>1. boot \in 0 .. Len(Order)
        BY <1>1 DEF PluginInv, Types
  <2>2. Did("start") => Did("cvars") /\ Did("plugins") /\ Did("threads") /\ Did("state")
    <3>1. boot \in Int
          BY <2>1 DEF Order
    <3>2. QED
          BY <2>1, <3>1, BootOrder
  <2>3. QED
        BY <1>1, <2>2 DEF PluginInv, Started, HandlerFindsCore
<1>2. QED
      BY <1>1, InvariantHolds, PTL

(***************************************************************************)
(* No step replaces a setting the user made before the load of a plugin was *)
(* asked for by the default of the plugin (CreateCVar), although the load  *)
(* comes later, on another thread, and looks for the variable first.       *)
(***************************************************************************)
THEOREM DefaultsKeepSettings == Spec => DefaultKeepsSetting
<1>1. ASSUME PluginInv, [Next]_vars
      PROVE  ev.owed /\ cvar["setting"] = "user" => cvar'["setting"] # "default"
  <2>1. CASE Next
    <3>1. Types /\ SettingIsKnown
          BY <1>1 DEF PluginInv
    <3>2. InitCreatesCVar => ~ev.owed
          BY <3>1 DEF InitCreatesCVar, SettingIsKnown
    <3>3. QED
          BY <2>1, <3>1, <3>2, CVarSteps
  <2>2. CASE UNCHANGED vars
        BY <2>2 DEF vars
  <2>3. QED
        BY <1>1, <2>1, <2>2
<1>2. QED
      BY <1>1, InvariantHolds, PTL DEF Spec, DefaultKeepsSetting
====
