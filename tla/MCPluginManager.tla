--------------------------- MODULE MCPluginManager ---------------------------
(* A small instance of PluginManager: what chunkwmrc does, in its order, and *)
(* one command of each kind from other clients.                             *)
EXTENDS PluginManager

CONSTANTS f1, f2

MCFile == {f1, f2}
Cmd1(op, f) == [op |-> op, file |-> f]
MCScript == <<Cmd1("dir", None), Cmd1("set", None), Cmd1("load", f1), Cmd1("plugin", f1)>>
MCUserCommand == {Cmd1(op, None) : op \in {"set", "get", "hotload"}}
                 \cup {Cmd1(op, f) : op \in {"load", "unload"}, f \in MCFile}
                 \cup {Cmd1("plugin", f2)}
====
