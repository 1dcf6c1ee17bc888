----------------------------- MODULE MCCommandLine -----------------------------
(* A small instance of CommandLine: lines of up to three options, of which    *)
(* any may be wrong, and of each type of line.                                *)
EXTENDS CommandLine

MCRatioOf == [r \in {"0.1", "0.7"} |-> IF r = "0.1" THEN 12 ELSE 84]

Opt(flag, argument) == [flag |-> flag, arg |-> argument, short |-> TRUE]
Focus == Opt("f", "next")
Narrow == Opt("r", "0.1")
Wide == Opt("r", "0.7")
Bad == Opt("x", NoValue)
Save == [flag |-> "s", arg |-> "file", short |-> FALSE]
SaveShort == Opt("s", "file")   \* which the parser does not know

\* A line of the type, of one to three of the options.
Lines(type, options) ==
    UNION {{[type |-> type, options |-> o] : o \in [1 .. n -> options]} : n \in 1 .. 3}

MCLine ==
    Lines("window", {Focus, Narrow, Wide, Bad}) \cup Lines("desktop", {Save, SaveShort, Opt("r", "90")})
    \cup Lines("monitor", {Focus}) \cup Lines("query", {Opt("d", "mode")})
    \cup Lines("rule", {Opt("o", "text"), Opt("s", "text"), Bad})
====
