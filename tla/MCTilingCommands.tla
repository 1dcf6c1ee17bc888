---------------------------- MODULE MCTilingCommands ----------------------------
(* A small instance of TilingCommands: a display with a menu bar, a status bar *)
(* and a dock, desktops with up to three windows, and command lines of one or *)
(* two options, with every command that is modelled.                           *)
EXTENDS TilingCommands

CONSTANTS w1, w2, w3

MCDisplay == Rect(0, 0, 6000, 3000)
MCBar == [left |-> 10, top |-> 20, right |-> 0, bottom |-> 0]
MCDock == [side |-> "left", size |-> 80]
MCConf == [left |-> 10, top |-> 20, right |-> 10, bottom |-> 10, gap |-> 20]
MCRatioOf == [r \in {"0.1", "0.5"} |-> IF r = "0.1" THEN 12 ELSE 60]

Half == Whole \div 2
Row == Node("vertical", Half, Leaf(w1), Node("vertical", Half, Leaf(w2), Leaf(w3)))
Main == Node("vertical", Half, Leaf(w1), Node("horizontal", Half, Leaf(w2), Leaf(w3)))
MCTree == {Leaf(w1), Row, Main}

Opt(flag, argument) == [flag |-> flag, arg |-> argument, short |-> TRUE]
Long(flag, argument) == [flag |-> flag, arg |-> argument, short |-> FALSE]
Bad == Opt("x", NoValue)

Single(type, options) == {[type |-> type, options |-> <<o>>] : o \in options}
Pairs(type, options) == {[type |-> type, options |-> <<o, p>>] : o \in options, p \in options}

MCLine ==
    Single("window", {Opt("f", "next"), Opt("f", w2), Opt("s", "biggest"),
                      Opt("c", NoValue)})
    \cup Pairs("window", {Opt("e", "west"), Opt("t", "split"), Opt("r", "0.1"), Bad})
    \cup Single("desktop", {Opt("r", "90"), Opt("r", "180"), Opt("r", "270"),
                            Opt("m", "horizontal"), Opt("t", "offset"), Opt("p", "inc"),
                            Opt("p", "dec"), Opt("g", "inc"), Opt("g", "dec"),
                            Opt("e", NoValue), Opt("s", "file"), Long("s", "file")})
    \cup Single("monitor", {Opt("f", "next")}) \cup Single("query", {Opt("d", "mode")})
    \cup Pairs("rule", {Opt("o", "text"), Opt("s", "text")})
====
