------------------------------ MODULE CommandLine ------------------------------
(***************************************************************************)
(* plugins/tiling/config.cpp: a command line of the user is parsed into a  *)
(* chain of commands, which then run one after the other, while the daemon *)
(* goes on setting variables.                                              *)
(*                                                                         *)
(* CommandCallback runs on the event thread, so one line is handled at a   *)
(* time; the value of bsp_split_ratio is changed by `core::set' on the     *)
(* thread of the daemon (SetCVar in core/config.cpp).                      *)
(*                                                                         *)
(* An option is a flag, its argument, and whether the short flag was used. *)
(* What a command does to the windows is left to TilingCommands; here only *)
(* one of them has an effect, the one that changes the ratio for its line. *)
(***************************************************************************)
EXTENDS Naturals, Sequences

CONSTANTS WindowId,    \* ids of windows, which -f takes too
          NoValue,     \* in place of an argument that is not given
          RatioOf,     \* the ratio that each argument of -r means
          DefaultRatio,\* bsp_split_ratio to begin with
          Line,        \* the command lines the user may send
          SetMeanwhile,\* whether a variable is set while a line is handled
          MaxLines, MaxSets  \* bounds on lines and on settings

Type == {"window", "desktop", "monitor", "query", "rule"}
Option == UNION {{l.options[i] : i \in 1 .. Len(l.options)} : l \in Line}

ASSUME LineAssumption ==
    /\ MaxLines \in Nat /\ MaxSets \in Nat /\ SetMeanwhile \in BOOLEAN
    /\ Line \subseteq [type : Type, options : Seq(Option)]

VARIABLES ratio,        \* bsp_split_ratio
          rules,        \* how many window rules there are
          pc, line,     \* the line being handled: how far, its type and its options
          rest,         \* options that were not parsed yet
          chain,        \* commands that did not run yet
          saved,        \* Ratio in CommandCallback
          \* for the properties only:
          done,         \* commands of this line that ran
          user,         \* what the user last set bsp_split_ratio to
          lines, sets   \* how often

command == <<pc, line, rest, chain, saved, done, lines>>
vars == <<ratio, rules, command, user, sets>>

Compass == {"north", "east", "south", "west"}
Selector == Compass \cup {"prev", "next", "biggest"}
Index == {"prev", "next", "1"}
Toggle == {"float", "fade", "split", "sticky", "fullscreen", "native-fullscreen", "parent"}
Degrees == {"90", "180", "270"}

WindowOption ==
    ({"f"} \X (Selector \cup WindowId)) \cup ({"s", "w"} \X Selector) \cup ({"e"} \X Compass)
    \cup ({"i"} \X (Compass \cup {"cancel"})) \cup ({"r"} \X DOMAIN RatioOf) \cup ({"t"} \X Toggle)
    \cup ({"d", "m"} \X Index) \cup {<<"c", NoValue>>, <<"g", "1:1:0:0:1:1">>}
SpaceOption ==
    ({"r"} \X Degrees) \cup ({"l"} \X {"bsp", "monocle", "float"}) \cup {<<"t", "offset">>}
    \cup ({"m"} \X {"vertical", "horizontal"}) \cup ({"p", "g"} \X {"inc", "dec"})
    \cup ({"c", "a", "e"} \X {NoValue}) \cup ({"s", "d"} \X {"file"}) \cup ({"f", "M"} \X Index)
MonitorOption == {"f"} \X Index
QueryOption ==
    ({"w"} \X {"id", "owner", "name", "tag", "float", "1"})
    \cup ({"d"} \X {"id", "mode", "uuid", "windows", "monocle-index", "monocle-count"})
    \cup ({"m"} \X {"id", "count"}) \cup ({"W", "D", "M"} \X {"1"})
Filter == {"o", "n", "r", "R", "e"}
Property == {"s", "d", "m", "l", "a", "g"}
RuleOption == ((Filter \cup Property) \X {"text"}) \cup {<<"D", NoValue>>}

\* What the switch of each parser lets through, and the string Short.
Accepted(type) == CASE type = "window"  -> WindowOption
                    [] type = "desktop" -> SpaceOption
                    [] type = "monitor" -> MonitorOption
                    [] type = "query"   -> QueryOption
                    [] type = "rule"    -> RuleOption
Short(type) == CASE type = "window"  -> {"f", "s", "i", "t", "w", "r", "e", "d", "m", "c", "g"}
                 [] type = "desktop" -> {"r", "l", "t", "m", "p", "g", "e", "f", "c", "a", "M"}
                 [] type = "monitor" -> {"f"}
                 [] type = "query"   -> {"w", "d", "m", "D", "M"}
                 [] type = "rule"    -> {"o", "n", "r", "R", "e", "s", "d", "D", "l", "a", "g"}
Accepts(type, o) == /\ <<o.flag, o.arg>> \in Accepted(type)
                    /\ IF o.short THEN o.flag \in Short(type) ELSE type # "monitor"

Init == /\ ratio = DefaultRatio /\ user = ratio
        /\ rules = 0
        /\ pc = "idle" /\ line = NoValue /\ rest = <<>> /\ chain = <<>> /\ saved = DefaultRatio
        /\ done = <<>> /\ lines = 0 /\ sets = 0

----
(* Parsing.                                                                 *)
Receive(l) == /\ pc = "idle" /\ lines < MaxLines
              /\ pc' = "parse" /\ line' = l /\ rest' = l.options /\ lines' = lines + 1
              /\ chain' = <<>> /\ done' = <<>>
              /\ UNCHANGED <<ratio, rules, saved, user, sets>>

\* An option is appended to the chain; ParseRuleCommand fills in the rule instead.
ParseOption == /\ pc = "parse" /\ rest # <<>> /\ Accepts(line.type, Head(rest))
               /\ chain' = Append(chain, Head(rest)) /\ rest' = Tail(rest)
               /\ UNCHANGED <<ratio, rules, pc, line, saved, done, lines, user, sets>>

\* A fault: what was parsed before the error is kept and runs.
FaultReject == /\ pc = "parse" /\ rest # <<>> /\ ~Accepts(line.type, Head(rest))
               /\ rest' = <<>>
               /\ UNCHANGED <<ratio, rules, pc, line, chain, saved, done, lines, user, sets>>

\* FreeCommandChain: nothing of the line is carried out.
Reject == /\ pc = "parse" /\ rest # <<>> /\ ~Accepts(line.type, Head(rest))
          /\ pc' = "idle" /\ rest' = <<>> /\ chain' = <<>>
          /\ UNCHANGED <<ratio, rules, line, saved, done, lines, user, sets>>

Parsed == pc = "parse" /\ rest = <<>>
Flags == {chain[i].flag : i \in 1 .. Len(chain)}

AddRule == /\ Parsed /\ line.type = "rule"
           /\ rules' = IF Flags \cap Filter # {} /\ Flags \cap Property # {} THEN rules + 1 ELSE rules
           /\ pc' = "idle" /\ chain' = <<>>
           /\ UNCHANGED <<ratio, line, rest, saved, done, lines, user, sets>>

Run == /\ Parsed /\ line.type # "rule"
       /\ pc' = "run" /\ saved' = ratio
       /\ UNCHANGED <<ratio, rules, line, rest, chain, done, lines, user, sets>>

----
(* Running.                                                                 *)
NextCommand == /\ pc = "run" /\ chain # <<>>
               /\ chain' = Tail(chain) /\ done' = Append(done, Head(chain))
               /\ UNCHANGED <<rules, pc, line, rest, saved, lines, user, sets>>

IsTemporaryRatio == line.type = "window" /\ Head(chain).flag = "r"

TemporaryRatio == NextCommand /\ IsTemporaryRatio /\ ratio' = RatioOf[Head(chain).arg]

OtherCommand == NextCommand /\ ~IsTemporaryRatio /\ UNCHANGED ratio

\* A fault: the ratio is not restored.
FaultFinish == /\ pc = "run" /\ chain = <<>>
               /\ pc' = "idle"
               /\ UNCHANGED <<ratio, rules, line, rest, chain, saved, done, lines, user, sets>>
Finish == /\ pc = "run" /\ chain = <<>>
          /\ ratio' = IF line.type = "window" THEN saved ELSE ratio
          /\ pc' = "idle"
          /\ UNCHANGED <<rules, line, rest, chain, saved, done, lines, user, sets>>

CommandCallback == \/ \E l \in Line : Receive(l)
                   \/ ParseOption \/ Reject \/ AddRule \/ Run
                   \/ TemporaryRatio \/ OtherCommand \/ Finish

\* core::set bsp_split_ratio, on the thread of the daemon.
SetRatio(r) == /\ sets < MaxSets
               /\ pc # "idle" => SetMeanwhile
               /\ ratio' = r /\ user' = r /\ sets' = sets + 1
               /\ UNCHANGED <<rules, command>>

Next == CommandCallback \/ \E a \in DOMAIN RatioOf : SetRatio(RatioOf[a])
Spec == Init /\ [][Next]_vars

----
(* Properties.                                                              *)
(* A line runs as a whole and in its order, or not at all: when a command   *)
(* of it ran, every option was accepted (CommandCallback parses first).     *)
LinesRunWhole ==
    /\ done # <<>> => \A i \in 1 .. Len(line.options) : Accepts(line.type, line.options[i])
    /\ pc = "run" => done \o chain = line.options

(* A temporary ratio lasts for one line: afterwards bsp_split_ratio is what *)
(* the user set it to (CommandCallback saves and restores it).              *)
RatioIsRestored == pc = "idle" => ratio = user

(* README.md of the plugin gives every option a short flag.                 *)
ShortFlagsAccepted ==
    \A l \in Line : \A i \in 1 .. Len(l.options) :
        <<l.options[i].flag, l.options[i].arg>> \in Accepted(l.type) => Accepts(l.type, l.options[i])
====
