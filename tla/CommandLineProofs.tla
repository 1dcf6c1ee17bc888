--------------------------- MODULE CommandLineProofs ---------------------------
(***************************************************************************)
(* Proofs about CommandLine, for any lines of any length and any number of *)
(* lines and settings.                                                     *)
(***************************************************************************)
EXTENDS CommandLine, SequenceTheorems, TLAPS

AllAccepted == \A i \in 1 .. Len(line.options) : Accepts(line.type, line.options[i])

Types == /\ pc \in {"idle", "parse", "run"}
         /\ rest \in Seq(Option) /\ chain \in Seq(Option) /\ done \in Seq(Option)
         /\ pc # "idle" => line \in Line

(* What was parsed and what is left make up the line, and so do what ran    *)
(* and what is left to run.                                                 *)
Parsing == pc = "parse" =>
    /\ done = <<>> /\ chain \o rest = line.options
    /\ \A i \in 1 .. Len(chain) : Accepts(line.type, chain[i])
Running == pc = "run" => done \o chain = line.options /\ AllAccepted
Ended == done # <<>> => AllAccepted

LineInv == Types /\ Parsing /\ Running /\ Ended

(* The ratio is what the user set it to, except while a line runs, and then *)
(* that is kept.                                                            *)
RatioInv == /\ pc = "run" => saved = user
            /\ ratio = user \/ (pc = "run" /\ line.type = "window")

(* A line is a record with a sequence of options.                           *)
LEMMA LineFacts ==
    ASSUME NEW l \in Line
    PROVE  l.options \in Seq(Option)
BY LineAssumption

(* Taking the head of a sequence and appending it to another one moves it   *)
(* over: together they stay what they were (ParseOption, NextCommand).      *)
LEMMA MoveHead ==
    ASSUME NEW S, NEW s \in Seq(S), NEW t \in Seq(S), t # <<>>
    PROVE  /\ Append(s, Head(t)) \in Seq(S) /\ Tail(t) \in Seq(S)
           /\ Append(s, Head(t)) # <<>>
           /\ Append(s, Head(t)) \o Tail(t) = s \o t
<1>1. Head(t) \in S /\ Tail(t) \in Seq(S) /\ t = <<Head(t)>> \o Tail(t)
  BY HeadTailProperties, ConcatProperties
<1>2. Append(s, Head(t)) = s \o <<Head(t)>> /\ Append(s, Head(t)) # <<>>
  BY <1>1, AppendIsConcat, AppendProperties
<1>3. (s \o <<Head(t)>>) \o Tail(t) = s \o (<<Head(t)>> \o Tail(t))
  BY <1>1, ConcatAssociative
<1> QED
  BY <1>1, <1>2, <1>3, AppendProperties

(* LineInv holds to begin with.                                             *)
LEMMA LineInit == Init => LineInv
BY DEF Init, LineInv, Types, Parsing, Running, Ended

(* LineInv is kept by every step.                                           *)
LEMMA LineStep ==
    ASSUME LineInv, [Next]_vars
    PROVE  LineInv'
<1> USE DEF LineInv
<1>1. ASSUME NEW l \in Line, Receive(l)
      PROVE  LineInv'
  <2>1. /\ pc' = "parse" /\ line' = l /\ rest' = l.options /\ chain' = <<>> /\ done' = <<>>
        /\ l.options \in Seq(Option)
    BY <1>1, LineFacts DEF Receive
  <2>2. chain' \o rest' = line'.options
    BY <2>1, ConcatEmptySeq
  <2> QED
    BY <2>1, <2>2 DEF Types, Parsing, Running, Ended
<1>2. CASE ParseOption
  <2>1. /\ pc = "parse" /\ rest # <<>> /\ Accepts(line.type, Head(rest))
        /\ chain' = Append(chain, Head(rest)) /\ rest' = Tail(rest)
        /\ pc' = pc /\ line' = line /\ done' = done
    BY <1>2 DEF ParseOption
  <2>2. /\ chain' \in Seq(Option) /\ rest' \in Seq(Option)
        /\ chain' \o rest' = chain \o rest
    BY <2>1, MoveHead DEF Types
  <2>3. \A i \in 1 .. Len(chain') : Accepts(line.type, chain'[i])
    BY <2>1, HeadTailProperties, AppendProperties DEF Types, Parsing
  <2> QED
    BY <2>1, <2>2, <2>3 DEF Types, Parsing, Running, Ended
<1>3. CASE Reject
  BY <1>3 DEF Reject, Types, Parsing, Running, Ended
<1>4. CASE AddRule
  BY <1>4 DEF AddRule, Parsed, Types, Parsing, Running, Ended
<1>5. CASE Run
  <2>1. /\ pc = "parse" /\ rest = <<>> /\ pc' = "run"
        /\ chain' = chain /\ rest' = rest /\ line' = line /\ done' = done
    BY <1>5 DEF Run, Parsed
  <2>2. chain = line.options
    BY <2>1, ConcatEmptySeq DEF Types, Parsing
  <2>3. done' \o chain' = line'.options /\ AllAccepted'
    BY <2>1, <2>2, ConcatEmptySeq DEF Types, Parsing, AllAccepted
  <2> QED
    BY <2>1, <2>3 DEF Types, Parsing, Running, Ended
<1>6. CASE NextCommand
  <2>1. /\ pc = "run" /\ chain # <<>>
        /\ chain' = Tail(chain) /\ done' = Append(done, Head(chain))
        /\ pc' = pc /\ line' = line /\ rest' = rest
    BY <1>6 DEF NextCommand
  <2>2. /\ chain' \in Seq(Option) /\ done' \in Seq(Option)
        /\ done' \o chain' = done \o chain
    BY <2>1, MoveHead DEF Types
  <2> QED
    BY <2>1, <2>2 DEF Types, Parsing, Running, Ended, AllAccepted
<1>7. CASE Finish
  BY <1>7 DEF Finish, Types, Parsing, Running, Ended, AllAccepted
<1>8. CASE UNCHANGED <<rules, command>>
  BY <1>8 DEF command, Types, Parsing, Running, Ended, AllAccepted
<1> QED
  BY <1>1, <1>2, <1>3, <1>4, <1>5, <1>6, <1>7, <1>8
  DEF Next, CommandCallback, TemporaryRatio, OtherCommand, SetRatio, vars

(* A line runs as a whole and in its order, or not at all (CommandCallback  *)
(* parses all of it before the first command runs).                         *)
THEOREM LinesAlwaysRunWhole == Spec => []LinesRunWhole
<1>1. LineInv => LinesRunWhole
  BY DEF LineInv, Running, Ended, AllAccepted, LinesRunWhole
<1>2. LineInv /\ [Next]_vars => LineInv'
  BY LineStep
<1> QED
  BY <1>1, <1>2, LineInit, PTL DEF Spec

(* Every step keeps RatioInv when variables are only set between lines.     *)
LEMMA RatioStep ==
    ASSUME ~SetMeanwhile, LineInv, RatioInv, [Next]_vars
    PROVE  RatioInv'
<1> USE DEF LineInv, RatioInv
<1>1. CASE \/ \E l \in Line : Receive(l)
           \/ ParseOption \/ Reject \/ AddRule
  BY <1>1 DEF Receive, ParseOption, Reject, AddRule, Parsed
<1>2. CASE Run
  BY <1>2 DEF Run, Parsed
<1>3. CASE TemporaryRatio \/ OtherCommand
  BY <1>3 DEF TemporaryRatio, OtherCommand, NextCommand, IsTemporaryRatio
<1>4. CASE Finish
  BY <1>4 DEF Finish
<1>5. CASE \E a \in DOMAIN RatioOf : SetRatio(RatioOf[a])
  BY <1>5 DEF SetRatio, command
<1>6. CASE UNCHANGED vars
  BY <1>6 DEF vars, command
<1> QED
  BY <1>1, <1>2, <1>3, <1>4, <1>5, <1>6 DEF Next, CommandCallback

(* A temporary ratio lasts for one line, unless the daemon sets the         *)
(* variable while the line is handled (CommandCallback).                    *)
THEOREM RatioIsAlwaysRestored ==
    ASSUME ~SetMeanwhile
    PROVE  Spec => []RatioIsRestored
<1>1. Init => RatioInv
  BY DEF Init, RatioInv
<1>2. LineInv /\ RatioInv /\ [Next]_vars => RatioInv'
  BY RatioStep
<1>3. RatioInv => RatioIsRestored
  BY DEF RatioInv, RatioIsRestored
<1>4. LineInv /\ [Next]_vars => LineInv'
  BY LineStep
<1> QED
  BY <1>1, <1>2, <1>3, <1>4, LineInit, PTL DEF Spec
====
