---------------------------- MODULE TilingCommands ----------------------------
(***************************************************************************)
(* The commands of plugins/tiling/config.cpp and controller.cpp against    *)
(* the tree of a desktop.  A line is parsed, run and ended by CommandLine; *)
(* here each command does to the tree, the offset and the focus what the   *)
(* code does.                                                              *)
(*                                                                         *)
(* The desktop is in bsp mode and has a tree, and there is one display.    *)
(***************************************************************************)
EXTENDS Regions, CommandLine

CONSTANTS Tree,        \* the trees to begin with
          Conf,        \* paddings and gap of the desktop, as configured
          PaddingStep, GapStep,
          Wrap         \* whether window_focus_cycle wraps

ASSUME DesktopAssumption == Wrap \in BOOLEAN /\ WindowId \subseteq Window /\ DefaultRatio = Whole \div 2

VARIABLES tree, offset, \* VirtualSpace->Tree, ->_Offset and whether ->Offset points to it
          focused       \* the focused window, or None

desktop == <<tree, offset, focused>>

Offset == IF offset.on THEN offset.conf ELSE None

DesktopInit == /\ Init
               /\ offset = [conf |-> Conf, on |-> TRUE]
               /\ tree \in {CreateRootRegion(t, Offset) : t \in Tree}
               /\ focused \in Windows(tree) \cup {None}

----
(* Parsing and the end of a line change nothing of the desktop.             *)
BeforeAndAfter ==
    /\ \/ \E l \in Line : Receive(l)
       \/ ParseOption \/ Reject \/ AddRule \/ Run \/ Finish
    /\ UNCHANGED desktop

----
(* The commands.  Those that other modules describe change nothing here.    *)
Executes(type, flag) == NextCommand /\ line.type = type /\ Head(chain).flag = flag
arg == Head(chain).arg

NoFocusCandidate ==
    CASE arg \in {"prev", "west", "north"} -> {Last(LeafNodes(tree)).window}
      [] arg \in {"next", "east", "south"} -> {Head(LeafNodes(tree)).window}
      [] OTHER -> {}
FocusWindow ==
    /\ Executes("window", "f")
    /\ LET found == IF arg \in Window THEN {arg} \cap Windows(tree)
                    ELSE IF focused # None THEN Candidates(tree, focused, arg, Wrap)
                    ELSE NoFocusCandidate
       IN IF found = {} THEN UNCHANGED focused ELSE focused' \in found
    /\ UNCHANGED <<tree, offset, ratio>>

SwapWindow ==
    /\ Executes("window", "s")
    /\ LET found == IF focused = None THEN {} ELSE Candidates(tree, focused, arg, FALSE)
       IN IF found = {} THEN UNCHANGED tree
          ELSE \E closest \in found : tree' = SwapNodeIds(tree, focused, closest)
    /\ UNCHANGED <<offset, focused, ratio>>

AdjustWindowEdge ==
    /\ Executes("window", "e")
    /\ LET found == IF focused = None THEN {} ELSE FindClosestWindow(tree, focused, arg, FALSE)
       IN IF found = {} THEN UNCHANGED tree
          ELSE \E closest \in found :
                   tree' = AdjustWindowRatio(tree, focused, closest, ratio, Offset)
    /\ UNCHANGED <<offset, focused, ratio>>

\* A fault: without a focused window the rest of the line is dropped.
FaultToggleWindow ==
    /\ pc = "run" /\ chain # <<>> /\ line.type = "window" /\ Head(chain).flag = "t"
    /\ chain' = IF focused = None THEN <<>> ELSE Tail(chain)
    /\ done' = Append(done, Head(chain))
    /\ tree' = IF arg = "split" /\ focused # None
               THEN ToggleWindowSplitMode(tree, focused, Offset) ELSE tree
    /\ UNCHANGED <<offset, focused, ratio, rules, pc, line, rest, saved, lines, user, sets>>
ToggleWindow ==
    /\ Executes("window", "t")
    /\ tree' = IF arg = "split" /\ focused # None
               THEN ToggleWindowSplitMode(tree, focused, Offset) ELSE tree
    /\ UNCHANGED <<offset, focused, ratio>>

UseTemporaryRatio == TemporaryRatio /\ UNCHANGED desktop

Rotate == /\ Executes("desktop", "r")
          /\ tree' = RotateWindowTree(tree, arg, Offset)
          /\ UNCHANGED <<offset, focused, ratio>>

Mirror == /\ Executes("desktop", "m")
          /\ tree' = MirrorWindowTree(tree, arg, Offset)
          /\ UNCHANGED <<offset, focused, ratio>>

Equalize == /\ Executes("desktop", "e")
            /\ tree' = EqualizeWindowTree(tree, Offset)
            /\ UNCHANGED <<offset, focused, ratio>>

\* The offset changes, and all regions are made anew.
Recreate == /\ tree' = CreateRootRegion(tree, Offset')
            /\ UNCHANGED <<focused, ratio>>

ToggleSpace == /\ Executes("desktop", "t")
               /\ offset' = [offset EXCEPT !.on = ~@]
               /\ Recreate

AdjustSpacePadding ==
    /\ Executes("desktop", "p")
    /\ LET delta == IF arg = "dec" THEN -PaddingStep ELSE PaddingStep
           new == [side \in DOMAIN offset.conf |->
                      IF side = "gap" THEN offset.conf[side] ELSE offset.conf[side] + delta]
       IN offset' = IF \A side \in DOMAIN new : new[side] >= 0 THEN [offset EXCEPT !.conf = new] ELSE offset
    /\ Recreate

AdjustSpaceGap ==
    /\ Executes("desktop", "g")
    /\ LET gap == offset.conf.gap + (IF arg = "dec" THEN -GapStep ELSE GapStep)
       IN offset' = IF gap >= 0 THEN [offset EXCEPT !.conf.gap = gap] ELSE offset
    /\ Recreate

Elsewhere ==
    /\ \/ \E flag \in {"w", "i", "d", "m", "c", "g"} : Executes("window", flag)
       \/ \E flag \in {"l", "c", "a", "s", "d", "f", "M"} : Executes("desktop", flag)
       \/ Executes("monitor", "f")
       \/ \E flag \in {"w", "d", "m", "W", "D", "M"} : Executes("query", flag)
    /\ UNCHANGED <<tree, offset, focused, ratio>>

Execute == \/ FocusWindow \/ SwapWindow \/ AdjustWindowEdge \/ ToggleWindow \/ UseTemporaryRatio
           \/ Rotate \/ Mirror \/ Equalize \/ ToggleSpace \/ AdjustSpacePadding \/ AdjustSpaceGap
           \/ Elsewhere
DesktopNext == \/ BeforeAndAfter \/ Execute
               \/ \E a \in DOMAIN RatioOf : SetRatio(RatioOf[a]) /\ UNCHANGED desktop
DesktopSpec == DesktopInit /\ [][DesktopNext]_<<desktop, vars>>

----
(* Properties.                                                              *)
RECURSIVE Ratios(_)
Ratios(n) == IF IsLeafNode(n) THEN {} ELSE {n.ratio} \cup Ratios(n.left) \cup Ratios(n.right)

(* Every variable has a value of its kind; a tree keeps its windows, and no *)
(* command makes a ratio that leaves nothing to one of two children.        *)
TypeOK ==
    /\ pc \in {"idle", "parse", "run"} /\ rules \in 0 .. MaxLines
    /\ offset.on \in BOOLEAN /\ \A side \in DOMAIN offset.conf : offset.conf[side] >= 0
    /\ focused \in Window \cup {None}
    /\ Len(LeafNodes(tree)) = Cardinality(Windows(tree))
    /\ Ratios(tree) \subseteq 12 .. 108
    /\ lines \in 0 .. MaxLines /\ sets \in 0 .. MaxSets

(* Whatever commands were given, the region that each node stores is the    *)
(* one its ancestors' regions, splits, ratios and the offset determine: no  *)
(* command changes one of these and leaves a region below as it was         *)
(* (CreateNodeRegionRecursive, ResizeNodeRegion).                           *)
RegionsAreFresh == tree = CreateRootRegion(tree, Offset)

(* Windows have an area, lie within what the bars and the paddings leave of *)
(* the display, and are apart by the gap of the desktop.                    *)
Apart(a, la, b, lb, gap) == a + la + gap <= b \/ b + lb + gap <= a
WindowsAreApart ==
    LET all == FullscreenRegion(Offset)
        gap == 2 * HalfGap(Offset)
        region == [w \in Windows(tree) |-> GetNodeWithId(tree, w).region]
    IN \A w \in Windows(tree) :
           LET r == region[w]
           IN /\ r.w > 0 /\ r.h > 0 /\ r.x >= all.x /\ r.y >= all.y
              /\ r.x + r.w <= all.x + all.w /\ r.y + r.h <= all.y + all.h
              /\ \A v \in Windows(tree) \ {w} :
                     \/ Apart(r.x, r.w, region[v].x, region[v].w, gap)
                     \/ Apart(r.y, r.h, region[v].y, region[v].h, gap)

(* Both, and the types: after any line of commands the stored regions are   *)
(* those of the tree, and they tile the display (CreateNodeRegionPair).     *)
RegionsAreRight == TypeOK /\ RegionsAreFresh /\ WindowsAreApart

\* The regions in a square, whose sides two divisions by Whole leave whole.
Side == Whole * Whole
InSquare(n) ==
    LET m == CreateNodeRegionRecursive([n EXCEPT !.region = Rect(0, 0, Side, Side)], None)
    IN [w \in Windows(n) |-> GetNodeWithId(m, w).region]
QuarterTurn(r) == Rect(r.y, Side - r.x - r.w, r.h, r.w)

(* RotateBSPTree turns the picture: by 90 degrees every window is where a   *)
(* quarter of a turn takes it, 180 is two of these and 270 undoes one.      *)
RotationIsGeometric == pc = "idle" =>
    LET turned == RotateBSPTree(tree, "90")
    IN /\ InSquare(turned) = [w \in Windows(tree) |-> QuarterTurn(InSquare(tree)[w])]
       /\ RotateBSPTree(tree, "180") = RotateBSPTree(turned, "90")
       /\ RotateBSPTree(turned, "270") = tree

RECURSIVE Splits(_)
Splits(n) == IF IsLeafNode(n) THEN {} ELSE {n.split} \cup Splits(n.left) \cup Splits(n.right)

(* EqualizeNodeTree gives the windows of one row or of one column the same  *)
(* size, however the tree nests them.                                       *)
EqualizedRowIsEven ==
    pc = "idle" /\ Cardinality(Splits(tree)) = 1 =>
        LET regions == InSquare(EqualizeNodeTree(tree, "none").tree)
        IN \A w, v \in Windows(tree) : regions[w].w = regions[v].w /\ regions[w].h = regions[v].h

(* Whatever they do to the desktop, the commands keep to CommandLine: each  *)
(* takes itself off the chain and nothing else, none touches the rules, and *)
(* only a temporary ratio changes the ratio.                                *)
ImplementsCommandLine == Spec

(* Of the documentation: desktop -m mirrors the windows on an axis.         *)
MirrorIsGeometric ==
    InSquare(MirrorBSPTree(tree, "vertical"))
        = [w \in Windows(tree) |-> [InSquare(tree)[w] EXCEPT !.x = Side - @ - InSquare(tree)[w].w]]

(* README.md of the plugin: "equalize size of all windows on desktop".      *)
EqualizedIsEven ==
    LET regions == InSquare(EqualizeNodeTree(tree, "none").tree)
    IN \A w, v \in Windows(tree) : regions[w].w * regions[w].h = regions[v].w * regions[v].h
====
