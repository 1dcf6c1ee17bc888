------------------------------- MODULE Regions -------------------------------
(***************************************************************************)
(* plugins/tiling/region.cpp, the direction search of controller.cpp and   *)
(* what the tree-wide commands of controller.cpp do to the tree of a       *)
(* desktop in bsp mode: pure functions of a tree.                          *)
(*                                                                         *)
(* A node is a record.  That of a leaf has a window and no children; every *)
(* node stores its region, and a change of split or ratio reaches the      *)
(* regions only when a function of region.cpp is called.  Distances are    *)
(* natural numbers and ratios numbers out of Whole, so a product is        *)
(* rounded; the rest goes to the second child, which makes the sum exact   *)
(* as it is with Ratio and 1 - Ratio.                                      *)
(***************************************************************************)
EXTENDS Integers, FiniteSets, SequencesExt

CONSTANTS Window, None,
          Display,   \* the rectangle of the display
          MenuBar,   \* the height of the menu bar, 0 when it hides
          Bar,       \* the four offsets of a status bar
          Dock       \* side and size of the dock on this display

Whole == 120
Rect(x, y, w, h) == [x |-> x, y |-> y, w |-> w, h |-> h]
Leaf(w) == [window |-> w, split |-> "none", ratio |-> 0, left |-> None, right |-> None,
            region |-> Rect(0, 0, 0, 0), type |-> "full"]
Node(split, ratio, left, right) ==
    [Leaf(None) EXCEPT !.split = split, !.ratio = ratio, !.left = left, !.right = right]

IsLeafNode(n) == n.window # None
Other(split) == IF split = "vertical" THEN "horizontal" ELSE "vertical"

RECURSIVE LeafNodes(_), Windows(_), PathTo(_, _), Subtree(_, _), Put(_, _, _)
\* GetFirstLeafNode and GetNextLeafNode: the leafs from left to right.
LeafNodes(n) == IF IsLeafNode(n) THEN <<n>> ELSE LeafNodes(n.left) \o LeafNodes(n.right)
Windows(n) == {LeafNodes(n)[i].window : i \in 1 .. Len(LeafNodes(n))}
PathTo(n, w) == IF IsLeafNode(n) THEN <<>>
                ELSE IF w \in Windows(n.left) THEN <<"left">> \o PathTo(n.left, w)
                ELSE <<"right">> \o PathTo(n.right, w)
Subtree(n, path) == IF path = <<>> THEN n ELSE Subtree(n[Head(path)], Tail(path))
Put(n, path, m) == IF path = <<>> THEN m
                   ELSE [n EXCEPT ![Head(path)] = Put(@, Tail(path), m)]
GetNodeWithId(tree, w) == Subtree(tree, PathTo(tree, w))

----
(* region.cpp                                                               *)
Shrink(r, left, top, right, bottom) ==
    Rect(r.x + left, r.y + top, r.w - left - right, r.h - top - bottom)

ConstrainRegion(r) ==
    LET below == Shrink(r, 0, MenuBar, 0, 0)
        inner == Shrink(below, Bar.left, Bar.top, Bar.right, Bar.bottom)
        dock == [side \in {"left", "right", "bottom"} |-> IF Dock.side = side THEN Dock.size ELSE 0]
    IN Shrink(inner, dock["left"], 0, dock["right"], dock["bottom"])

\* An offset is None, or paddings and a gap.
FullscreenRegion(offset) ==
    IF offset = None THEN ConstrainRegion(Display)
    ELSE Shrink(ConstrainRegion(Display), offset.left, offset.top, offset.right, offset.bottom)

HalfGap(offset) == IF offset = None THEN 0 ELSE offset.gap \div 2
Part(length, ratio) == (length * ratio) \div Whole

LeftVerticalRegion(n, offset) ==
    [n.region EXCEPT !.w = Part(@, n.ratio) - HalfGap(offset)]
RightVerticalRegion(n, offset) ==
    LET left == Part(n.region.w, n.ratio)
    IN [n.region EXCEPT !.x = @ + left + HalfGap(offset), !.w = @ - left - HalfGap(offset)]
UpperHorizontalRegion(n, offset) ==
    [n.region EXCEPT !.h = Part(@, n.ratio) - HalfGap(offset)]
LowerHorizontalRegion(n, offset) ==
    LET upper == Part(n.region.h, n.ratio)
    IN [n.region EXCEPT !.y = @ + upper + HalfGap(offset), !.h = @ - upper - HalfGap(offset)]

\* The region of a child of a node, by the type of region.
CreateNodeRegion(child, type, parent, offset) ==
    [child EXCEPT !.type = type,
                  !.region = CASE type = "full"  -> FullscreenRegion(offset)
                               [] type = "left"  -> LeftVerticalRegion(parent, offset)
                               [] type = "right" -> RightVerticalRegion(parent, offset)
                               [] type = "upper" -> UpperHorizontalRegion(parent, offset)
                               [] type = "lower" -> LowerHorizontalRegion(parent, offset)]

CreateNodeRegionPair(n, offset) ==
    LET types == IF n.split = "vertical" THEN <<"left", "right">> ELSE <<"upper", "lower">>
    IN [n EXCEPT !.left = CreateNodeRegion(@, types[1], n, offset),
                 !.right = CreateNodeRegion(@, types[2], n, offset)]

RECURSIVE ResizeNodeRegion(_, _), CreateNodeRegionRecursive(_, _)
\* The types that the regions have are kept, whatever the split is.
ResizeNodeRegion(n, offset) ==
    IF IsLeafNode(n) THEN n
    ELSE [n EXCEPT !.left = ResizeNodeRegion(CreateNodeRegion(@, @.type, n, offset), offset),
                   !.right = ResizeNodeRegion(CreateNodeRegion(@, @.type, n, offset), offset)]

CreateNodeRegionRecursive(n, offset) ==
    IF IsLeafNode(n) THEN n
    ELSE LET m == CreateNodeRegionPair(n, offset)
         IN [m EXCEPT !.left = CreateNodeRegionRecursive(@, offset),
                      !.right = CreateNodeRegionRecursive(@, offset)]

CreateRootRegion(tree, offset) ==
    CreateNodeRegionRecursive(CreateNodeRegion(tree, "full", None, offset), offset)

----
(* FindClosestWindow and FindWindowUndirected.  Which of the windows in the *)
(* direction is the nearest is left open; with Wrap the centre of a window  *)
(* behind is moved by the size of the display, so it is in the direction.   *)
Direction == {"north", "east", "south", "west"}

\* Twice the centre, which stays a whole number.
Centre(r) == [x |-> 2 * r.x + r.w, y |-> 2 * r.y + r.h]
Overlap(a, la, b, lb) == a < b + lb /\ b < a + la

WindowIsInDirection(direction, a, b) ==
    IF direction \in {"north", "south"} THEN a.y # b.y /\ Overlap(a.x, a.w, b.x, b.w)
    ELSE a.x # b.x /\ Overlap(a.y, a.h, b.y, b.h)

\* GetWindowDistance is finite and so less than 0xFFFFFFFF.
GetWindowDistance(direction, a, b, wrap) ==
    LET p == Centre(a) q == Centre(b)
    IN CASE direction = "north" -> q.y < p.y \/ (wrap /\ q.y > p.y)
         [] direction = "east"  -> q.x > p.x \/ (wrap /\ q.x < p.x)
         [] direction = "south" -> q.y > p.y \/ (wrap /\ q.y < p.y)
         [] direction = "west"  -> q.x < p.x \/ (wrap /\ q.x > p.x)

FindClosestWindow(tree, w, direction, wrap) ==
    LET a == GetNodeWithId(tree, w).region
    IN {v \in Windows(tree) \ {w} :
            LET b == GetNodeWithId(tree, v).region
            IN WindowIsInDirection(direction, a, b) /\ GetWindowDistance(direction, a, b, wrap)}

Area(n) == n.region.w * n.region.h
\* The first leaf that no other exceeds.
GetBiggestLeafNode(tree) ==
    LET leafs == LeafNodes(tree)
        i == CHOOSE i \in 1 .. Len(leafs) :
                /\ \A j \in 1 .. Len(leafs) : Area(leafs[j]) <= Area(leafs[i])
                /\ \A j \in 1 .. i - 1 : Area(leafs[j]) < Area(leafs[i])
    IN leafs[i]

FindWindowUndirected(tree, w, direction, wrap) ==
    LET leafs == LeafNodes(tree)
        i == CHOOSE i \in 1 .. Len(leafs) : leafs[i].window = w
    IN CASE direction = "prev" /\ (i > 1 \/ wrap) -> {leafs[IF i > 1 THEN i - 1 ELSE Len(leafs)].window}
         [] direction = "next" /\ (i < Len(leafs) \/ wrap) ->
                {leafs[IF i < Len(leafs) THEN i + 1 ELSE 1].window}
         [] direction = "biggest" -> {GetBiggestLeafNode(tree).window}
         [] OTHER -> {}

Candidates(tree, w, direction, wrap) ==
    IF direction \in Direction THEN FindClosestWindow(tree, w, direction, wrap)
    ELSE FindWindowUndirected(tree, w, direction, wrap)

----
(* What the commands of controller.cpp do to the tree.                      *)
\* A fault: the regions keep the types they had.
FaultToggleWindowSplitMode(tree, w, offset) ==
    LET path == Front(PathTo(tree, w))
        parent == Subtree(tree, path)
    IN IF IsLeafNode(tree) THEN tree
       ELSE Put(tree, path, ResizeNodeRegion([parent EXCEPT !.split = Other(@)], offset))
ToggleWindowSplitMode(tree, w, offset) ==
    LET path == Front(PathTo(tree, w))
        parent == Subtree(tree, path)
    IN IF IsLeafNode(tree) THEN tree
       ELSE Put(tree, path, CreateNodeRegionRecursive([parent EXCEPT !.split = Other(@)], offset))

AdjustWindowRatio(tree, w, closest, step, offset) ==
    LET path == LongestCommonPrefix({PathTo(tree, w), PathTo(tree, closest)})
        ancestor == Subtree(tree, path)
        ratio == ancestor.ratio + (IF w \in Windows(ancestor.left) THEN step ELSE -step)
    IN IF ratio \in 12 .. 108
       THEN Put(tree, path, ResizeNodeRegion([ancestor EXCEPT !.ratio = ratio], offset))
       ELSE tree

SwapNodeIds(tree, w, v) ==
    LET p == PathTo(tree, w) q == PathTo(tree, v)
    IN Put(Put(tree, p, [Subtree(tree, p) EXCEPT !.window = v]),
           q, [Subtree(tree, q) EXCEPT !.window = w])

RECURSIVE FaultRotateBSPTree(_, _), RotateBSPTree(_, _), MirrorBSPTree(_, _), EqualizeNodeTree(_, _), FaultEqualizeNodeTree(_, _)
Turns(n, degrees) == \/ degrees = "90" /\ n.split = "vertical"
                     \/ degrees = "270" /\ n.split = "horizontal"
                     \/ degrees = "180"
\* A fault: children change places and the ratio stays.
FaultRotateBSPTree(n, degrees) ==
    IF IsLeafNode(n) THEN n
    ELSE LET left == FaultRotateBSPTree(n.left, degrees)
             right == FaultRotateBSPTree(n.right, degrees)
             split == IF degrees = "180" THEN n.split ELSE Other(n.split)
         IN IF Turns(n, degrees)
            THEN [n EXCEPT !.left = right, !.right = left, !.split = split]
            ELSE [n EXCEPT !.left = left, !.right = right, !.split = split]
RotateBSPTree(n, degrees) ==
    IF IsLeafNode(n) THEN n
    ELSE LET left == RotateBSPTree(n.left, degrees)
             right == RotateBSPTree(n.right, degrees)
             split == IF degrees = "180" THEN n.split ELSE Other(n.split)
         IN IF Turns(n, degrees)
            THEN [n EXCEPT !.left = right, !.right = left, !.split = split, !.ratio = Whole - @]
            ELSE [n EXCEPT !.left = left, !.right = right, !.split = split]
RotateWindowTree(tree, degrees, offset) ==
    CreateNodeRegionRecursive(RotateBSPTree(tree, degrees), offset)

MirrorBSPTree(n, axis) ==
    IF IsLeafNode(n) THEN n
    ELSE LET left == MirrorBSPTree(n.left, axis)
             right == MirrorBSPTree(n.right, axis)
         IN IF n.split = axis THEN [n EXCEPT !.left = right, !.right = left]
            ELSE [n EXCEPT !.left = left, !.right = right]
MirrorWindowTree(tree, axis, offset) == CreateNodeRegionRecursive(MirrorBSPTree(tree, axis), offset)

\* The tree, and how many leafs it has along each axis; above is the split of
\* the parent.  A fault: what was counted along an axis is counted again above.
FaultEqualizeNodeTree(n, above) ==
    LET one == [axis \in {"vertical", "horizontal"} |-> IF above = axis THEN 1 ELSE 0]
    IN IF IsLeafNode(n) THEN [tree |-> n, count |-> one]
       ELSE LET left == FaultEqualizeNodeTree(n.left, n.split)
                right == FaultEqualizeNodeTree(n.right, n.split)
                total == [axis \in DOMAIN one |-> left.count[axis] + right.count[axis]]
            IN [tree |-> [n EXCEPT !.left = left.tree, !.right = right.tree,
                                   !.ratio = (Whole * left.count[n.split]) \div total[n.split]],
                count |-> [axis \in DOMAIN one |-> total[axis] + one[axis]]]
EqualizeNodeTree(n, above) ==
    LET one == [axis \in {"vertical", "horizontal"} |-> IF above = axis THEN 1 ELSE 0]
    IN IF IsLeafNode(n) THEN [tree |-> n, count |-> one]
       ELSE LET left == EqualizeNodeTree(n.left, n.split)
                right == EqualizeNodeTree(n.right, n.split)
                total == [axis \in DOMAIN one |-> left.count[axis] + right.count[axis]]
            IN [tree |-> [n EXCEPT !.left = left.tree, !.right = right.tree,
                                   !.ratio = (Whole * left.count[n.split]) \div total[n.split]],
                count |-> [axis \in DOMAIN one |->
                              total[axis] - (IF n.split = axis THEN 1 ELSE 0) + one[axis]]]
EqualizeWindowTree(tree, offset) ==
    ResizeNodeRegion(EqualizeNodeTree(tree, "none").tree, offset)
====
