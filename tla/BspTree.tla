------------------------------- MODULE BspTree -------------------------------
(***************************************************************************)
(* The window tree of one virtual space in bsp mode (plugins/tiling): the   *)
(* nodes, their pointers, and the operations of plugin.mm, node.cpp and    *)
(* controller.cpp that change them.  Each of these holds the lock of the   *)
(* virtual space, so it is one step.                                       *)
(*                                                                         *)
(* heap holds the nodes that are allocated; a node that is freed is no     *)
(* longer in its domain, and its address can be allocated again.  The      *)
(* regions, the splits and the ratios of nodes are left out: they do not   *)
(* decide which nodes there are, rotation and mirroring apart, where the   *)
(* nodes whose children are swapped are chosen freely.                     *)
(*                                                                         *)
(* A layout (deserialization) is a tree of pseudo-leafs that windows fill  *)
(* one at a time.  The file that is configured does not change: Init picks *)
(* a layout, the set of the positions of its nodes as paths from the root, *)
(* which is empty when no layout is configured.                            *)
(***************************************************************************)
EXTENDS Naturals, FiniteSets, SequencesExt

CONSTANTS Window, NoWindow,
          Root, Pseudo,   \* Node_Root and Node_PseudoLeaf, in place of a window
          MaxNode,        \* bound on the nodes allocated at once
          SpawnLeft,      \* CVAR_BSP_SPAWN_LEFT
          Layouts         \* what may be configured as TreeLayout

ASSUME BspAssumption == /\ Root \notin Window
                        /\ Pseudo \notin Window \union {Root}
                        /\ MaxNode \in Nat
                        /\ SpawnLeft \in BOOLEAN
                        /\ IsFiniteSet(Window)

Node == 1..MaxNode
Null == 0
NoPreselect == [node |-> Null, left |-> FALSE, stale |-> FALSE]

VARIABLES vs,      \* the virtual space: its Tree, TreeLayout and Preselect, the nodes, and
                   \* how it crashed
          mode,    \* whether its Mode is Virtual_Space_Bsp
          tiled    \* history: the windows that the operations so far should leave tiled

vars == <<vs, mode, tiled>>

Init == /\ \E layout \in Layouts :
               vs = [tree |-> Null, layout |-> layout, heap |-> << >>, preselect |-> NoPreselect,
                     crash |-> "no"]
        /\ mode = "bsp"
        /\ tiled = {}

----
(* The nodes of a virtual space v (node.cpp)                               *)

IsLeafNode(v, n) == v.heap[n].win # Root

Child(n) == IF n = Null THEN <<>> ELSE <<n>>

Children(v, n) == Child(v.heap[n].left) \o Child(v.heap[n].right)

(* The nodes under Tree, in the order in which std::queue meets them: the   *)
(* queue, nothing taken out, after i nodes have been visited.              *)
BreadthFirst(v) ==
    LET queue[i \in 0..MaxNode] ==
            IF i = 0 THEN <<v.tree>>
            ELSE LET met == queue[i - 1]
                 IN IF i > Len(met) THEN met ELSE met \o Children(v, met[i])
    IN IF v.tree = Null THEN <<>> ELSE queue[MaxNode]

TreeNodes(v) == ToSet(BreadthFirst(v))

(* The first of them that passes a test.                                   *)
FirstNode(v, Test(_)) ==
    LET nodes == BreadthFirst(v)
        found == SelectInSeq(nodes, Test)
    IN IF found = 0 THEN Null ELSE nodes[found]

GetFirstMinDepthLeafNode(v) == FirstNode(v, LAMBDA n : IsLeafNode(v, n))

GetFirstMinDepthPseudoLeafNode(v) == FirstNode(v, LAMBDA n : v.heap[n].win = Pseudo)

(* The leaf nodes that are met: not those below a leaf, where only         *)
(* pseudo-leafs can be.                                                    *)
Leaves(v) ==
    LET nodes == TreeNodes(v)
        below == UNION {ToSet(Children(v, n)) : n \in {m \in nodes : IsLeafNode(v, m)}}
    IN {n \in nodes \ below : IsLeafNode(v, n)}

(* From left to right: GetFirstLeafNode, GetNextLeafNode.                  *)
LeafNodes(v) ==
    LET Below(n) == IF IsLeafNode(v, n) THEN <<n>> ELSE Children(v, n)
        Descend(nodes, level) == FlattenSeq([i \in DOMAIN nodes |-> Below(nodes[i])])
    IN IF v.tree = Null THEN <<>>
       ELSE FoldLeft(Descend, <<v.tree>>, [level \in 1..(MaxNode \div 2) |-> level])

GetAllWindowsInTree(v) == [i \in DOMAIN LeafNodes(v) |-> v.heap[LeafNodes(v)[i]].win]

WindowsInTree(v) == {v.heap[n].win : n \in Leaves(v)}

GetNodeWithId(v, w) == LET found == {n \in Leaves(v) : v.heap[n].win = w}
                       IN IF found = {} THEN Null ELSE CHOOSE n \in found : TRUE

Record(w, parent) == [win |-> w, parent |-> parent, left |-> Null, right |-> Null, zoom |-> Null]

With(heap, n, record) == [m \in DOMAIN heap \union {n} |-> IF m = n THEN record ELSE heap[m]]

(* The addresses that k allocations return.                                *)
Fresh(v, k) == CHOOSE new \in [1..k -> Node \ DOMAIN v.heap] : IsInjective(new)

(* Whether the nodes of the model suffice for k more windows.              *)
Room(v, k) ==
    LET first == IF k = 0 THEN {0} ELSE {2 * k - 1, Cardinality(v.layout)}
        new == IF v.tree # Null THEN 2 * k ELSE Max(first)
    IN Cardinality(DOMAIN v.heap) + new <= MaxNode

Free(v, nodes) == [v EXCEPT !.heap = [n \in DOMAIN v.heap \ nodes |-> v.heap[n]],
                            !.preselect.stale = @ \/ v.preselect.node \in nodes]

(* What Op makes of v, for one element of s after the other.               *)
InTurn(Op(_, _), v, s) ==
    LET after[i \in 0..Len(s)] == IF i = 0 THEN v ELSE Op(after[i - 1], s[i])
    IN after[Len(s)]

----
(* Tiling and untiling a window (plugin.mm)                                *)

(* CreateRootNode *)
CreateRoot(v, w) == LET n == Fresh(v, 1)[1]
                    IN [v EXCEPT !.tree = n, !.heap = With(v.heap, n, Record(w, Null))]

(* DeserializeNodeFromBuffer, of a layout whose nodes have these positions. *)
Position == [layout \in Layouts |-> SetToSeq(layout)]

CreateLayout(v) ==
    LET position == Position[v.layout]
        fresh == Fresh(v, Len(position))
        At(path) == IF path \in v.layout THEN fresh[CHOOSE i \in DOMAIN position : position[i] = path]
                    ELSE Null
        Created(path) == [win |-> Pseudo,
                          parent |-> IF path = <<>> THEN Null ELSE At(Front(path)),
                          left |-> At(Append(path, "left")),
                          right |-> At(Append(path, "right")),
                          zoom |-> Null]
    IN [v EXCEPT !.tree = At(<<>>),
                 !.heap = [n \in DOMAIN v.heap \union ToSet(fresh) |->
                              IF n \in DOMAIN v.heap THEN v.heap[n]
                              ELSE Created(CHOOSE path \in v.layout : At(path) = n)]]

(* AssignNodeIds *)
LeftId(existing, new, left)  == IF left THEN new ELSE existing
RightId(existing, new, left) == IF left THEN existing ELSE new

(* CreateLeafNodePair and CreateLeafNodePairPreselect *)
CreateLeafNodePair(v, p, w, left) ==
    LET new == Fresh(v, 2)
        existing == v.heap[p].win
        split == [v.heap EXCEPT ![p] = [@ EXCEPT !.win = Root, !.left = new[1], !.right = new[2]]]
    IN [v EXCEPT !.heap = With(With(split, new[1], Record(LeftId(existing, w, left), p)),
                               new[2], Record(RightId(existing, w, left), p))]

(* Fault: the parent of the pseudo-leafs keeps its window. *)
FillPseudoLeaf_KeepParent(v, n, w) ==
    LET p == v.heap[n].parent
        existing == v.heap[p].win
    IN IF p = Null THEN [v EXCEPT !.heap[n].win = w]
       ELSE [v EXCEPT !.heap = [v.heap EXCEPT
                ![v.heap[p].left].win = LeftId(existing, w, SpawnLeft),
                ![v.heap[p].right].win = RightId(existing, w, SpawnLeft)]]

(* A pair of pseudo-leafs takes the window of its parent and the new one.  *)
FillPseudoLeaf(v, n, w) ==
    LET p == v.heap[n].parent
        existing == v.heap[p].win
    IN IF p = Null THEN [v EXCEPT !.heap[n].win = w]
       ELSE [v EXCEPT !.heap = [v.heap EXCEPT
                ![p].win = Root,
                ![v.heap[p].left].win = LeftId(existing, w, SpawnLeft),
                ![v.heap[p].right].win = RightId(existing, w, SpawnLeft)]]

ResetZoom(v) == [v EXCEPT !.heap[v.tree].zoom = Null]

(* CreateLeafNodePairPreselect and FreePreselectNode.  To split a node that *)
(* has been freed since writes to memory the tree does not own.            *)
SplitPreselected(v, w) ==
    IF v.preselect.stale THEN [v EXCEPT !.crash = "freed"]
    ELSE [CreateLeafNodePair(v, v.preselect.node, w, v.preselect.left)
            EXCEPT !.preselect = NoPreselect]

(* Fault: whether the window is tiled already is not asked. *)
Exists_Never(v, w) == FALSE

Exists(v, w) == w \in WindowsInTree(v)

(* TileWindowOnSpace; point is the insertion point.                        *)
TileWindowOnSpace(v, w, point) ==
    LET at == GetNodeWithId(v, point)
        pseudo == GetFirstMinDepthPseudoLeafNode(v)
        leaf == IF at = Null THEN GetFirstMinDepthLeafNode(v) ELSE at
    IN CASE v.tree = Null ->
              IF v.layout = {} THEN CreateRoot(v, w)
              ELSE LET u == CreateLayout(v) IN [u EXCEPT !.heap[u.tree].win = w]
         [] v.tree # Null /\ Exists(v, w) -> v
         [] v.tree # Null /\ ~Exists(v, w) /\ v.preselect # NoPreselect ->
              ResetZoom(SplitPreselected(v, w))
         [] OTHER ->
              IF pseudo # Null THEN FillPseudoLeaf(v, pseudo, w)
              ELSE ResetZoom(CreateLeafNodePair(v, leaf, w, SpawnLeft))

(* The nodes when parent p takes over what its child r holds.              *)
TakeOver(v, p, r, zoom) ==
    [m \in DOMAIN v.heap |->
        CASE m = p -> [v.heap[r] EXCEPT !.parent = v.heap[p].parent, !.zoom = zoom]
          [] m \in ToSet(Children(v, r)) -> [v.heap[m] EXCEPT !.parent = p]
          [] OTHER -> v.heap[m]]

Sibling(v, n) == LET p == v.heap[v.heap[n].parent] IN IF p.right = n THEN p.left ELSE p.right

(* Fault: the window that remains keeps its node. *)
ReplaceParent_Leak(v, n) ==
    LET p == v.heap[n].parent
    IN Free([v EXCEPT !.heap = TakeOver(v, p, Sibling(v, n), Null)], {n})

(* Fault: the children of the remaining node keep their parent. *)
ReplaceParent_OldParent(v, n) ==
    LET p == v.heap[n].parent
        r == Sibling(v, n)
    IN Free([v EXCEPT !.heap[p] = TakeOver(v, p, r, Null)[p]], {n, r})

(* Fault: the zoom of the parent is not reset. *)
ReplaceParent_KeepZoom(v, n) ==
    LET p == v.heap[n].parent
        r == Sibling(v, n)
    IN Free([v EXCEPT !.heap = TakeOver(v, p, r, v.heap[p].zoom)], {n, r})

(* The parent of an untiled node takes the place of the sibling, which is  *)
(* freed together with the node.                                           *)
ReplaceParent(v, n) ==
    LET p == v.heap[n].parent
        r == Sibling(v, n)
    IN Free([v EXCEPT !.heap = TakeOver(v, p, r, Null)], {n, r})

(* UntileWindowFromSpace; of the last window only its own node is freed.   *)
UntileWindowFromSpace(v, w) ==
    LET n == GetNodeWithId(v, w)
        u == IF v.heap[v.tree].zoom = n THEN ResetZoom(v) ELSE v
    IN CASE n = Null -> v
         [] n # Null /\ v.heap[n].parent # Null -> ReplaceParent(u, n)
         [] OTHER -> [Free(v, {n}) EXCEPT !.tree = Null]

(* FreeNodeTree *)
FreeNodeTree(v) == [Free(v, TreeNodes(v)) EXCEPT !.tree = Null]

(* CreateWindowTreeForSpaceWithWindows and its variant for a layout: one    *)
(* window after the other; neither looks at the preselection.              *)
AddWindow(v, w) ==
    LET pseudo == GetFirstMinDepthPseudoLeafNode(v)
    IN CASE v.tree = Null -> CreateRoot(v, w)
         [] v.tree # Null /\ pseudo # Null -> FillPseudoLeaf(v, pseudo, w)
         [] OTHER -> CreateLeafNodePair(v, GetFirstMinDepthLeafNode(v), w, SpawnLeft)

CreateWindowTree(v, windows) ==
    IF windows = <<>> THEN v
    ELSE InTurn(AddWindow, IF v.tree = Null /\ v.layout # {} THEN CreateLayout(v) ELSE v, windows)

----
(* The operations                                                          *)

Running == vs.crash = "no"
InBsp == Running /\ mode = "bsp"

Points == Window \union {NoWindow}

(* Lists of windows, as GetAllVisibleWindowsForSpace returns them.         *)
Lists(windows) == UNION {SetToSeqs(s) : s \in SUBSET windows}

(* TileWindow; point is CVAR_BSP_INSERTION_POINT or the focused window.    *)
TileWindow(w) ==
    /\ InBsp
    /\ w \in WindowsInTree(vs) \/ Room(vs, 1)
    /\ \E point \in Points : vs' = TileWindowOnSpace(vs, w, point)
    /\ tiled' = tiled \union {w}
    /\ UNCHANGED mode

(* UntileWindow, also for a window that is floated, minimized or destroyed. *)
UntileWindow(w) ==
    /\ InBsp
    /\ vs.tree # Null
    /\ vs' = UntileWindowFromSpace(vs, w)
    /\ tiled' = tiled \ {w}
    /\ UNCHANGED mode

(* RebalanceWindowTreeForSpaceWithWindows: of the windows in the tree those *)
(* in gone are no longer visible, and those in added are tiled.  A visible *)
(* window is not added when it is floating, unknown or invalid, or the     *)
(* display has started to change spaces.                                   *)
RebalanceWindowTree ==
    /\ InBsp
    /\ vs.tree # Null
    /\ \E gone \in SUBSET WindowsInTree(vs) : \E toRemove \in SetToSeqs(gone) :
        LET u == InTurn(UntileWindowFromSpace, vs, toRemove)
        IN /\ toRemove = SelectSeq(GetAllWindowsInTree(vs), LAMBDA w : w \in gone)
           /\ \E added \in Lists(Window \ WindowsInTree(vs)), point \in Points \ gone :
                LET Tile(v, w) == TileWindowOnSpace(v, w, point)
                IN /\ Room(u, Len(added))
                   /\ added = <<>> => point = NoWindow
                   /\ vs' = InTurn(Tile, u, added)
                   /\ tiled' = (tiled \ gone) \union ToSet(added)
    /\ UNCHANGED mode

(* SpaceAndDisplayChangedHandler without a tree, and CreateWindowTree when  *)
(* the plugin starts.                                                      *)
SpaceAndDisplayChanged(windows) ==
    /\ InBsp
    /\ vs.tree = Null
    /\ windows # <<>>
    /\ Room(vs, Len(windows))
    /\ vs' = CreateWindowTree(vs, windows)
    /\ tiled' = ToSet(windows)
    /\ UNCHANGED mode

(* SwapNodeIds *)
SwapNodeIds(v, a, b) == [v EXCEPT !.heap = [v.heap EXCEPT ![a].win = v.heap[b].win,
                                                          ![b].win = v.heap[a].win]]

(* SwapWindow, with any other window of the tree as the closest one.       *)
SwapWindow(w, closest) ==
    /\ InBsp
    /\ {w, closest} \subseteq WindowsInTree(vs)
    /\ w # closest
    /\ vs' = SwapNodeIds(vs, GetNodeWithId(vs, w), GetNodeWithId(vs, closest))
    /\ UNCHANGED <<mode, tiled>>

(* WarpWindow.  The focused window need not be tiled, and the display may   *)
(* have started to change spaces when the window is to be tiled again.     *)
WarpWindow(w, closest) ==
    /\ InBsp
    /\ closest \in WindowsInTree(vs)
    /\ w # closest
    /\ LET a == GetNodeWithId(vs, w)
           b == GetNodeWithId(vs, closest)
           u == UntileWindowFromSpace(vs, w)
       IN CASE a = Null -> vs' = [vs EXCEPT !.crash = "WindowNode"]
            [] a # Null /\ vs.heap[a].parent = vs.heap[b].parent -> vs' = SwapNodeIds(vs, a, b)
            [] OTHER -> vs' \in {[u EXCEPT !.crash = "FocusedNode"],
                                 TileWindowOnSpace(u, w, closest)}
    /\ UNCHANGED <<mode, tiled>>

Focused(w) == InBsp /\ w \in WindowsInTree(vs)

ToggleWindowFullscreenZoom(w) ==
    /\ Focused(w)
    /\ LET n == GetNodeWithId(vs, w)
           p == vs.heap[n].parent
           u == IF p # Null /\ vs.heap[p].zoom = n THEN [vs EXCEPT !.heap[p].zoom = Null] ELSE vs
       IN vs' = IF vs.heap[vs.tree].zoom = n THEN ResetZoom(vs)
                ELSE [u EXCEPT !.heap[vs.tree].zoom = n]
    /\ UNCHANGED <<mode, tiled>>

ToggleWindowParentZoom(w) ==
    /\ Focused(w)
    /\ LET n == GetNodeWithId(vs, w)
           p == vs.heap[n].parent
           u == IF vs.heap[vs.tree].zoom = n THEN ResetZoom(vs) ELSE vs
       IN /\ p # Null
          /\ vs' = IF vs.heap[p].zoom = n THEN [vs EXCEPT !.heap[p].zoom = Null]
                   ELSE [u EXCEPT !.heap[p].zoom = n]
    /\ UNCHANGED <<mode, tiled>>

(* UseInsertionPoint; a direction counts as left (west, north) or right.   *)
(* The same direction at the same node again, or "cancel", ends it.        *)
UseInsertionPoint(w) ==
    /\ Focused(w)
    /\ LET n == GetNodeWithId(vs, w)
       IN \E left \in BOOLEAN, cancel \in BOOLEAN :
            LET same == vs.preselect.node = n /\ vs.preselect.left = left
            IN vs' = [vs EXCEPT !.preselect =
                        IF cancel \/ same THEN NoPreselect
                        ELSE [node |-> n, left |-> left, stale |-> FALSE]]
    /\ UNCHANGED <<mode, tiled>>

(* RotateWindowTree and MirrorWindowTree swap the children of the nodes     *)
(* with some split; the former also those of a leaf.                       *)
RotateOrMirrorTree ==
    /\ InBsp
    /\ \E nodes \in SUBSET {n \in TreeNodes(vs) : /\ Children(vs, n) # <<>>
                                                 /\ IsLeafNode(vs, n) => n \in Leaves(vs)} :
        vs' = [vs EXCEPT !.heap = [n \in DOMAIN vs.heap |->
                IF n \in nodes
                THEN [vs.heap[n] EXCEPT !.left = vs.heap[n].right, !.right = vs.heap[n].left]
                ELSE vs.heap[n]]]
    /\ UNCHANGED <<mode, tiled>>

(* ActivateSpaceLayout, to another mode and back.                          *)
LeaveBsp ==
    /\ InBsp
    /\ vs' = FreeNodeTree(vs)
    /\ mode' = "other"
    /\ tiled' = {}

EnterBsp(windows) ==
    /\ Running
    /\ mode = "other"
    /\ Room(vs, Len(windows))
    /\ vs' = CreateWindowTree(vs, windows)
    /\ mode' = "bsp"
    /\ tiled' = ToSet(windows)

(* DeserializeDesktop *)
DeserializeDesktop(windows) ==
    /\ InBsp
    /\ vs.layout # {}
    /\ LET freed == FreeNodeTree(vs)
       IN /\ Room(freed, Len(windows) + 1)
          /\ vs' = CreateWindowTree(CreateLayout(freed), windows)
    /\ tiled' = ToSet(windows)
    /\ UNCHANGED mode

Next == \/ \E w \in Window : \/ TileWindow(w)
                             \/ UntileWindow(w)
                             \/ ToggleWindowFullscreenZoom(w)
                             \/ ToggleWindowParentZoom(w)
                             \/ UseInsertionPoint(w)
        \/ \E w, closest \in Window : SwapWindow(w, closest) \/ WarpWindow(w, closest)
        \/ \E windows \in Lists(Window) : \/ SpaceAndDisplayChanged(windows)
                                          \/ EnterBsp(windows)
                                          \/ DeserializeDesktop(windows)
        \/ RebalanceWindowTree
        \/ RotateOrMirrorTree
        \/ LeaveBsp

Spec == Init /\ [][Next]_vars

----
Pointer == Node \union {Null}

TypeOK ==
    /\ DOMAIN vs.heap \subseteq Node
    /\ vs.heap \in [DOMAIN vs.heap -> [win : Window \union {Root, Pseudo}, parent : Pointer,
                                       left : Pointer, right : Pointer, zoom : Pointer]]
    /\ vs.tree \in DOMAIN vs.heap \union {Null}
    /\ vs.preselect \in [node : Pointer, left : BOOLEAN, stale : BOOLEAN]
    /\ vs.crash \in {"no", "WindowNode", "FocusedNode", "freed"}
    /\ mode \in {"bsp", "other"}
    /\ tiled \subseteq Window

(***************************************************************************)
(* "The binary-tree is always proper" (node.cpp): every node has two       *)
(* children or none, they point back to it, no node is reached twice, and  *)
(* what is below a leaf is a layout that no window has filled.             *)
(***************************************************************************)
ProperTree ==
    /\ IsInjective(BreadthFirst(vs))
    /\ vs.tree # Null => vs.heap[vs.tree].parent = Null
    /\ \A n \in TreeNodes(vs) :
        LET kids == ToSet(Children(vs, n))
        IN /\ Cardinality(kids) \in {0, 2}
           /\ \A k \in kids : /\ k \in DOMAIN vs.heap
                              /\ vs.heap[k].parent = n
                              /\ IsLeafNode(vs, n) <=> vs.heap[k].win = Pseudo
           /\ ~IsLeafNode(vs, n) => kids # {}

(***************************************************************************)
(* No operation loses a window or tiles one twice: the leaves hold each    *)
(* window that was tiled and not untiled since, once, and no other.        *)
(***************************************************************************)
EachWindowOnce ==
    Running => \A w \in Window : Cardinality({n \in Leaves(vs) : vs.heap[n].win = w})
                                    = IF w \in tiled THEN 1 ELSE 0

(***************************************************************************)
(* A node holds the parent-zoom of a child of its own, whatever was split, *)
(* merged, swapped or rotated since.  (The zoom of the root node is the    *)
(* fullscreen-zoom, see NoDanglingZoom.)                                   *)
(***************************************************************************)
ParentZoomIsChild ==
    \A n \in TreeNodes(vs) \ {vs.tree} :
        vs.heap[n].zoom # Null => vs.heap[n].zoom \in ToSet(Children(vs, n))

(***************************************************************************)
(* A node is not in fullscreen-zoom and in parent-zoom at once.            *)
(***************************************************************************)
OneZoom ==
    \A n \in TreeNodes(vs) \ {vs.tree} :
        LET p == vs.heap[n].parent
        IN vs.heap[vs.tree].zoom = n /\ p # vs.tree => vs.heap[p].zoom # n

(***************************************************************************)
(* Unless it was freed, the preselected node is a leaf that holds a window: *)
(* nobody else has split it.                                               *)
(***************************************************************************)
PreselectIsLeaf ==
    vs.preselect # NoPreselect /\ ~vs.preselect.stale
        => vs.preselect.node \in Leaves(vs) /\ vs.heap[vs.preselect.node].win \in Window

(***************************************************************************)
(* What the operations keep in a node besides the tree itself, the zooms   *)
(* and the preselection, points where the operations that use it expect.   *)
(***************************************************************************)
PointersAreSound == TypeOK /\ ParentZoomIsChild /\ OneZoom /\ PreselectIsLeaf

(***************************************************************************)
(* Without layouts no node leaks: all that is allocated is in the tree.    *)
(***************************************************************************)
NoLeak == vs.layout = {} => DOMAIN vs.heap = TreeNodes(vs)

(***************************************************************************)
(* "The window was in fullscreen-zoom. We need to null the pointer to      *)
(* prevent a potential bug." (plugin.mm): Tree->Zoom is NULL or a node     *)
(* that exists.                                                            *)
(***************************************************************************)
NoDanglingZoom == vs.tree # Null => vs.heap[vs.tree].zoom \in TreeNodes(vs) \union {Null}

(***************************************************************************)
(* "If the desktop has an active preselection, the window is placed here." *)
(* (plugin.mm): a window is never placed in a node that was freed.         *)
(***************************************************************************)
PreselectPlacesWindow == vs.crash # "freed"

(***************************************************************************)
(* ASSERT(WindowNode) in WarpWindow: the focused window is in the tree.    *)
(***************************************************************************)
WarpFindsWindow == vs.crash # "WindowNode"

(***************************************************************************)
(* ASSERT(FocusedNode) in WarpWindow: the window is in the tree afterwards. *)
(***************************************************************************)
WarpKeepsWindow == vs.crash # "FocusedNode"
====
