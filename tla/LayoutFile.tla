------------------------------ MODULE LayoutFile ------------------------------
(***************************************************************************)
(* The file that stores the layout of a desktop (plugins/tiling/node.cpp): *)
(* SerializeNodeToBuffer writes a window tree as a list of tokens, and     *)
(* DeserializeNodeFromBuffer reads them back, one token at a time, with    *)
(* Current as the node under construction.                                 *)
(*                                                                         *)
(* A tree that is saved is given by the paths of its nodes from the root;  *)
(* splits and ratios are left out, and so is the size of the buffer.       *)
(***************************************************************************)
EXTENDS Naturals, FiniteSets, SequencesExt

CONSTANT Depth   \* bound on the depth of the trees that are saved

Side == {"left", "right"}
Null == 0

(* Every tree whose nodes have two children or none.                       *)
Below(side, tree) == {<<side>> \o path : path \in tree}
ProperTrees ==
    LET trees[d \in 0..Depth] ==
            {{<<>>}} \union
            (IF d = 0 THEN {}
             ELSE {{<<>>} \union Below("left", l) \union Below("right", r) :
                      l \in trees[d - 1], r \in trees[d - 1]})
    IN trees[Depth]

IsLeaf(tree, path) == Append(path, "left") \notin tree

VARIABLES saved,     \* the tree that was written
          tokens,    \* what is still to be read
          nodes,     \* the nodes allocated so far; the first is Tree
          current    \* Current

vars == <<saved, tokens, nodes, current>>

----
(* SerializeRootNode: a node comes before its left and then its right       *)
(* subtree, so the paths are in lexical order.                             *)
Precedes(p, q) ==
    \/ IsStrictPrefix(p, q)
    \/ \E i \in DOMAIN p \intersect DOMAIN q :
        /\ SubSeq(p, 1, i - 1) = SubSeq(q, 1, i - 1)
        /\ p[i] = "left" /\ q[i] = "right"

Serialize(tree) ==
    LET Rank(path) == Cardinality({p \in tree : Precedes(p, path)})
        Token(path) == [side |-> Last(path), kind |-> IF IsLeaf(tree, path) THEN "leaf" ELSE "root"]
    IN [i \in 1..(Cardinality(tree) - 1) |-> Token(CHOOSE path \in tree : Rank(path) = i)]

(* The node of the token "root" is there before the others are read.       *)
NewNode(parent) == [parent |-> parent, left |-> Null, right |-> Null]

Init == /\ saved \in ProperTrees \ {{<<>>}}
        /\ tokens = Serialize(saved)
        /\ nodes = <<NewNode(Null)>>
        /\ current = 1

----
(* DeserializeNodeFromBuffer                                               *)

New == Len(nodes) + 1

Attach(side) == Append([nodes EXCEPT ![current][side] = New], NewNode(current))

(* "left_root" and "right_root"                                            *)
ReadRoot(side) ==
    /\ tokens # <<>> /\ Head(tokens) = [side |-> side, kind |-> "root"]
    /\ nodes' = Attach(side)
    /\ current' = New
    /\ tokens' = Tail(tokens)
    /\ UNCHANGED saved

(* "left_leaf"                                                             *)
ReadLeftLeaf ==
    /\ tokens # <<>> /\ Head(tokens) = [side |-> "left", kind |-> "leaf"]
    /\ nodes' = Attach("left")
    /\ tokens' = Tail(tokens)
    /\ UNCHANGED <<saved, current>>

(* Fault: a right leaf does not end its parent. *)
ReadRightLeaf_Stay ==
    /\ tokens # <<>> /\ Head(tokens) = [side |-> "right", kind |-> "leaf"]
    /\ nodes' = Attach("right")
    /\ tokens' = Tail(tokens)
    /\ UNCHANGED <<saved, current>>

(* Fault: a right leaf ends its parent and the node above. *)
ReadRightLeaf_Twice ==
    /\ tokens # <<>> /\ Head(tokens) = [side |-> "right", kind |-> "leaf"]
    /\ nodes' = Attach("right")
    /\ LET p == nodes[current].parent IN current' = IF p = Null THEN Null ELSE nodes[p].parent
    /\ tokens' = Tail(tokens)
    /\ UNCHANGED saved

(* "right_leaf": "we are done with this node"                              *)
ReadRightLeaf ==
    /\ tokens # <<>> /\ Head(tokens) = [side |-> "right", kind |-> "leaf"]
    /\ nodes' = Attach("right")
    /\ current' = nodes[current].parent
    /\ tokens' = Tail(tokens)
    /\ UNCHANGED saved

Next == \/ \E side \in Side : ReadRoot(side)
        \/ ReadLeftLeaf
        \/ ReadRightLeaf

Spec == Init /\ [][Next]_vars

----
(* The paths from Tree to the nodes that can be reached.                   *)
Child(n, side) == nodes[n][side]
NodeAt(path) == FoldLeft(LAMBDA n, side : IF n = Null THEN Null ELSE Child(n, side), 1, path)
ReadTree ==
    LET Extend(paths, d) ==
            paths \union {Append(p, s) : p \in {q \in paths : Len(q) = d - 1}, s \in Side}
    IN {p \in FoldLeft(Extend, {<<>>}, [d \in 1..Depth |-> d]) : NodeAt(p) # Null}

Done == tokens = <<>>

(* A right subtree that ends below a left one.                             *)
EndsEarly(tree) ==
    \E path \in tree : /\ ~IsLeaf(tree, path)
                       /\ path # <<>> /\ Last(path) = "right"
                       /\ "left" \in ToSet(path)

TypeOK ==
    /\ current \in 0..Len(nodes)
    /\ \A n \in DOMAIN nodes :
        /\ nodes[n].parent \in 0..(n - 1)
        /\ \A side \in Side : Child(n, side) \in {Null} \union ((n + 1)..Len(nodes))

(***************************************************************************)
(* While there are tokens left, Current is a node: what was written never  *)
(* makes the reader attach a node to NULL.                                 *)
(***************************************************************************)
CurrentIsNode == tokens # <<>> => current # Null

(***************************************************************************)
(* The reader keeps to the nodes it has created: Current is one of them,   *)
(* and each of them points to an earlier parent and to later children.     *)
(***************************************************************************)
ReaderIsSound == TypeOK /\ CurrentIsNode

(***************************************************************************)
(* A layout in which no right subtree ends below a left one is read back   *)
(* as it was saved.                                                        *)
(***************************************************************************)
ReadBack == Done /\ ~EndsEarly(saved) => ReadTree = saved

(***************************************************************************)
(* "the binary-tree is always proper" (GetFirstMinDepthLeafNode): a layout *)
(* that was saved and read has no node with one child.                     *)
(***************************************************************************)
AlwaysProper == Done => \A n \in DOMAIN nodes : Child(n, "left") = Null <=> Child(n, "right") = Null
====
