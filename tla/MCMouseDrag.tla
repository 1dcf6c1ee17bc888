----------------------------- MODULE MCMouseDrag -----------------------------
(* A small instance of MouseDrag: two tiled windows and a floating one on    *)
(* one desktop, and a second space that is a desktop or not; the floating    *)
(* window belongs to the application of a tiled one.                         *)
EXTENDS MouseDrag

CONSTANTS w1, w2, w3, s1, s2, a1, a2

MCHomeOf == [w \in Window |-> s1]
MCOwnerOf == [w \in Window |-> IF w = w2 THEN a2 ELSE a1]
====
