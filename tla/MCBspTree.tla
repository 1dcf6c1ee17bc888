------------------------------ MODULE MCBspTree ------------------------------
(* Instances of BspTree: layouts as they are read from a file, and windows  *)
(* that are exchangeable.                                                  *)
EXTENDS BspTree

WindowSymmetry == Permutations(Window)

(* "root", "left_leaf", "right_root", "left_leaf", "right_leaf"            *)
SpiralLayout == {<<>>, <<"left">>, <<"right">>, <<"right", "left">>, <<"right", "right">>}

NoLayout == {{}}
MCLayouts == {{}, SpiralLayout}
====
