------------------------------ MODULE MCDesktops ------------------------------
(* A small instance of Desktops: two displays, one of which has two         *)
(* desktops; a window of a running application, one of an application that  *)
(* is launched, and a sheet.                                                *)
EXTENDS Desktops

CONSTANTS w1, w2, w3, d1, d2, s1, s2, s3

MCDisplayOf == [s \in Space |-> IF s = s3 THEN d2 ELSE d1]
Op(op, who) == [op |-> op, who |-> who]
ARule(w, state, desktop) == [window |-> w, state |-> state, desktop |-> desktop]
MCRule == {ARule(w1, "float", None), ARule(w2, "tile", None), ARule(w1, "", s2)}
MCCommand == {Op("float", None), Op("float next", None), Op("desktop", s2), Op("desktop", s3),
              Op("monitor", d2), Op("layout", "float"), Op("layout", "bsp")}
             \cup {Op("rule", r) : r \in Rule}
====
