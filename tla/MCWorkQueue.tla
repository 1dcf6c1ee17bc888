---------------------------- MODULE MCWorkQueue ----------------------------
(* The bound of the model-checking run of WorkQueue.                       *)
EXTENDS WorkQueue

(* What the code does after the ring has been overrun is the subject of the *)
(* run WorkQueue_assertion only.                                            *)
UntilOverrun == ~overrun
====
