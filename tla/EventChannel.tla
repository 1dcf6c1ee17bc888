---------------------------- MODULE EventChannel ----------------------------
(***************************************************************************)
(* What the event loop of chunkwm promises to everybody who constructs an  *)
(* event: events are delivered one at a time, in the order in which they   *)
(* were added, and each of them exactly once.  Threads, the mutex, the     *)
(* semaphore and the Running flag do not appear here; EventLoop implements *)
(* this specification.                                                     *)
(***************************************************************************)
EXTENDS Sequences

CONSTANTS Event,  \* the events that may ever be added
          None    \* "no handler is running"

VARIABLES pending,  \* events added and not yet taken, oldest first
          current   \* the event whose handler runs, or None

vars == <<pending, current>>

Init == /\ pending = <<>>
        /\ current = None

Put(e) == /\ pending' = Append(pending, e)
          /\ UNCHANGED current

Begin == /\ current = None
         /\ pending # <<>>
         /\ current' = Head(pending)
         /\ pending' = Tail(pending)

End == /\ current # None
       /\ current' = None
       /\ UNCHANGED pending

Next == \/ \E e \in Event : Put(e)
        \/ Begin
        \/ End

Spec == Init /\ [][Next]_vars
====
