----------------------------- MODULE EventLoop -----------------------------
(***************************************************************************)
(* core/dispatch/event.cpp: the queue through which every thread of        *)
(* chunkwm hands work to the one thread that runs the event handlers.      *)
(*                                                                         *)
(* A critical section under EventLoop.Lock never blocks, so each is one    *)
(* action.  Everything else the code does to shared state outside the lock *)
(* (the test of Running, sem_post, sem_wait) is an action of its own.      *)
(* Running is a plain bool read without the lock; it is modelled as a      *)
(* variable whose reads and writes are atomic.                             *)
(*                                                                         *)
(* An element of Event is one call of AddEvent (each call has a Context of *)
(* its own), so an event is added at most once.  ConstructEvent always     *)
(* passes a handler: the test of Event.Handle never fails and is left out. *)
(***************************************************************************)
EXTENDS Naturals, Sequences

CONSTANTS Event,        \* the calls of AddEvent made during the run
          None,         \* not an event
          Thread,       \* threads that may call AddEvent, the two below included
          MainThread,   \* the one that starts (and could stop) the loop
          EventThread,  \* the one StartEventLoop creates
          MaxLeftover   \* bound on the initial value of the named semaphore

ASSUME EventLoopAssumption ==
    /\ None \notin Event
    /\ MainThread \in Thread
    /\ EventThread \in Thread
    /\ MainThread # EventThread
    /\ MaxLeftover \in Nat

VARIABLES running,    \* EventLoop.Running
          queue,      \* EventLoop.Queue
          semaphore,  \* value of EventLoop.Semaphore
          add,        \* where each thread is inside AddEvent
          main,       \* where the main thread is inside Start/StopEventLoop
          pc,         \* where the event thread is inside ProcessEventQueue
          hasWork,    \* its local HasWork
          current,    \* its local Event while (*Event.Handle)(&Event) runs
          added       \* the calls of AddEvent made so far

loopVars == <<pc, hasWork, current>>
vars == <<running, queue, semaphore, add, main, pc, hasWork, current, added>>

(***************************************************************************)
(* The semaphore is named and never unlinked: sem_open(.., O_CREAT, .., 0) *)
(* uses the initial value only when the name is new, so a previous run may *)
(* have left any value behind.                                             *)
(***************************************************************************)
Init == /\ running = FALSE
        /\ queue = <<>>
        /\ semaphore \in 0 .. MaxLeftover
        /\ add = [t \in Thread |-> "out"]
        /\ main = "out"
        /\ pc = "none"
        /\ hasWork = FALSE
        /\ current = None
        /\ added = {}

----
(* AddEvent *)

(* A thread can call AddEvent when it runs code of its own: the main       *)
(* thread outside Start/StopEventLoop, the event thread inside a handler.  *)
CanCall(t) == /\ add[t] = "out"
              /\ t = MainThread => main = "out"
              /\ t = EventThread => pc = "handle"

(* Fault: the event is pushed at the wrong end. *)
AddEventPush_AtFront(t, e) ==
    /\ CanCall(t)
    /\ e \notin added
    /\ queue' = <<e>> \o queue
    /\ added' = added \union {e}
    /\ add' = [add EXCEPT ![t] = "test"]
    /\ UNCHANGED <<running, semaphore, main, loopVars>>

AddEventPush(t, e) ==
    /\ CanCall(t)
    /\ e \notin added
    /\ queue' = Append(queue, e)
    /\ added' = added \union {e}
    /\ add' = [add EXCEPT ![t] = "test"]
    /\ UNCHANGED <<running, semaphore, main, loopVars>>

(* Fault: post only when the event thread is seen waiting. *)
AddEventTestRunning_IfWaiting(t) ==
    /\ add[t] = "test"
    /\ add' = [add EXCEPT ![t] = IF running /\ pc = "wait" THEN "post" ELSE "out"]
    /\ UNCHANGED <<running, queue, semaphore, main, loopVars, added>>

AddEventTestRunning(t) ==
    /\ add[t] = "test"
    /\ add' = [add EXCEPT ![t] = IF running THEN "post" ELSE "out"]
    /\ UNCHANGED <<running, queue, semaphore, main, loopVars, added>>

AddEventPost(t) ==
    /\ add[t] = "post"
    /\ semaphore' = semaphore + 1
    /\ add' = [add EXCEPT ![t] = "out"]
    /\ UNCHANGED <<running, queue, main, loopVars, added>>

----
(* StartEventLoop and StopEventLoop, on the main thread *)

StartSetRunning ==
    /\ main = "out"
    /\ add[MainThread] = "out"
    /\ ~running
    /\ running' = TRUE
    /\ main' = "create"
    /\ UNCHANGED <<queue, semaphore, add, loopVars, added>>

StartCreateThread ==
    /\ main = "create"
    /\ main' = "out"
    /\ pc' = "loop"
    /\ UNCHANGED <<running, queue, semaphore, add, hasWork, current, added>>

StopClearRunning ==
    /\ main = "out"
    /\ add[MainThread] = "out"
    /\ running
    /\ running' = FALSE
    /\ main' = "join"
    /\ UNCHANGED <<queue, semaphore, add, loopVars, added>>

StopJoin ==
    /\ main = "join"
    /\ pc = "none"
    /\ main' = "out"
    /\ UNCHANGED <<running, queue, semaphore, add, loopVars, added>>

----
(* ProcessEventQueue, on the event thread *)

(* Fault: wait before the queue is looked at for the first time. *)
LoopTestRunning_WaitFirst ==
    /\ pc = "loop"
    /\ pc' = IF running THEN "wait" ELSE "none"
    /\ UNCHANGED <<running, queue, semaphore, add, main, hasWork, current, added>>

LoopTestRunning ==
    /\ pc = "loop"
    /\ pc' = IF running THEN "check" ELSE "none"
    /\ UNCHANGED <<running, queue, semaphore, add, main, hasWork, current, added>>

CheckWork ==
    /\ pc = "check"
    /\ hasWork' = (queue # <<>>)
    /\ pc' = IF hasWork' THEN "take" ELSE "wait"
    /\ UNCHANGED <<running, queue, semaphore, add, main, current, added>>

(* Fault: HasWork is computed before the pop. *)
TakeEvent_TestBeforePop ==
    /\ pc = "take"
    /\ queue # <<>>
    /\ current' = Head(queue)
    /\ queue' = Tail(queue)
    /\ hasWork' = (queue # <<>>)
    /\ pc' = "handle"
    /\ UNCHANGED <<running, semaphore, add, main, added>>

(* queue.front() and queue.pop() on an empty std::queue are undefined; that *)
(* this action never meets one is the property TakeFindsEvent.              *)
TakeEvent ==
    /\ pc = "take"
    /\ queue # <<>>
    /\ current' = Head(queue)
    /\ queue' = Tail(queue)
    /\ hasWork' = (queue' # <<>>)
    /\ pc' = "handle"
    /\ UNCHANGED <<running, semaphore, add, main, added>>

HandlerReturns ==
    /\ pc = "handle"
    /\ add[EventThread] = "out"
    /\ current' = None
    /\ pc' = IF hasWork THEN "take" ELSE "wait"
    /\ UNCHANGED <<running, queue, semaphore, add, main, hasWork, added>>

(* Fault: decrement without waiting. *)
WaitSemaphore_Try ==
    /\ pc = "wait"
    /\ semaphore' = semaphore - 1
    /\ pc' = "loop"
    /\ UNCHANGED <<running, queue, add, main, hasWork, current, added>>

WaitSemaphore ==
    /\ pc = "wait"
    /\ semaphore > 0
    /\ semaphore' = semaphore - 1
    /\ pc' = "loop"
    /\ UNCHANGED <<running, queue, add, main, hasWork, current, added>>

----
AddEvent(t) == \/ \E e \in Event : AddEventPush(t, e)
               \/ AddEventTestRunning(t)
               \/ AddEventPost(t)

ProcessEventQueue == \/ LoopTestRunning
                     \/ CheckWork
                     \/ TakeEvent
                     \/ HandlerReturns
                     \/ WaitSemaphore

Next == \/ \E t \in Thread : AddEvent(t)
        \/ StartSetRunning
        \/ StartCreateThread
        \/ StopClearRunning
        \/ StopJoin
        \/ ProcessEventQueue

Spec == Init /\ [][Next]_vars

(***************************************************************************)
(* Every thread is scheduled, and handlers return.  No thread has to call  *)
(* AddEvent, but one that did finishes the call; the main thread calls     *)
(* StartEventLoop on its only path to the run loop (chunkwm.mm, main).     *)
(***************************************************************************)
FairSpec == /\ Spec
            /\ \A t \in Thread : /\ WF_vars(AddEventTestRunning(t))
                                 /\ WF_vars(AddEventPost(t))
            /\ WF_vars(StartSetRunning)
            /\ WF_vars(StartCreateThread)
            /\ WF_vars(StopJoin)
            /\ WF_vars(ProcessEventQueue)

----
TypeOK == /\ running \in BOOLEAN
          /\ queue \in Seq(Event)
          /\ semaphore \in Nat
          /\ add \in [Thread -> {"out", "test", "post"}]
          /\ main \in {"out", "create", "join"}
          /\ pc \in {"none", "loop", "check", "take", "handle", "wait"}
          /\ hasWork \in BOOLEAN
          /\ current \in Event \union {None}
          /\ added \subseteq Event

(***************************************************************************)
(* The event thread only takes from a queue that has something in it, even *)
(* though it decided to take in an earlier critical section (at CheckWork  *)
(* or at the previous TakeEvent) and dropped the lock in between.          *)
(***************************************************************************)
TakeFindsEvent == pc = "take" => queue # <<>>

(* The event thread has decided that it will wait next.                    *)
GoingToWait == pc = "wait" \/ (pc = "handle" /\ ~hasWork)

(***************************************************************************)
(* No lost wakeup: once the event thread has seen an empty queue and is on *)
(* its way into sem_wait, an event in the queue of a running loop is       *)
(* always covered by a positive semaphore or by a thread inside AddEvent   *)
(* that has still to post, however the unsynchronised test of Running      *)
(* interleaves with StartEventLoop.                                        *)
(***************************************************************************)
NoLostWakeup ==
    running /\ GoingToWait /\ queue # <<>> =>
        semaphore > 0 \/ \E t \in Thread : add[t] \in {"test", "post"}

(***************************************************************************)
(* The inductive invariant behind the two properties above.                *)
(***************************************************************************)
(* Running and the life of the event thread follow Start and StopEventLoop. *)
Phases == /\ main = "create" => running /\ pc = "none"
          /\ main = "join" => ~running
          /\ main = "out" /\ ~running => pc = "none"

(* The event thread runs a handler exactly when it holds an event, and only *)
(* then can it be inside AddEvent.                                          *)
HandlerHoldsEvent == /\ (current # None) <=> (pc = "handle")
                     /\ add[EventThread] # "out" => pc = "handle"

(* A HasWork computed under the lock stays true until the next pop.         *)
WorkRemains == pc = "take" \/ (pc = "handle" /\ hasWork) => queue # <<>>

LoopInv == TypeOK /\ Phases /\ HandlerHoldsEvent /\ WorkRemains /\ NoLostWakeup

(* The loop as a channel: what it delivers, stripped of how.               *)
Channel == INSTANCE EventChannel WITH pending <- queue, current <- current

(***************************************************************************)
(* The loop implements the channel: one handler at a time, first in first  *)
(* out, no event lost or delivered twice.                                  *)
(***************************************************************************)
ImplementsChannel == Channel!Spec

Queued(e) == \E i \in DOMAIN queue : queue[i] = e

(***************************************************************************)
(* Whoever adds an event can rely on its handler being run, whether it was *)
(* added before StartEventLoop (and so without a post), by another thread, *)
(* or from inside a handler, unless StopEventLoop is called.  (That waits   *)
(* for a thread that may sleep; nothing wakes it up.)                      *)
(***************************************************************************)
EveryEventHandled == \A e \in Event : Queued(e) ~> (current = e \/ main = "join")
====
