-------------------------- MODULE EventLoopProofs --------------------------
(***************************************************************************)
(* Theorems about EventLoop for any number of threads and events, any      *)
(* value left in the semaphore, and with or without StopEventLoop.         *)
(***************************************************************************)
EXTENDS EventLoop, TLAPS

(***************************************************************************)
(* Before StartEventLoop the queue is empty, no thread is inside AddEvent    *)
(* and the semaphore has some value left by an earlier run: all well typed.  *)
(***************************************************************************)
LEMMA TypeInit == Init => TypeOK
<1> SUFFICES ASSUME Init
             PROVE  TypeOK
    OBVIOUS
<1>1. queue \in Seq(Event)
      BY DEF Init
<1>2. semaphore \in Nat
      BY EventLoopAssumption DEF EventLoopAssumption, Init
<1>3. add \in [Thread -> {"out", "test", "post"}]
      BY DEF Init
<1>4. running \in BOOLEAN /\ hasWork \in BOOLEAN
      BY DEF Init
<1>5. QED
      BY <1>1, <1>2, <1>3, <1>4 DEF Init, TypeOK

(***************************************************************************)
(* No step of AddEvent, Start- or StopEventLoop or ProcessEventQueue leaves  *)
(* a variable outside its type; in particular the semaphore stays natural.   *)
(***************************************************************************)
LEMMA TypeStep == TypeOK /\ [Next]_vars => TypeOK'
<1> SUFFICES ASSUME TypeOK, [Next]_vars
             PROVE  TypeOK'
    OBVIOUS
<1> USE EventLoopAssumption DEF EventLoopAssumption, TypeOK
<1>1. ASSUME NEW t \in Thread, AddEvent(t)
      PROVE  TypeOK'
  <2>1. ASSUME NEW e \in Event, AddEventPush(t, e)
        PROVE  TypeOK'
        BY <2>1 DEF AddEventPush, loopVars
  <2>2. CASE AddEventTestRunning(t)
        BY <2>2 DEF AddEventTestRunning, loopVars
  <2>3. CASE AddEventPost(t)
        BY <2>3 DEF AddEventPost, loopVars
  <2>4. QED
        BY <1>1, <2>1, <2>2, <2>3 DEF AddEvent
<1>2. CASE StartSetRunning
      BY <1>2 DEF StartSetRunning, loopVars
<1>3. CASE StartCreateThread
      BY <1>3 DEF StartCreateThread
<1>4. CASE StopClearRunning
      BY <1>4 DEF StopClearRunning, loopVars
<1>5. CASE StopJoin
      BY <1>5 DEF StopJoin, loopVars
<1>6. CASE LoopTestRunning
      BY <1>6 DEF LoopTestRunning
<1>7. CASE CheckWork
      BY <1>7 DEF CheckWork
<1>8. CASE TakeEvent
      BY <1>8 DEF TakeEvent
<1>9. CASE HandlerReturns
      BY <1>9 DEF HandlerReturns
<1>10. CASE WaitSemaphore
      BY <1>10 DEF WaitSemaphore
<1>11. CASE UNCHANGED vars
      BY <1>11 DEF vars, loopVars
<1>12. QED
      BY <1>1, <1>2, <1>3, <1>4, <1>5, <1>6, <1>7, <1>8, <1>9, <1>10, <1>11
      DEF Next, ProcessEventQueue

(***************************************************************************)
(* Every variable of the event loop keeps its type.                        *)
(***************************************************************************)
THEOREM TypeCorrect == Spec => []TypeOK
  BY TypeInit, TypeStep, PTL DEF Spec

----
(***************************************************************************)
(* The inductive invariant holds before the loop is started.                 *)
(***************************************************************************)
LEMMA InvInit == Init => LoopInv
<1> SUFFICES ASSUME Init
             PROVE  LoopInv
    OBVIOUS
<1>1. TypeOK
      BY TypeInit
<1>2. Phases /\ WorkRemains
      BY DEF Init, Phases, WorkRemains
<1>3. HandlerHoldsEvent
      BY EventLoopAssumption DEF EventLoopAssumption, Init, HandlerHoldsEvent
<1>4. NoLostWakeup
      BY DEF Init, NoLostWakeup
<1>5. QED
      BY <1>1, <1>2, <1>3, <1>4 DEF LoopInv

(***************************************************************************)
(* Every step keeps the inductive invariant: one case per action, and under  *)
(* it one step per conjunct that the action can disturb.                     *)
(***************************************************************************)
LEMMA InvStep == LoopInv /\ [Next]_vars => LoopInv'
<1> SUFFICES ASSUME LoopInv, [Next]_vars
             PROVE  LoopInv'
    OBVIOUS
<1>0. TypeOK /\ TypeOK'
      BY TypeStep DEF LoopInv
<1>1. ASSUME NEW t \in Thread, AddEvent(t)
      PROVE  LoopInv'
  <2>1. ASSUME NEW e \in Event, AddEventPush(t, e)
        PROVE  LoopInv'
    <3>1. queue' # <<>>
          BY <1>0, <2>1 DEF AddEventPush, TypeOK
    <3>2. add'[t] = "test"
          BY <1>0, <2>1 DEF AddEventPush, TypeOK
    <3>3. (Phases /\ WorkRemains)'
          BY <2>1, <3>1 DEF AddEventPush, loopVars, LoopInv, Phases, WorkRemains
    <3>4. HandlerHoldsEvent'
          BY <1>0, <2>1 DEF AddEventPush, CanCall, loopVars, LoopInv, TypeOK, HandlerHoldsEvent
    <3>5. NoLostWakeup'
          BY <3>2 DEF NoLostWakeup
    <3>6. QED
          BY <1>0, <3>3, <3>4, <3>5 DEF LoopInv
  <2>2. CASE AddEventTestRunning(t)
    <3>1. (Phases /\ WorkRemains)'
          BY <2>2 DEF AddEventTestRunning, loopVars, LoopInv, Phases, WorkRemains
    <3>2. HandlerHoldsEvent'
          BY <1>0, <2>2 DEF AddEventTestRunning, loopVars, LoopInv, TypeOK, HandlerHoldsEvent
    <3>3. NoLostWakeup'
          BY <1>0, <2>2
          DEF AddEventTestRunning, loopVars, LoopInv, TypeOK, NoLostWakeup, GoingToWait
    <3>4. QED
          BY <1>0, <3>1, <3>2, <3>3 DEF LoopInv
  <2>3. CASE AddEventPost(t)
    <3>1. (Phases /\ WorkRemains)'
          BY <2>3 DEF AddEventPost, loopVars, LoopInv, Phases, WorkRemains
    <3>2. HandlerHoldsEvent'
          BY <1>0, <2>3 DEF AddEventPost, loopVars, LoopInv, TypeOK, HandlerHoldsEvent
    <3>3. NoLostWakeup'
          BY <1>0, <2>3 DEF AddEventPost, TypeOK, NoLostWakeup
    <3>4. QED
          BY <1>0, <3>1, <3>2, <3>3 DEF LoopInv
  <2>4. QED
        BY <1>1, <2>1, <2>2, <2>3 DEF AddEvent
<1>2. CASE StartSetRunning
      BY <1>0, <1>2 DEF StartSetRunning, loopVars, LoopInv, Phases, HandlerHoldsEvent,
                        WorkRemains, NoLostWakeup, GoingToWait
<1>3. CASE StartCreateThread
      BY <1>0, <1>3 DEF StartCreateThread, LoopInv, Phases, HandlerHoldsEvent,
                        WorkRemains, NoLostWakeup, GoingToWait
<1>4. CASE StopClearRunning
      BY <1>0, <1>4 DEF StopClearRunning, loopVars, LoopInv, Phases, HandlerHoldsEvent,
                        WorkRemains, NoLostWakeup, GoingToWait
<1>5. CASE StopJoin
      BY <1>0, <1>5 DEF StopJoin, loopVars, LoopInv, Phases, HandlerHoldsEvent,
                        WorkRemains, NoLostWakeup, GoingToWait
<1>6. CASE LoopTestRunning
      BY <1>0, <1>6 DEF LoopTestRunning, LoopInv, Phases, HandlerHoldsEvent,
                        WorkRemains, NoLostWakeup, GoingToWait
<1>7. CASE CheckWork
      BY <1>0, <1>7 DEF CheckWork, LoopInv, TypeOK, Phases, HandlerHoldsEvent,
                        WorkRemains, NoLostWakeup, GoingToWait
<1>8. CASE TakeEvent
  <2>1. current' # None
        BY <1>0, <1>8, EventLoopAssumption DEF EventLoopAssumption, TakeEvent, TypeOK
  <2>2. HandlerHoldsEvent'
        BY <1>8, <2>1 DEF TakeEvent, HandlerHoldsEvent
  <2>3. (Phases /\ WorkRemains)'
        BY <1>8 DEF TakeEvent, LoopInv, Phases, WorkRemains
  <2>4. NoLostWakeup'
        BY <1>8 DEF TakeEvent, NoLostWakeup, GoingToWait
  <2>5. QED
        BY <1>0, <2>2, <2>3, <2>4 DEF LoopInv
<1>9. CASE HandlerReturns
      BY <1>0, <1>9 DEF HandlerReturns, LoopInv, TypeOK, Phases, HandlerHoldsEvent,
                        WorkRemains, NoLostWakeup, GoingToWait
<1>10. CASE WaitSemaphore
      BY <1>0, <1>10 DEF WaitSemaphore, LoopInv, Phases, HandlerHoldsEvent,
                         WorkRemains, NoLostWakeup, GoingToWait
<1>11. CASE UNCHANGED vars
      BY <1>0, <1>11 DEF vars, loopVars, LoopInv, Phases, HandlerHoldsEvent,
                         WorkRemains, NoLostWakeup, GoingToWait
<1>12. QED
      BY <1>1, <1>2, <1>3, <1>4, <1>5, <1>6, <1>7, <1>8, <1>9, <1>10, <1>11
      DEF Next, ProcessEventQueue

(***************************************************************************)
(* The inductive invariant of the event loop: the phases of the two threads, *)
(* the event that is held, HasWork, and the wakeup that is on its way.       *)
(***************************************************************************)
THEOREM InvCorrect == Spec => []LoopInv
  BY InvInit, InvStep, PTL DEF Spec

(***************************************************************************)
(* queue.front() is never called on an empty queue, although the decision  *)
(* to take and the take are two critical sections.                         *)
(***************************************************************************)
THEOREM TakeIsSafe == Spec => []TakeFindsEvent
<1>1. LoopInv => TakeFindsEvent
      BY DEF LoopInv, WorkRemains, TakeFindsEvent
<1>2. QED
      BY <1>1, InvCorrect, PTL

(***************************************************************************)
(* No interleaving of AddEvent, StartEventLoop and the event thread loses  *)
(* the wakeup for a queued event.                                          *)
(***************************************************************************)
THEOREM WakeupIsSafe == Spec => []NoLostWakeup
<1>1. LoopInv => NoLostWakeup
      BY DEF LoopInv
<1>2. QED
      BY <1>1, InvCorrect, PTL

----
(***************************************************************************)
(* The initial states of the event loop are those of the channel.            *)
(***************************************************************************)
LEMMA ChannelInit == Init => Channel!Init
  BY DEF Init, Channel!Init

(***************************************************************************)
(* Every step of the event loop is a step of the channel or changes neither  *)
(* the queue nor the event that is handled.                                  *)
(***************************************************************************)
LEMMA ChannelStep == LoopInv /\ [Next]_vars => [Channel!Next]_(Channel!vars)
<1> SUFFICES ASSUME LoopInv, [Next]_vars
             PROVE  [Channel!Next]_(Channel!vars)
    OBVIOUS
<1> USE DEF Channel!vars
<1>1. ASSUME NEW t \in Thread, AddEvent(t)
      PROVE  [Channel!Next]_(Channel!vars)
  <2>1. ASSUME NEW e \in Event, AddEventPush(t, e)
        PROVE  Channel!Put(e)
        BY <2>1 DEF AddEventPush, loopVars, Channel!Put
  <2>2. CASE AddEventTestRunning(t) \/ AddEventPost(t)
        BY <2>2 DEF AddEventTestRunning, AddEventPost, loopVars
  <2>3. QED
        BY <1>1, <2>1, <2>2 DEF AddEvent, Channel!Next
<1>2. CASE TakeEvent
  <2>1. Channel!Begin
        BY <1>2 DEF TakeEvent, LoopInv, HandlerHoldsEvent, Channel!Begin
  <2>2. QED
        BY <2>1 DEF Channel!Next
<1>3. CASE HandlerReturns
  <2>1. Channel!End
        BY <1>3 DEF HandlerReturns, LoopInv, HandlerHoldsEvent, Channel!End
  <2>2. QED
        BY <2>1 DEF Channel!Next
<1>4. CASE StartSetRunning \/ StartCreateThread \/ StopClearRunning \/ StopJoin
      BY <1>4 DEF StartSetRunning, StartCreateThread, StopClearRunning, StopJoin, loopVars
<1>5. CASE LoopTestRunning \/ CheckWork \/ WaitSemaphore
      BY <1>5 DEF LoopTestRunning, CheckWork, WaitSemaphore
<1>6. CASE UNCHANGED vars
      BY <1>6 DEF vars, loopVars
<1>7. QED
      BY <1>1, <1>2, <1>3, <1>4, <1>5, <1>6 DEF Next, ProcessEventQueue

(***************************************************************************)
(* The event loop implements the channel: events are delivered one at a    *)
(* time, in the order they were added, none lost and none twice.           *)
(***************************************************************************)
THEOREM LoopRefinesChannel == Spec => ImplementsChannel
  BY InvCorrect, ChannelInit, ChannelStep, PTL
  DEF Spec, ImplementsChannel, Channel!Spec
====
