-------------------------- MODULE WorkQueueProofs --------------------------
(***************************************************************************)
(* Theorems about WorkQueue for any number of workers, any size of the     *)
(* ring and any number of subscribers that fits into it.                   *)
(***************************************************************************)
EXTENDS WorkQueue, FiniteSetTheorems, TLAPS

Slot == 0 .. N - 1

(***************************************************************************)
(* How many slots the ring turns from slot a to slot b.                    *)
(***************************************************************************)
Distance(a, b) == IF a <= b THEN b - a ELSE b - a + N

(***************************************************************************)
(* The entries of this batch that EntryToWrite has passed; those that are   *)
(* still in the ring; those that a thread has claimed; the item that slot s *)
(* got when it was written last.                                           *)
(***************************************************************************)
Published == IF pc[Producer] = "publish" THEN filled - 1 ELSE filled
Pending == Distance(toRead, toWrite)
Claimed == Published - Pending
ItemAt(s) == Published + 1 - Distance(s, toWrite)

(***************************************************************************)
(* The threads between a claim and the call, and the item each will call.  *)
(***************************************************************************)
Active(t) == pc[t] \in {"fetch", "run"}
Held(t) == IF pc[t] = "fetch" THEN ItemAt(seen[t]) ELSE item[t]
Holders == {t \in Thread : Holding(t)}

(***************************************************************************)
(* Where the threads can be, and how the loop over the subscribers counts.  *)
(***************************************************************************)
Phases ==
    /\ \A t \in Worker : pc[t] \in {"read", "test", "claim", "fetch", "run", "count", "wait"}
    /\ pc[Producer] # "wait"
    /\ entryCount = filled /\ filled <= batch
    /\ pc[Producer] = "idle" => filled = 0
    /\ pc[Producer] = "add" => filled < batch
    /\ pc[Producer] = "publish" => filled > 0
    /\ pc[Producer] \in {"complete", "reset", "read", "test", "claim", "fetch", "run", "count"}
           => filled = batch

(***************************************************************************)
(* What has been claimed in this batch was counted, or is in the hands of a *)
(* thread.                                                                 *)
(***************************************************************************)
Accounting ==
    /\ Pending <= Published
    /\ completed + Cardinality(Holders) = Claimed
    /\ pc[Producer] = "reset" => completed = filled

(***************************************************************************)
(* The slots that were written in this batch keep their items.             *)
(***************************************************************************)
SlotsAreKept ==
    /\ \A s \in Slot : Distance(s, toWrite) \in 1 .. Published => entries[s] = ItemAt(s)
    /\ pc[Producer] = "publish" => entries[toWrite] = filled

(***************************************************************************)
(* Each item that was claimed has run once or is held by exactly one        *)
(* thread, which has not called it yet; no other item has run.             *)
(***************************************************************************)
ItemsAreShared ==
    /\ \A t \in Thread : Active(t) => Held(t) \in 1 .. Claimed /\ runs[Held(t)] = 0
    /\ \A t, u \in Thread : Active(t) /\ Active(u) /\ t # u => Held(t) # Held(u)
    /\ \A i \in 1 .. Claimed : runs[i] = 1 \/ \E t \in Thread : Active(t) /\ Held(t) = i
    /\ \A i \in Item : i > Claimed => runs[i] = 0

Control == TypeOK /\ Phases
Ring == Accounting /\ SlotsAreKept /\ ItemsAreShared
RingInv == Control /\ (~overrun => Ring)

(***************************************************************************)
(* A worker that is not about to wait: it will look at the ring again, or   *)
(* what it has seen of the ring tells it that there is work.               *)
(***************************************************************************)
WillLook(t) == \/ pc[t] \in {"read", "claim", "fetch", "run", "count"}
               \/ pc[t] = "test" /\ seen[t] # toWrite

(***************************************************************************)
(* As long as the ring has entries somebody will look, or can be woken.     *)
(* The event thread, which alone moves EntryToWrite, never overruns.       *)
(***************************************************************************)
PoolInv ==
    /\ pc[Producer] = "claim" => seen[Producer] # toWrite
    /\ toRead # toWrite /\ Worker # {} =>
           semaphore > 0 \/ pc[Producer] = "post" \/ \E t \in Worker : WillLook(t)

----
(***************************************************************************)
(* Going around the ring.                                                  *)
(***************************************************************************)
LEMMA SuccIsNext ==
  ASSUME NEW s \in Slot
  PROVE  Succ(s) \in Slot /\ Succ(s) = IF s = N - 1 THEN 0 ELSE s + 1
<1>1. N \in Nat /\ N > 0 /\ s \in Nat /\ s < N
      BY WorkQueueAssumption DEF WorkQueueAssumption, Slot
<1>2. CASE s = N - 1
  <2>1. (s + 1) % N = 0
        BY <1>1, <1>2
  <2>2. QED
        BY <1>1, <1>2, <2>1 DEF Succ, Slot
<1>3. CASE s # N - 1
  <2>1. (s + 1) % N = s + 1
        BY <1>1, <1>3
  <2>2. QED
        BY <1>1, <1>3, <2>1 DEF Succ, Slot
<1>4. QED
      BY <1>2, <1>3

(***************************************************************************)
(* What a turn of either cursor does to the distance between two slots.    *)
(***************************************************************************)
LEMMA DistanceFacts ==
  ASSUME NEW a \in Slot, NEW b \in Slot
  PROVE  /\ Distance(a, b) \in 0 .. N - 1
         /\ Distance(a, b) = 0 <=> a = b
         /\ Distance(a, Succ(b)) = IF a = Succ(b) THEN 0 ELSE Distance(a, b) + 1
         /\ a = Succ(b) => Distance(a, b) = N - 1
         /\ a # b => Distance(Succ(a), b) = Distance(a, b) - 1
         /\ \A c \in Slot : Distance(c, b) = Distance(a, b) => c = a
BY SuccIsNext, WorkQueueAssumption DEF Distance, Slot, WorkQueueAssumption

(***************************************************************************)
(* Counting the threads between a claim and its count.                     *)
(***************************************************************************)
LEMMA ThreadsAreFinite == IsFiniteSet(Thread)
BY FS_AddElement, WorkQueueAssumption DEF Thread, WorkQueueAssumption

(***************************************************************************)
(* The threads that hold an entry can be counted.                          *)
(***************************************************************************)
LEMMA HoldersAreCounted == IsFiniteSet(Holders) /\ Cardinality(Holders) \in Nat
<1>1. Holders \subseteq Thread
      BY DEF Holders
<1>2. IsFiniteSet(Holders)
      BY <1>1, ThreadsAreFinite, FS_Subset
<1>3. QED
      BY <1>2, FS_CardinalityType

----
(***************************************************************************)
(* The types and the control state.                                        *)
(***************************************************************************)
LEMMA ControlInit == Init => Control
<1> USE WorkQueueAssumption DEF WorkQueueAssumption
<1>1. ASSUME Init
      PROVE  TypeOK
  <2>1. 0 \in 0 .. N - 1 /\ NoItem \in Item \union {NoItem} /\ 0 \in 0 .. 2
        BY DEF Item
  <2>2. /\ entries \in [0 .. N - 1 -> Item \union {NoItem}] /\ seen \in [Thread -> 0 .. N - 1]
        /\ item \in [Thread -> Item \union {NoItem}] /\ runs \in [Item -> 0 .. 2]
        BY <1>1, <2>1 DEF Init
  <2>3. pc \in [Thread -> {"idle", "add", "publish", "post", "complete", "reset",
                           "read", "test", "claim", "fetch", "run", "count", "wait"}]
        BY <1>1 DEF Init
  <2>4. semaphore \in Nat
        BY <1>1 DEF Init
  <2>5. overrun \in BOOLEAN
        BY <1>1 DEF Init
  <2>6. QED
        BY <1>1, <2>1, <2>2, <2>3, <2>4, <2>5 DEF Init, TypeOK
<1>2. Init => Phases
      BY DEF Init, Phases, Thread
<1>3. QED
      BY <1>1, <1>2 DEF Control

(***************************************************************************)
(* Every step keeps the types and the control state.                       *)
(***************************************************************************)
LEMMA ControlStep ==
  ASSUME Control, Next
  PROVE  Control'
<1> USE WorkQueueAssumption DEF WorkQueueAssumption, Control, Goto, Thread
<1> Producer \in Thread
    OBVIOUS
<1>1. ASSUME NEW k \in 0 .. MaxBatch, StartBatch(k)
      PROVE  Control'
  <2>1. TypeOK'
        BY <1>1 DEF StartBatch, NextAdd, TypeOK, queueVars, history
  <2>2. Phases'
        BY <1>1 DEF StartBatch, NextAdd, TypeOK, Phases, queueVars, history
  <2>3. QED
        BY <2>1, <2>2
<1>2. ASSUME WriteEntry
      PROVE  Control'
  <2>1. filled + 1 \in Item /\ filled + 1 \in 0 .. MaxBatch
        BY <1>2 DEF WriteEntry, TypeOK, Phases, Item
  <2>2. TypeOK'
        BY <1>2, <2>1 DEF WriteEntry, TypeOK, Phases, history
  <2>3. Phases'
        BY <1>2, <2>1 DEF WriteEntry, TypeOK, Phases, history
  <2>4. QED
        BY <2>2, <2>3
<1>3. ASSUME PublishEntry
      PROVE  Control'
  <2>1. Succ(toWrite) \in 0 .. N - 1
        BY SuccIsNext DEF TypeOK, Slot
  <2>2. TypeOK'
        BY <1>3, <2>1 DEF PublishEntry, TypeOK, batchVars, history
  <2>3. Phases'
        BY <1>3 DEF PublishEntry, TypeOK, Phases, batchVars, history
  <2>4. QED
        BY <2>2, <2>3
<1>4. ASSUME PostEntry
      PROVE  Control'
  <2>1. TypeOK'
        BY <1>4 DEF PostEntry, NextAdd, TypeOK, queueVars, batchVars, history
  <2>2. Phases'
        BY <1>4 DEF PostEntry, NextAdd, TypeOK, Phases, queueVars, batchVars, history
  <2>3. QED
        BY <2>1, <2>2
<1>5. ASSUME CompleteTest
      PROVE  Control'
  <2>1. TypeOK'
        BY <1>5 DEF CompleteTest, TypeOK, queueVars, batchVars, history
  <2>2. Phases'
        BY <1>5 DEF CompleteTest, TypeOK, Phases, queueVars, batchVars, history
  <2>3. QED
        BY <2>1, <2>2
<1>6. ASSUME CompleteReset
      PROVE  Control'
  <2>1. TypeOK'
        BY <1>6 DEF CompleteReset, HandlerReturns, TypeOK
  <2>2. Phases'
        BY <1>6 DEF CompleteReset, HandlerReturns, TypeOK, Phases
  <2>3. QED
        BY <2>1, <2>2
<1>7. ASSUME NEW t \in Thread, DoNextEntry(t)
      PROVE  Control'
  <2>1. CASE ReadEntryToRead(t)
        BY <2>1 DEF ReadEntryToRead, TypeOK, Phases, queueVars, batchVars, history
  <2>2. CASE TestEntryToWrite(t)
        BY <2>2 DEF TestEntryToWrite, FoundNone, Forget, TypeOK, Phases, queueVars, batchVars, history
  <2>3. CASE ClaimEntry(t)
    <3>1. seen[t] \in Slot /\ Succ(seen[t]) \in 0 .. N - 1
          BY SuccIsNext DEF TypeOK, Slot
    <3>2. TypeOK'
      <4>1. CASE toRead = seen[t]
        <5>1. overrun' \in BOOLEAN
              BY <2>3, <4>1 DEF ClaimEntry
        <5>2. pc' = [pc EXCEPT ![t] = "fetch"] /\ toRead' = Succ(seen[t])
              BY <2>3, <4>1 DEF ClaimEntry
        <5>3. QED
              BY <2>3, <3>1, <4>1, <5>1, <5>2 DEF ClaimEntry, TypeOK, batchVars
      <4>2. CASE toRead # seen[t]
        <5>1. overrun' \in BOOLEAN
              BY <2>3, <4>2 DEF ClaimEntry, TypeOK
        <5>2. /\ pc' = [pc EXCEPT ![t] = Found(t)] /\ Found(t) \in {"complete", "read"}
              /\ seen' = [seen EXCEPT ![t] = 0]
              BY <2>3, <4>2 DEF ClaimEntry, Found, Forget
        <5>3. QED
              BY <2>3, <3>1, <4>2, <5>1, <5>2 DEF ClaimEntry, TypeOK, batchVars
      <4>3. QED
            BY <4>1, <4>2
    <3>3. Phases'
          BY <2>3 DEF ClaimEntry, Found, Forget, TypeOK, Phases, batchVars
    <3>4. QED
          BY <3>2, <3>3
  <2>4. CASE FetchEntry(t)
        BY <2>4 DEF FetchEntry, Forget, TypeOK, Phases, queueVars, batchVars, history
  <2>5. CASE RunCallback(t)
    <3>1. runs' \in [Item -> 0 .. 2]
          BY <2>5 DEF RunCallback, TypeOK
    <3>2. QED
          BY <2>5, <3>1 DEF RunCallback, TypeOK, Phases, queueVars, batchVars
  <2>6. CASE CountCompleted(t)
        BY <2>6 DEF CountCompleted, Found, TypeOK, Phases, batchVars, history
  <2>7. QED
        BY <1>7, <2>1, <2>2, <2>3, <2>4, <2>5, <2>6 DEF DoNextEntry
<1>8. ASSUME NEW t \in Worker, WaitSemaphore(t)
      PROVE  Control'
      BY <1>8 DEF WaitSemaphore, TypeOK, Phases, queueVars, batchVars, history
<1>9. QED
      BY <1>1, <1>2, <1>3, <1>4, <1>5, <1>6, <1>7, <1>8 DEF Next, HandleEvent, Work

----
(***************************************************************************)
(* The pool.                                                               *)
(***************************************************************************)
LEMMA PoolInit == Init => PoolInv
BY WorkQueueAssumption DEF Init, PoolInv, Thread, WorkQueueAssumption

(***************************************************************************)
(* Every step keeps somebody looking, or a post to wake somebody.          *)
(***************************************************************************)
LEMMA PoolStep ==
  ASSUME Control, PoolInv, Next
  PROVE  PoolInv'
<1> USE WorkQueueAssumption DEF WorkQueueAssumption, Control, Goto, PoolInv, WillLook
<1> Producer \in Thread /\ \A t \in Worker : t \in Thread /\ t # Producer
    BY DEF Thread
<1>1. ASSUME NEW k \in 0 .. MaxBatch, StartBatch(k)
      PROVE  PoolInv'
      BY <1>1 DEF StartBatch, NextAdd, TypeOK, queueVars
<1>2. ASSUME WriteEntry
      PROVE  PoolInv'
      BY <1>2 DEF WriteEntry, TypeOK
<1>3. ASSUME PublishEntry
      PROVE  PoolInv'
      BY <1>3 DEF PublishEntry, TypeOK
<1>4. ASSUME PostEntry
      PROVE  PoolInv'
      BY <1>4 DEF PostEntry, NextAdd, TypeOK, queueVars
<1>5. ASSUME CompleteTest
      PROVE  PoolInv'
      BY <1>5 DEF CompleteTest, TypeOK, queueVars
<1>6. ASSUME CompleteReset
      PROVE  PoolInv'
      BY <1>6 DEF CompleteReset, HandlerReturns, TypeOK
<1>7. ASSUME NEW t \in Thread, DoNextEntry(t)
      PROVE  PoolInv'
  <2>1. CASE ReadEntryToRead(t)
        BY <2>1 DEF ReadEntryToRead, TypeOK, queueVars
  <2>2. CASE TestEntryToWrite(t)
        BY <2>2 DEF TestEntryToWrite, FoundNone, Forget, TypeOK, Phases, queueVars
  <2>3. CASE ClaimEntry(t)
    <3>1. /\ pc' = [pc EXCEPT ![t] = IF toRead = seen[t] THEN "fetch" ELSE Found(t)]
          /\ toRead # seen[t] => toRead' = toRead /\ seen' = [seen EXCEPT ![t] = 0]
          /\ toRead = seen[t] => seen' = seen
          /\ UNCHANGED <<toWrite, semaphore>> /\ pc[t] = "claim"
          BY <2>3 DEF ClaimEntry, Forget
    <3>2. CASE t = Producer
          BY <3>1, <3>2 DEF Found, TypeOK
    <3>3. CASE t \in Worker
      <4>1. WillLook(t)'
            BY <3>1, <3>3 DEF Found, TypeOK
      <4>2. QED
            BY <3>1, <3>3, <4>1 DEF TypeOK
    <3>4. QED
          BY <3>2, <3>3 DEF Thread
  <2>4. CASE FetchEntry(t)
        BY <2>4 DEF FetchEntry, Forget, TypeOK, queueVars
  <2>5. CASE RunCallback(t)
        BY <2>5 DEF RunCallback, TypeOK, queueVars
  <2>6. CASE CountCompleted(t)
        BY <2>6 DEF CountCompleted, Found, TypeOK
  <2>7. QED
        BY <1>7, <2>1, <2>2, <2>3, <2>4, <2>5, <2>6 DEF DoNextEntry
<1>8. ASSUME NEW t \in Worker, WaitSemaphore(t)
      PROVE  PoolInv'
      BY <1>8 DEF WaitSemaphore, TypeOK, queueVars
<1>9. QED
      BY <1>1, <1>2, <1>3, <1>4, <1>5, <1>6, <1>7, <1>8 DEF Next, HandleEvent, Work

----
(***************************************************************************)
(* The ring.  At first nothing is in it.                                   *)
(***************************************************************************)
LEMMA RingInit == Init => Ring
<1> SUFFICES ASSUME Init PROVE Ring
    OBVIOUS
<1> USE WorkQueueAssumption DEF WorkQueueAssumption
<1>1. /\ Published = 0 /\ Pending = 0 /\ Claimed = 0
      BY DEF Init, Published, Pending, Claimed, Distance, Thread
<1>2. \A t \in Thread : ~Holding(t) /\ ~Active(t) /\ pc[t] # "publish" /\ pc[t] # "reset"
      BY DEF Init, Holding, Active
<1>3. Cardinality(Holders) = 0
      BY <1>2, FS_EmptySet DEF Holders
<1>4. Producer \in Thread
      BY DEF Thread
<1>5. Accounting
      BY <1>1, <1>2, <1>3, <1>4 DEF Init, Accounting
<1>6. SlotsAreKept
      BY <1>1, <1>2, <1>4 DEF SlotsAreKept
<1>7. ItemsAreShared
      BY <1>1, <1>2 DEF Init, ItemsAreShared
<1>8. QED
      BY <1>5, <1>6, <1>7 DEF Ring

(***************************************************************************)
(* A step of a thread that has no entry before or after it, and writes     *)
(* nothing but its own local variables, changes nothing about the ring.     *)
(***************************************************************************)
LEMMA RingUnmoved ==
  ASSUME Control, Ring, NEW t \in Thread,
         UNCHANGED <<toRead, toWrite, entries, completed, filled, runs, item>>,
         \A u \in Thread : u # t => pc'[u] = pc[u] /\ seen'[u] = seen[u],
         ~Holding(t), ~Holding(t)', pc[t] # "publish", pc'[t] # "publish",
         pc'[t] = "reset" => completed = filled
  PROVE  Ring'
<1> Producer \in Thread
    BY DEF Thread
<1>1. Published' = Published
      BY DEF Published
<1>2. Pending' = Pending /\ Claimed' = Claimed /\ \A s \in Slot : ItemAt(s)' = ItemAt(s)
      BY <1>1 DEF Pending, Claimed, ItemAt
<1>3. \A u \in Thread : (Holding(u)' <=> Holding(u)) /\ (Active(u)' <=> Active(u))
      BY DEF Holding, Active
<1>4. Holders' = Holders
      BY <1>3 DEF Holders
<1>5. \A u \in Thread : Active(u) => u # t
      BY DEF Active, Holding
<1>6. \A u \in Thread : Active(u) => Held(u)' = Held(u)
      BY <1>1, <1>5 DEF Held, ItemAt
<1>7. Accounting'
      BY <1>1, <1>2, <1>4 DEF Ring, Accounting
<1>8. SlotsAreKept'
      BY <1>1, <1>2 DEF Ring, SlotsAreKept
<1>9. ItemsAreShared'
      BY <1>2, <1>3, <1>6 DEF Ring, ItemsAreShared
<1>10. QED
       BY <1>7, <1>8, <1>9 DEF Ring

(***************************************************************************)
(* The threads: claiming moves one entry from the ring into the hands of a *)
(* thread, ...                                                             *)
(***************************************************************************)
LEMMA RingClaim ==
  ASSUME Control, Ring, NEW t \in Thread, ClaimEntry(t), toRead = seen[t], toRead # toWrite
  PROVE  Ring'
<1> Producer \in Thread
    BY DEF Thread
<1>1. /\ pc[t] = "claim" /\ pc' = [pc EXCEPT ![t] = "fetch"]
      /\ toRead' = Succ(toRead)
      /\ UNCHANGED <<toWrite, entries, completed, filled, seen, item, runs>>
      BY DEF ClaimEntry, Goto, batchVars
<1>2. /\ pc'[t] = "fetch"
      /\ \A u \in Thread : u # t => pc'[u] = pc[u]
      BY <1>1 DEF Control, TypeOK
<1>3. Published' = Published /\ Published \in 0 .. MaxBatch
      BY <1>1, <1>2, WorkQueueAssumption DEF Published, Control, TypeOK, Phases, WorkQueueAssumption
<1>4. /\ Pending \in 1 .. N - 1 /\ Pending' = Pending - 1
  <2>1. toRead \in Slot /\ toWrite \in Slot
        BY DEF Control, TypeOK, Slot
  <2>2. /\ Distance(toRead, toWrite) \in 0 .. N - 1
        /\ Distance(toRead, toWrite) # 0
        /\ Distance(Succ(toRead), toWrite) = Distance(toRead, toWrite) - 1
        BY <2>1, DistanceFacts
  <2>3. Pending' = Distance(Succ(toRead), toWrite)
        BY <1>1 DEF Pending
  <2>4. QED
        BY <2>2, <2>3, WorkQueueAssumption DEF Pending, WorkQueueAssumption
<1>5. Claimed' = Claimed + 1 /\ Claimed \in 0 .. MaxBatch /\ Claimed' \in Item
      BY <1>3, <1>4, WorkQueueAssumption
      DEF Claimed, Ring, Accounting, Item, WorkQueueAssumption
<1>6. \A s \in Slot : ItemAt(s)' = ItemAt(s)
      BY <1>1, <1>3 DEF ItemAt
<1>7. \A u \in Thread : (Holding(u)' <=> u = t \/ Holding(u)) /\ (Active(u)' <=> u = t \/ Active(u))
      BY <1>2 DEF Holding, Active
<1>8. ~Holding(t) /\ ~Active(t)
      BY <1>1 DEF Holding, Active
<1>9. Cardinality(Holders') = Cardinality(Holders) + 1
  <2>1. Holders' = Holders \union {t} /\ t \notin Holders
        BY <1>7, <1>8 DEF Holders
  <2>2. QED
        BY <2>1, HoldersAreCounted, FS_AddElement
<1>10. Held(t)' = Claimed'
  <2>1. Held(t)' = ItemAt(toRead)
        BY <1>1, <1>2, <1>3 DEF Held, ItemAt
  <2>2. QED
        BY <2>1, <1>3, <1>4, <1>5 DEF ItemAt, Claimed, Pending
<1>11. \A u \in Thread : u # t => Held(u)' = Held(u)
       BY <1>1, <1>2, <1>3 DEF Held, ItemAt
<1>12. Accounting'
  <2>1. Pending' <= Published'
        BY <1>3, <1>4 DEF Ring, Accounting
  <2>2. completed' + Cardinality(Holders') = Claimed'
        BY <1>1, <1>5, <1>9, HoldersAreCounted DEF Ring, Accounting, Control, TypeOK
  <2>3. pc'[Producer] = "reset" => completed' = filled'
        BY <1>1, <1>2 DEF Ring, Accounting
  <2>4. QED
        BY <2>1, <2>2, <2>3 DEF Accounting
<1>13. SlotsAreKept'
       BY <1>1, <1>2, <1>3, <1>6 DEF Ring, SlotsAreKept
<1>14. ItemsAreShared'
  <2>1. \A u \in Thread : Active(u)' => Held(u)' \in 1 .. Claimed' /\ runs'[Held(u)'] = 0
        BY <1>1, <1>5, <1>7, <1>10, <1>11 DEF Ring, ItemsAreShared
  <2>2. \A u, v \in Thread : Active(u)' /\ Active(v)' /\ u # v => Held(u)' # Held(v)'
        BY <1>5, <1>7, <1>10, <1>11 DEF Ring, ItemsAreShared
  <2>3. \A i \in 1 .. Claimed' :
            runs'[i] = 1 \/ \E u \in Thread : Active(u)' /\ Held(u)' = i
        BY <1>1, <1>5, <1>7, <1>8, <1>10, <1>11 DEF Ring, ItemsAreShared
  <2>4. \A i \in Item : i > Claimed' => runs'[i] = 0
        BY <1>1, <1>5 DEF Ring, ItemsAreShared, Item
  <2>5. QED
        BY <2>1, <2>2, <2>3, <2>4 DEF ItemsAreShared
<1>15. QED
       BY <1>12, <1>13, <1>14 DEF Ring

(***************************************************************************)
(* ... reading the slot gives the item that was claimed, ...               *)
(***************************************************************************)
LEMMA RingFetch ==
  ASSUME Control, Ring, NEW t \in Thread, FetchEntry(t)
  PROVE  Ring'
<1> Producer \in Thread
    BY DEF Thread
<1>1. /\ pc[t] = "fetch" /\ pc' = [pc EXCEPT ![t] = "run"]
      /\ item' = [item EXCEPT ![t] = entries[seen[t]]]
      /\ seen' = [seen EXCEPT ![t] = 0]
      /\ UNCHANGED <<toRead, toWrite, entries, completed, filled, runs>>
      BY DEF FetchEntry, Forget, Goto, queueVars, batchVars, history
<1>2. /\ pc'[t] = "run" /\ item'[t] = entries[seen[t]]
      /\ \A u \in Thread : u # t => pc'[u] = pc[u] /\ seen'[u] = seen[u] /\ item'[u] = item[u]
      BY <1>1 DEF Control, TypeOK
<1>3. Published' = Published /\ Published \in 0 .. MaxBatch
      BY <1>1, <1>2, WorkQueueAssumption DEF Published, Control, TypeOK, Phases, WorkQueueAssumption
<1>4. Pending' = Pending /\ Claimed' = Claimed /\ \A s \in Slot : ItemAt(s)' = ItemAt(s)
      BY <1>1, <1>3 DEF Pending, Claimed, ItemAt
<1>5. \A u \in Thread : (Holding(u)' <=> Holding(u)) /\ (Active(u)' <=> Active(u))
      BY <1>1, <1>2 DEF Holding, Active
<1>6. Holders' = Holders
      BY <1>5 DEF Holders
<1>7. entries[seen[t]] = ItemAt(seen[t])
  <2>1. seen[t] \in Slot /\ Distance(seen[t], toWrite) \in 0 .. N - 1 /\ Pending \in 0 .. N - 1
        BY DistanceFacts DEF Control, TypeOK, Slot, Pending
  <2>2. Held(t) = ItemAt(seen[t]) /\ Held(t) \in 1 .. Claimed
        BY <1>1 DEF Ring, ItemsAreShared, Active, Held
  <2>3. Distance(seen[t], toWrite) \in 1 .. Published
        BY <1>3, <2>1, <2>2, WorkQueueAssumption DEF ItemAt, Claimed, WorkQueueAssumption
  <2>4. QED
        BY <2>1, <2>3 DEF Ring, SlotsAreKept
<1>8. \A u \in Thread : Held(u)' = Held(u)
  <2>1. Held(t)' = Held(t)
        BY <1>1, <1>2, <1>7 DEF Held
  <2>2. \A u \in Thread : u # t => Held(u)' = Held(u)
        BY <1>1, <1>2, <1>3 DEF Held, ItemAt
  <2>3. QED
        BY <2>1, <2>2
<1>9. Accounting'
      BY <1>1, <1>2, <1>3, <1>4, <1>6 DEF Ring, Accounting
<1>10. SlotsAreKept'
       BY <1>1, <1>2, <1>3, <1>4 DEF Ring, SlotsAreKept
<1>11. ItemsAreShared'
       BY <1>1, <1>4, <1>5, <1>8 DEF Ring, ItemsAreShared
<1>12. QED
       BY <1>9, <1>10, <1>11 DEF Ring

(***************************************************************************)
(* ... calling it makes it the item's only run, ...                        *)
(***************************************************************************)
LEMMA RingRun ==
  ASSUME Control, Ring, NEW t \in Thread, RunCallback(t)
  PROVE  Ring'
<1> Producer \in Thread
    BY DEF Thread
<1>1. /\ pc[t] = "run" /\ pc' = [pc EXCEPT ![t] = "count"]
      /\ runs' = [i \in Item |-> IF i = item[t] /\ runs[i] < 2 THEN runs[i] + 1 ELSE runs[i]]
      /\ item' = [item EXCEPT ![t] = NoItem]
      /\ UNCHANGED <<toRead, toWrite, entries, completed, filled, seen>>
      BY DEF RunCallback, Goto, queueVars, batchVars
<1>2. /\ pc'[t] = "count"
      /\ \A u \in Thread : u # t => pc'[u] = pc[u] /\ item'[u] = item[u]
      BY <1>1 DEF Control, TypeOK
<1>3. Published' = Published /\ Published \in 0 .. MaxBatch
      BY <1>1, <1>2, WorkQueueAssumption DEF Published, Control, TypeOK, Phases, WorkQueueAssumption
<1>4. Pending' = Pending /\ Claimed' = Claimed /\ \A s \in Slot : ItemAt(s)' = ItemAt(s)
      BY <1>1, <1>3 DEF Pending, Claimed, ItemAt
<1>5. \A u \in Thread : (Holding(u)' <=> Holding(u)) /\ (Active(u)' <=> u # t /\ Active(u))
      BY <1>1, <1>2 DEF Holding, Active
<1>6. Holders' = Holders
      BY <1>5 DEF Holders
<1>7. Active(t) /\ Held(t) = item[t] /\ \A u \in Thread : u # t => Held(u)' = Held(u)
      BY <1>1, <1>2, <1>3 DEF Active, Held, ItemAt
<1>8. /\ item[t] \in 1 .. Claimed /\ runs[item[t]] = 0
      /\ \A u \in Thread : Active(u) /\ u # t => Held(u) # item[t]
      BY <1>7 DEF Ring, ItemsAreShared
<1>9. Claimed \in 0 .. MaxBatch /\ 1 .. Claimed \subseteq Item
  <2>1. Pending \in 0 .. N - 1
        BY DistanceFacts DEF Control, TypeOK, Slot, Pending
  <2>2. QED
        BY <1>3, <2>1, WorkQueueAssumption DEF Claimed, Ring, Accounting, Item, WorkQueueAssumption
<1>10. runs'[item[t]] = 1 /\ \A i \in Item : i # item[t] => runs'[i] = runs[i]
       BY <1>1, <1>8, <1>9
<1>11. Accounting'
       BY <1>1, <1>2, <1>3, <1>4, <1>6 DEF Ring, Accounting
<1>12. SlotsAreKept'
       BY <1>1, <1>2, <1>3, <1>4 DEF Ring, SlotsAreKept
<1>13. ItemsAreShared'
  <2>1. \A u \in Thread : Active(u)' => Held(u)' \in 1 .. Claimed' /\ runs'[Held(u)'] = 0
        BY <1>4, <1>5, <1>7, <1>8, <1>9, <1>10 DEF Ring, ItemsAreShared
  <2>2. \A u, v \in Thread : Active(u)' /\ Active(v)' /\ u # v => Held(u)' # Held(v)'
        BY <1>5, <1>7 DEF Ring, ItemsAreShared
  <2>3. \A i \in 1 .. Claimed' :
            runs'[i] = 1 \/ \E u \in Thread : Active(u)' /\ Held(u)' = i
        BY <1>4, <1>5, <1>7, <1>9, <1>10 DEF Ring, ItemsAreShared
  <2>4. \A i \in Item : i > Claimed' => runs'[i] = 0
        BY <1>4, <1>8, <1>9, <1>10 DEF Ring, ItemsAreShared, Item
  <2>5. QED
        BY <2>1, <2>2, <2>3, <2>4 DEF ItemsAreShared
<1>14. QED
       BY <1>11, <1>12, <1>13 DEF Ring

(***************************************************************************)
(* ... and counting takes it out of the thread's hands.                    *)
(***************************************************************************)
LEMMA RingCount ==
  ASSUME Control, Ring, NEW t \in Thread, CountCompleted(t)
  PROVE  Ring'
<1> Producer \in Thread
    BY DEF Thread
<1>1. /\ pc[t] = "count" /\ pc' = [pc EXCEPT ![t] = Found(t)]
      /\ completed' = completed + 1
      /\ UNCHANGED <<toRead, toWrite, entries, filled, seen, item, runs>>
      BY DEF CountCompleted, Goto, batchVars, history
<1>2. /\ pc'[t] \in {"complete", "read"}
      /\ \A u \in Thread : u # t => pc'[u] = pc[u]
      BY <1>1 DEF Control, TypeOK, Found
<1>3. Published' = Published
      BY <1>1, <1>2 DEF Published
<1>4. Pending' = Pending /\ Claimed' = Claimed /\ \A s \in Slot : ItemAt(s)' = ItemAt(s)
      BY <1>1, <1>3 DEF Pending, Claimed, ItemAt
<1>5. \A u \in Thread : (Holding(u)' <=> u # t /\ Holding(u)) /\ (Active(u)' <=> Active(u))
      BY <1>1, <1>2 DEF Holding, Active
<1>6. /\ Cardinality(Holders) \in Nat /\ Cardinality(Holders') \in Nat
      /\ Cardinality(Holders') = Cardinality(Holders) - 1
  <2>1. Holders' = Holders \ {t} /\ t \in Holders
        BY <1>1, <1>5 DEF Holders, Holding
  <2>2. QED
        BY <2>1, HoldersAreCounted, FS_RemoveElement, FS_CardinalityType
<1>7. \A u \in Thread : Active(u) => Held(u)' = Held(u)
      BY <1>1, <1>2, <1>3 DEF Held, ItemAt, Active
<1>8. pc'[Producer] # "reset"
  <2>1. ASSUME pc[Producer] = "reset"
        PROVE  FALSE
    <3>1. completed = filled /\ Published = filled /\ Pending \in 0 .. N - 1
          BY <2>1, DistanceFacts DEF Ring, Accounting, Published, Control, TypeOK, Slot, Pending
    <3>2. completed + Cardinality(Holders) = Published - Pending
          BY DEF Ring, Accounting, Claimed
    <3>3. QED
          BY <3>1, <3>2, <1>6, WorkQueueAssumption DEF Control, TypeOK, WorkQueueAssumption
  <2>2. QED
        BY <1>2, <2>1
<1>9. Accounting'
  <2>1. completed' + Cardinality(Holders') = Claimed'
        BY <1>1, <1>4, <1>6 DEF Ring, Accounting, Control, TypeOK
  <2>2. QED
        BY <1>3, <1>4, <1>8, <2>1 DEF Ring, Accounting
<1>10. SlotsAreKept'
       BY <1>1, <1>2, <1>3, <1>4 DEF Ring, SlotsAreKept
<1>11. ItemsAreShared'
       BY <1>1, <1>4, <1>5, <1>7 DEF Ring, ItemsAreShared
<1>12. QED
       BY <1>9, <1>10, <1>11 DEF Ring

(***************************************************************************)
(* The event thread: the slot it writes is none of those the ring holds,   *)
(* ...                                                                     *)
(***************************************************************************)
LEMMA RingWrite ==
  ASSUME Control, Ring, WriteEntry
  PROVE  Ring'
<1> Producer \in Thread
    BY DEF Thread
<1>1. /\ pc[Producer] = "add" /\ pc' = [pc EXCEPT ![Producer] = "publish"]
      /\ entries' = [entries EXCEPT ![toWrite] = filled + 1]
      /\ filled' = filled + 1
      /\ UNCHANGED <<toRead, toWrite, completed, seen, item, runs>>
      BY DEF WriteEntry, Goto, history
<1>2. /\ pc'[Producer] = "publish"
      /\ \A u \in Thread : u # Producer => pc'[u] = pc[u]
      BY <1>1 DEF Control, TypeOK
<1>3. Published' = Published /\ Published = filled /\ filled \in Nat
      BY <1>1, <1>2 DEF Published, Control, TypeOK
<1>4. Pending' = Pending /\ Claimed' = Claimed /\ \A s \in Slot : ItemAt(s)' = ItemAt(s)
      BY <1>1, <1>3 DEF Pending, Claimed, ItemAt
<1>5. \A u \in Thread : (Holding(u)' <=> Holding(u)) /\ (Active(u)' <=> Active(u))
      BY <1>1, <1>2 DEF Holding, Active
<1>6. Holders' = Holders
      BY <1>5 DEF Holders
<1>7. \A u \in Thread : Active(u) => Held(u)' = Held(u)
      BY <1>1, <1>2, <1>3 DEF Held, ItemAt, Active
<1>8. Accounting'
      BY <1>1, <1>2, <1>3, <1>4, <1>6 DEF Ring, Accounting
<1>9. SlotsAreKept'
  <2>1. toWrite \in Slot /\ entries'[toWrite] = filled'
        BY <1>1 DEF Control, TypeOK, Slot
  <2>2. \A s \in Slot : Distance(s, toWrite) \in 1 .. Published => entries'[s] = entries[s]
        BY <1>1, <2>1, DistanceFacts DEF Control, TypeOK, Slot
  <2>3. QED
        BY <1>1, <1>3, <1>4, <2>1, <2>2 DEF Ring, SlotsAreKept
<1>10. ItemsAreShared'
       BY <1>1, <1>4, <1>5, <1>7 DEF Ring, ItemsAreShared
<1>11. QED
       BY <1>8, <1>9, <1>10 DEF Ring

(***************************************************************************)
(* ... and the ring has a slot for it.                                     *)
(***************************************************************************)
LEMMA RingHasRoom ==
  ASSUME Control, Ring, filled < MaxBatch \/ pc[Producer] = "publish"
  PROVE  /\ Pending \in 0 .. Published /\ Published < MaxBatch /\ Published \in Nat
         /\ toRead # Succ(toWrite)
<1>1. toRead \in Slot /\ toWrite \in Slot
      BY DEF Control, TypeOK, Slot
<1>2. Pending \in 0 .. N - 1 /\ (toRead = Succ(toWrite) => Pending = N - 1)
      BY <1>1, DistanceFacts DEF Pending
<1>3. Published \in Nat /\ Published < MaxBatch
      BY WorkQueueAssumption DEF Published, Control, TypeOK, Phases, WorkQueueAssumption
<1>4. Pending <= Published
      BY DEF Ring, Accounting
<1>5. QED
      BY <1>2, <1>3, <1>4, WorkQueueAssumption DEF WorkQueueAssumption

(***************************************************************************)
(* The entry that is published is the next one of its batch.               *)
(***************************************************************************)
LEMMA RingPublish ==
  ASSUME Control, Ring, PublishEntry
  PROVE  Ring'
<1> Producer \in Thread
    BY DEF Thread
<1>1. /\ pc[Producer] = "publish" /\ pc' = [pc EXCEPT ![Producer] = "post"]
      /\ toWrite' = Succ(toWrite)
      /\ UNCHANGED <<toRead, entries, completed, filled, seen, item, runs>>
      BY DEF PublishEntry, Goto, batchVars, history
<1>2. /\ pc'[Producer] = "post"
      /\ \A u \in Thread : u # Producer => pc'[u] = pc[u]
      BY <1>1 DEF Control, TypeOK
<1>3. toRead \in Slot /\ toWrite \in Slot
      BY DEF Control, TypeOK, Slot
<1>4. /\ Pending \in 0 .. Published /\ Published \in Nat
      /\ Published + 1 < N /\ toRead # Succ(toWrite)
      BY <1>1, RingHasRoom, WorkQueueAssumption DEF WorkQueueAssumption
<1>5. Published' = Published + 1 /\ filled = Published + 1
      BY <1>1, <1>2 DEF Published, Control, TypeOK
<1>6. \A s \in Slot : /\ Distance(s, toWrite) \in 0 .. N - 1
                      /\ Distance(s, toWrite)' \in 0 .. N - 1
                      /\ s = Succ(toWrite) => Distance(s, toWrite)' = 0
                                               /\ Distance(s, toWrite) = N - 1
                      /\ s # Succ(toWrite) => Distance(s, toWrite)' = Distance(s, toWrite) + 1
                      /\ Distance(s, toWrite) = 0 <=> s = toWrite
      BY <1>1, <1>3, SuccIsNext, DistanceFacts
<1>7. \A s \in Slot : s # Succ(toWrite) => ItemAt(s)' = ItemAt(s)
      BY <1>4, <1>5, <1>6 DEF ItemAt
<1>8. Pending' = Pending + 1 /\ Claimed' = Claimed
      BY <1>1, <1>3, <1>4, <1>5, <1>6 DEF Pending, Claimed
<1>9. \A u \in Thread : (Holding(u)' <=> Holding(u)) /\ (Active(u)' <=> Active(u))
      BY <1>1, <1>2 DEF Holding, Active
<1>10. Holders' = Holders
       BY <1>9 DEF Holders
<1>11. ASSUME NEW u \in Thread, Active(u)
       PROVE  Held(u)' = Held(u)
  <2>1. CASE pc[u] = "fetch"
    <3>1. seen[u] \in Slot
          BY DEF Control, TypeOK, Slot
    <3>2. Held(u) = ItemAt(seen[u]) /\ ItemAt(seen[u]) \in 1 .. Claimed
          BY <1>11, <2>1 DEF Ring, ItemsAreShared, Held
    <3>3. seen[u] # Succ(toWrite)
          BY <1>4, <1>6, <3>1, <3>2, WorkQueueAssumption
          DEF ItemAt, Claimed, WorkQueueAssumption
    <3>4. Held(u)' = ItemAt(seen[u])'
          BY <1>1, <1>2, <2>1 DEF Held
    <3>5. QED
          BY <1>1, <1>7, <3>1, <3>2, <3>3, <3>4 DEF ItemAt
  <2>2. CASE pc[u] # "fetch"
        BY <1>1, <1>2, <2>2 DEF Held
  <2>3. QED
        BY <2>1, <2>2
<1>12. Accounting'
  <2>1. Pending' <= Published'
        BY <1>4, <1>5, <1>8
  <2>2. QED
        BY <1>1, <1>2, <1>8, <1>10, <2>1 DEF Ring, Accounting
<1>13. SlotsAreKept'
  <2>1. ASSUME NEW s \in Slot, Distance(s, toWrite)' \in 1 .. Published'
        PROVE  entries'[s] = ItemAt(s)'
    <3>1. s # Succ(toWrite) /\ Distance(s, toWrite) \in 0 .. Published
          BY <1>4, <1>5, <1>6, <2>1
    <3>2. CASE s = toWrite
          BY <1>1, <1>4, <1>5, <1>6, <1>7, <3>1, <3>2 DEF Ring, SlotsAreKept, ItemAt
    <3>3. CASE s # toWrite
      <4>1. Distance(s, toWrite) \in 1 .. Published
            BY <1>4, <1>6, <3>1, <3>3
      <4>2. QED
            BY <1>1, <1>7, <3>1, <4>1 DEF Ring, SlotsAreKept
    <3>4. QED
          BY <3>2, <3>3
  <2>2. QED
        BY <1>2, <2>1 DEF SlotsAreKept
<1>14. ItemsAreShared'
       BY <1>1, <1>8, <1>9, <1>11 DEF Ring, ItemsAreShared
<1>15. QED
       BY <1>12, <1>13, <1>14 DEF Ring

(***************************************************************************)
(* When the event thread resets the counters the ring is empty, nobody     *)
(* holds an entry, and every item has run once.                            *)
(***************************************************************************)
LEMMA DoneAtReset ==
  ASSUME Control, Ring, pc[Producer] = "reset"
  PROVE  /\ Pending = 0 /\ \A t \in Thread : ~Holding(t)
         /\ \A i \in 1 .. batch : runs[i] = 1
<1>1. /\ completed = filled /\ Published = filled /\ filled = batch /\ filled \in Nat
      BY DEF Ring, Accounting, Published, Control, TypeOK, Phases
<1>2. Pending \in 0 .. N - 1
      BY DistanceFacts DEF Control, TypeOK, Slot, Pending
<1>3. completed + Cardinality(Holders) = Published - Pending
      BY DEF Ring, Accounting, Claimed
<1>4. Cardinality(Holders) = 0 /\ Pending = 0
      BY <1>1, <1>2, <1>3, HoldersAreCounted, WorkQueueAssumption DEF WorkQueueAssumption
<1>5. Holders = {}
      BY <1>4, HoldersAreCounted, FS_EmptySet
<1>6. \A t \in Thread : ~Holding(t) /\ ~Active(t)
      BY <1>5 DEF Holders, Holding, Active
<1>7. Claimed = batch
      BY <1>1, <1>4 DEF Claimed
<1>8. QED
      BY <1>4, <1>6, <1>7 DEF Ring, ItemsAreShared

(***************************************************************************)
(* The counters are reset when every entry was counted and no thread holds *)
(* one.                                                                    *)
(***************************************************************************)
LEMMA RingReset ==
  ASSUME Control, Ring, CompleteReset
  PROVE  Ring'
<1> Producer \in Thread
    BY DEF Thread
<1>1. /\ pc[Producer] = "reset" /\ pc' = [pc EXCEPT ![Producer] = "idle"]
      /\ completed' = 0 /\ filled' = 0 /\ runs' = [i \in Item |-> 0]
      /\ UNCHANGED <<toRead, toWrite, entries, seen, item>>
      BY DEF CompleteReset, HandlerReturns, Goto
<1>2. /\ pc'[Producer] = "idle"
      /\ \A u \in Thread : u # Producer => pc'[u] = pc[u]
      BY <1>1 DEF Control, TypeOK
<1>3. Pending = 0 /\ \A t \in Thread : ~Holding(t)
      BY <1>1, DoneAtReset
<1>4. Published' = 0 /\ Pending' = 0 /\ Claimed' = 0
      BY <1>1, <1>2, <1>3 DEF Published, Pending, Claimed
<1>5. \A u \in Thread : ~Holding(u)' /\ ~Active(u)'
      BY <1>1, <1>2, <1>3 DEF Holding, Active
<1>6. Cardinality(Holders') = 0
  <2>1. Holders' = {}
        BY <1>5 DEF Holders
  <2>2. QED
        BY <2>1, FS_EmptySet
<1>7. Accounting'
      BY <1>1, <1>2, <1>4, <1>6 DEF Accounting
<1>8. SlotsAreKept'
      BY <1>2, <1>4 DEF SlotsAreKept
<1>9. ItemsAreShared'
      BY <1>1, <1>4, <1>5 DEF ItemsAreShared
<1>10. QED
       BY <1>7, <1>8, <1>9 DEF Ring

(***************************************************************************)
(* As long as nobody overruns the ring, every step keeps it.               *)
(***************************************************************************)
LEMMA RingStep ==
  ASSUME Control, ~overrun => Ring, Next, ~overrun'
  PROVE  Ring'
<1> USE DEF Goto, queueVars, batchVars, history
<1> Producer \in Thread
    BY DEF Thread
<1>1. ~overrun
  <2>1. \A t \in Thread : ClaimEntry(t) => (overrun' \in {overrun, overrun \/ toRead = toWrite})
        BY DEF ClaimEntry
  <2>2. CASE \E t \in Thread : ClaimEntry(t)
        BY <2>1, <2>2
  <2>3. CASE ~\E t \in Thread : ClaimEntry(t)
    <3>1. overrun' = overrun
          BY <2>3 DEF Next, HandleEvent, Work, DoNextEntry, Thread, StartBatch, WriteEntry,
             PublishEntry, PostEntry, CompleteTest, CompleteReset, ReadEntryToRead,
             TestEntryToWrite, FetchEntry, RunCallback, CountCompleted, WaitSemaphore
    <3>2. QED
          BY <3>1
  <2>4. QED
        BY <2>2, <2>3
<1>2. Ring
      BY <1>1
<1>3. ASSUME NEW k \in 0 .. MaxBatch, StartBatch(k)
      PROVE  Ring'
  <2>1. /\ pc[Producer] = "idle" /\ pc'[Producer] \in {"add", "complete"}
        /\ \A u \in Thread : u # Producer => pc'[u] = pc[u]
        BY <1>3 DEF StartBatch, NextAdd, Control, TypeOK
  <2>2. UNCHANGED <<toRead, toWrite, entries, completed, filled, runs, item, seen>>
        BY <1>3 DEF StartBatch
  <2>3. QED
        BY <1>2, <2>1, <2>2, RingUnmoved DEF Holding
<1>4. ASSUME PostEntry
      PROVE  Ring'
  <2>1. /\ pc[Producer] = "post" /\ pc'[Producer] \in {"add", "complete"}
        /\ \A u \in Thread : u # Producer => pc'[u] = pc[u]
        BY <1>4 DEF PostEntry, NextAdd, Control, TypeOK
  <2>2. UNCHANGED <<toRead, toWrite, entries, completed, filled, runs, item, seen>>
        BY <1>4 DEF PostEntry
  <2>3. QED
        BY <1>2, <2>1, <2>2, RingUnmoved DEF Holding
<1>5. ASSUME CompleteTest
      PROVE  Ring'
  <2>1. /\ pc[Producer] = "complete" /\ pc'[Producer] \in {"read", "reset"}
        /\ pc'[Producer] = "reset" => entryCount = completed
        /\ \A u \in Thread : u # Producer => pc'[u] = pc[u]
        BY <1>5 DEF CompleteTest, Control, TypeOK
  <2>2. UNCHANGED <<toRead, toWrite, entries, completed, filled, runs, item, seen>>
        BY <1>5 DEF CompleteTest
  <2>3. entryCount = filled
        BY DEF Control, Phases
  <2>4. QED
        BY <1>2, <2>1, <2>2, <2>3, RingUnmoved DEF Holding
<1>6. ASSUME NEW t \in Thread, DoNextEntry(t)
      PROVE  Ring'
  <2>1. CASE ReadEntryToRead(t) \/ TestEntryToWrite(t) \/ (ClaimEntry(t) /\ toRead # seen[t])
    <3>1. /\ pc[t] \in {"read", "test", "claim"}
          /\ pc'[t] \in {"test", "claim", "complete", "read", "wait"}
          /\ \A u \in Thread : u # t => pc'[u] = pc[u] /\ seen'[u] = seen[u]
          BY <2>1 DEF ReadEntryToRead, TestEntryToWrite, ClaimEntry, Found, FoundNone, Forget,
             Control, TypeOK
    <3>2. UNCHANGED <<toRead, toWrite, entries, completed, filled, runs, item>>
          BY <2>1 DEF ReadEntryToRead, TestEntryToWrite, ClaimEntry
    <3>3. QED
          BY <1>2, <3>1, <3>2, RingUnmoved DEF Holding
  <2>2. CASE ClaimEntry(t) /\ toRead = seen[t]
    <3>1. toRead # toWrite
          BY <2>2 DEF ClaimEntry
    <3>2. QED
          BY <1>2, <2>2, <3>1, RingClaim
  <2>3. QED
        BY <1>2, <1>6, <2>1, <2>2, RingFetch, RingRun, RingCount DEF DoNextEntry
<1>7. ASSUME NEW t \in Worker, WaitSemaphore(t)
      PROVE  Ring'
  <2>1. /\ t \in Thread /\ pc[t] = "wait" /\ pc'[t] = "read"
        /\ \A u \in Thread : u # t => pc'[u] = pc[u]
        BY <1>7 DEF WaitSemaphore, Thread, Control, TypeOK
  <2>2. UNCHANGED <<toRead, toWrite, entries, completed, filled, runs, item, seen>>
        BY <1>7 DEF WaitSemaphore
  <2>3. QED
        BY <1>2, <2>1, <2>2, RingUnmoved DEF Holding
<1>8. QED
      BY <1>2, <1>3, <1>4, <1>5, <1>6, <1>7, RingWrite, RingPublish, RingReset
      DEF Next, HandleEvent, Work, Thread

----
(***************************************************************************)
(* The inductive invariant.                                                *)
(***************************************************************************)
LEMMA InvariantHolds == Spec => [](RingInv /\ PoolInv)
<1>1. Init => RingInv /\ PoolInv
      BY ControlInit, RingInit, PoolInit DEF RingInv
<1>2. ASSUME RingInv, PoolInv, [Next]_vars
      PROVE  RingInv' /\ PoolInv'
  <2>1. CASE Next
        BY <1>2, <2>1, ControlStep, RingStep, PoolStep DEF RingInv
  <2>2. CASE UNCHANGED vars
        BY <1>2, <2>2 DEF vars, queueVars, batchVars, history, RingInv, PoolInv, Control, Ring,
           TypeOK, Phases, Accounting, SlotsAreKept, ItemsAreShared, WillLook, Published,
           Pending, Claimed, ItemAt, Active, Held, Holders, Holding
  <2>3. QED
        BY <1>2, <2>1, <2>2
<1>3. QED
      BY <1>1, <1>2, PTL DEF Spec

(***************************************************************************)
(* The counters and cursors of core/wqueue.cpp stay in their ranges: the   *)
(* cursors inside the ring and EntryCount at the subscribers of the event. *)
(***************************************************************************)
THEOREM TypeCorrect == Spec => []TypeOK
<1>1. RingInv => TypeOK
      BY DEF RingInv, Control
<1>2. QED
      BY <1>1, InvariantHolds, PTL

(***************************************************************************)
(* For any number of workers and a ring of any size: unless a late         *)
(* compare-and-swap overruns the ring, no thread holds an entry once the   *)
(* handler has returned, what it calls is an item of the current batch,    *)
(* every subscriber has run exactly once when CompleteWorkQueue returns,   *)
(* and the assertion of AddWorkQueueEntry holds.                           *)
(***************************************************************************)
THEOREM RingIsAlwaysSound == Spec => []RingIsSound
<1>1. ASSUME RingInv
      PROVE  RingIsSound
  <2> Producer \in Thread
      BY DEF Thread
  <2>1. TypeOK /\ Control
        BY <1>1 DEF RingInv, Control
  <2>2. ASSUME ~overrun, NEW t \in Thread
        PROVE  /\ Holding(t) => pc[Producer] # "idle"
               /\ pc[t] = "run" => item[t] \in 1 .. filled
    <3>1. Ring
          BY <1>1, <2>2 DEF RingInv
    <3>2. Pending \in 0 .. N - 1 /\ Published \in {filled, filled - 1} /\ filled \in Nat
          BY <2>1, DistanceFacts DEF TypeOK, Slot, Pending, Published
    <3>3. ASSUME Holding(t), pc[Producer] = "idle"
          PROVE  FALSE
      <4>1. filled = 0 /\ Published = 0
            BY <2>1, <3>3 DEF Control, Phases, Published
      <4>2. completed + Cardinality(Holders) = 0 - Pending /\ completed \in Nat
            BY <2>1, <3>1, <4>1 DEF Ring, Accounting, Claimed, TypeOK
      <4>3. Cardinality(Holders) = 0
            BY <3>2, <4>2, HoldersAreCounted, WorkQueueAssumption DEF WorkQueueAssumption
      <4>4. Holders = {}
            BY <4>3, HoldersAreCounted, FS_EmptySet
      <4>5. QED
            BY <3>3, <4>4 DEF Holders
    <3>4. ASSUME pc[t] = "run"
          PROVE  item[t] \in 1 .. filled
      <4>1. item[t] \in 1 .. Claimed
            BY <3>1, <3>4 DEF Ring, ItemsAreShared, Active, Held
      <4>2. Claimed \in Int /\ Claimed <= filled
            BY <3>2, WorkQueueAssumption DEF Claimed, WorkQueueAssumption
      <4>3. QED
            BY <3>2, <4>1, <4>2
    <3>5. QED
          BY <3>3, <3>4
  <2>3. EachRunsOnce
        BY <1>1, DoneAtReset DEF EachRunsOnce, RingInv
  <2>4. AssertionUnlessOverrun
    <3>1. ASSUME ~overrun, pc[Producer] = "add"
          PROVE  Succ(toWrite) # toRead
      <4>1. Ring /\ filled < MaxBatch
            BY <1>1, <2>1, <3>1, WorkQueueAssumption
            DEF RingInv, Control, Phases, TypeOK, WorkQueueAssumption
      <4>2. QED
            BY <2>1, <4>1, RingHasRoom
    <3>2. QED
          BY <3>1 DEF AssertionUnlessOverrun, QueueAssertion
  <2>5. QED
        BY <2>1, <2>2, <2>3, <2>4 DEF RingIsSound, NoUseAfterBatch
<1>2. QED
      BY <1>1, InvariantHolds, PTL

(***************************************************************************)
(* The semaphore never loses a wake-up: when every worker of               *)
(* WorkQueueThreadProc waits and the ring has entries, a post is there or  *)
(* about to be made.  This holds with leftover posts, and of a ring that   *)
(* has been overrun as well.                                               *)
(***************************************************************************)
THEOREM PoolStaysAwake == Spec => []PoolAwake
<1>1. PoolInv => PoolAwake
      BY DEF PoolInv, PoolAwake, WillLook
<1>2. QED
      BY <1>1, InvariantHolds, PTL
====
