----------------------------- MODULE WorkQueue -----------------------------
(***************************************************************************)
(* core/wqueue.cpp and its client in core/callback.cpp: the event thread   *)
(* runs the plugins subscribed to an event in parallel by filling a ring   *)
(* of entries that a pool of worker threads, and the event thread itself   *)
(* in CompleteWorkQueue, empty with a compare-and-swap on EntryToRead.     *)
(*                                                                         *)
(* Every read and write of a volatile field shared between threads is an   *)
(* action of its own.  An item i stands for WorkArray + i - 1, a pointer   *)
(* into the stack frame of the handler that runs the batch.                *)
(***************************************************************************)
EXTENDS Naturals, FiniteSets

CONSTANTS Worker,        \* the threads BeginCallbackThreads creates
          Producer,      \* the event thread
          N,             \* ArrayCount(Queue->Entries), 256 in the code
          MaxBatch,      \* bound on the plugins subscribed to one event
          MaxSemaphore,  \* bound on the semaphore, leftovers included
          MaxCompleted   \* bound on EntriesCompleted once the ring is overrun

(* A handler may add as many entries as there are subscribers; the ring     *)
(* holds N - 1.  AddWorkQueueEntry asserts, but never makes sure, that this *)
(* is enough, so it is an assumption on how many plugins are loaded.        *)
ASSUME WorkQueueAssumption ==
    /\ N \in Nat \ {0}
    /\ MaxBatch \in Nat
    /\ MaxBatch < N
    /\ Producer \notin Worker
    /\ IsFiniteSet(Worker)
    /\ MaxSemaphore \in Nat
    /\ MaxCompleted \in Nat
    /\ MaxBatch <= MaxCompleted

Thread == Worker \union {Producer}
Item == 1 .. MaxBatch
NoItem == 0

VARIABLES toRead,      \* EntryToRead
          toWrite,     \* EntryToWrite
          entries,     \* Entries
          entryCount,  \* EntryCount
          completed,   \* EntriesCompleted
          semaphore,   \* value of Semaphore
          pc,          \* where each thread is
          seen,        \* its local copy of EntryToRead
          item,        \* its local copy of the claimed entry
          batch,       \* number of subscribers of the event being handled
          filled,      \* number of them added so far
          runs,        \* history: how often each item ran in this batch (0, 1, "many")
          overrun      \* history: an entry was claimed from an empty queue

queueVars == <<toRead, toWrite, entries, entryCount, completed>>
batchVars == <<batch, filled>>
history == <<runs, overrun>>
vars == <<queueVars, semaphore, pc, seen, item, batchVars, history>>

Init == /\ toRead = 0
        /\ toWrite = 0
        /\ entries = [i \in 0 .. N - 1 |-> NoItem]
        /\ entryCount = 0
        /\ completed = 0
        /\ semaphore \in {0, MaxSemaphore}  \* named, so possibly left over
        /\ pc = [t \in Thread |-> IF t = Producer THEN "idle" ELSE "read"]
        /\ seen = [t \in Thread |-> 0]
        /\ item = [t \in Thread |-> NoItem]
        /\ batch = 0
        /\ filled = 0
        /\ runs = [i \in Item |-> 0]
        /\ overrun = FALSE

Succ(i) == (i + 1) % N
Goto(t, l) == pc' = [pc EXCEPT ![t] = l]

----
(* ProcessPluginListThreaded, on the event thread: add one entry per       *)
(* subscriber, then CompleteWorkQueue.                                     *)

NextAdd(k) == IF filled < k THEN "add" ELSE "complete"

StartBatch(k) ==
    /\ pc[Producer] = "idle"
    /\ semaphore + k <= MaxSemaphore
    /\ batch' = k
    /\ Goto(Producer, NextAdd(k))
    /\ UNCHANGED <<queueVars, semaphore, seen, item, filled, history>>

(* AddWorkQueueEntry up to the compiler barrier.  Only this thread touches *)
(* EntryCount and EntryToWrite's slot, so this much is one step.           *)
WriteEntry ==
    /\ pc[Producer] = "add"
    /\ entries' = [entries EXCEPT ![toWrite] = filled + 1]
    /\ entryCount' = entryCount + 1
    /\ filled' = filled + 1
    /\ Goto(Producer, "publish")
    /\ UNCHANGED <<toRead, toWrite, completed, semaphore, seen, item, batch, history>>

(* Fault: nobody is told. *)
PublishEntry_NoPost ==
    /\ pc[Producer] = "publish"
    /\ toWrite' = Succ(toWrite)
    /\ Goto(Producer, NextAdd(batch))
    /\ UNCHANGED <<toRead, entries, entryCount, completed, semaphore, seen, item, batchVars, history>>

PublishEntry ==
    /\ pc[Producer] = "publish"
    /\ toWrite' = Succ(toWrite)
    /\ Goto(Producer, "post")
    /\ UNCHANGED <<toRead, entries, entryCount, completed, semaphore, seen, item, batchVars, history>>

PostEntry ==
    /\ pc[Producer] = "post"
    /\ semaphore' = semaphore + 1
    /\ Goto(Producer, NextAdd(batch))
    /\ UNCHANGED <<queueVars, seen, item, batchVars, history>>

CompleteTest ==
    /\ pc[Producer] = "complete"
    /\ Goto(Producer, IF entryCount # completed THEN "read" ELSE "reset")
    /\ UNCHANGED <<queueVars, semaphore, seen, item, batchVars, history>>

(* The handler returns: its List->size() and its WorkArray are gone.       *)
HandlerReturns == /\ batch' = 0
                  /\ filled' = 0
                  /\ runs' = [i \in Item |-> 0]
                  /\ Goto(Producer, "idle")

(* Fault: only one of the two counters is cleared. *)
CompleteReset_KeepCompleted ==
    /\ pc[Producer] = "reset"
    /\ entryCount' = 0
    /\ HandlerReturns
    /\ UNCHANGED <<toRead, toWrite, entries, completed, semaphore, seen, item, overrun>>

CompleteReset ==
    /\ pc[Producer] = "reset"
    /\ entryCount' = 0
    /\ completed' = 0
    /\ HandlerReturns
    /\ UNCHANGED <<toRead, toWrite, entries, semaphore, seen, item, overrun>>

----
(* DoNextWorkQueueEntry, on any thread                                     *)

(* Where a thread goes when it returns, having found work (or lost the     *)
(* race for it), or having found none.                                     *)
Found(t) == IF t = Producer THEN "complete" ELSE "read"
FoundNone(t) == IF t = Producer THEN "complete" ELSE "wait"

(* The local EntryToRead goes out of scope.                                *)
Forget(t) == seen' = [seen EXCEPT ![t] = 0]

ReadEntryToRead(t) ==
    /\ pc[t] = "read"
    /\ seen' = [seen EXCEPT ![t] = toRead]
    /\ Goto(t, "test")
    /\ UNCHANGED <<queueVars, semaphore, item, batchVars, history>>

TestEntryToWrite(t) ==
    /\ pc[t] = "test"
    /\ IF seen[t] # toWrite THEN Goto(t, "claim") /\ UNCHANGED seen
                            ELSE Goto(t, FoundNone(t)) /\ Forget(t)
    /\ UNCHANGED <<queueVars, semaphore, item, batchVars, history>>

(* Fault: a store instead of a compare-and-swap. *)
ClaimEntry_Store(t) ==
    /\ pc[t] = "claim"
    /\ toRead' = Succ(seen[t])
    /\ overrun' = (overrun \/ toRead = toWrite)
    /\ Goto(t, "fetch")
    /\ UNCHANGED <<toWrite, entries, entryCount, completed, semaphore, seen, item, batchVars, runs>>

(* The compare-and-swap looks at EntryToRead only.  If EntryToRead went     *)
(* once around the ring since it was read, it succeeds although the test    *)
(* against EntryToWrite is out of date: with an empty queue, this overruns. *)
ClaimEntry(t) ==
    /\ pc[t] = "claim"
    /\ IF toRead = seen[t]
       THEN /\ toRead' = Succ(seen[t])
            /\ overrun' = (overrun \/ toRead = toWrite)
            /\ Goto(t, "fetch")
            /\ UNCHANGED seen
       ELSE /\ Goto(t, Found(t))
            /\ Forget(t)
            /\ UNCHANGED <<toRead, overrun>>
    /\ UNCHANGED <<toWrite, entries, entryCount, completed, semaphore, item, batchVars, runs>>

FetchEntry(t) ==
    /\ pc[t] = "fetch"
    /\ item' = [item EXCEPT ![t] = entries[seen[t]]]
    /\ Goto(t, "run")
    /\ Forget(t)
    /\ UNCHANGED <<queueVars, semaphore, batchVars, history>>

(* Entry.Callback(Entry.Data) returns.                                     *)
RunCallback(t) ==
    /\ pc[t] = "run"
    /\ runs' = [i \in Item |-> IF i = item[t] /\ runs[i] < 2 THEN runs[i] + 1 ELSE runs[i]]
    /\ item' = [item EXCEPT ![t] = NoItem]
    /\ Goto(t, "count")
    /\ UNCHANGED <<queueVars, semaphore, seen, batchVars, overrun>>

CountCompleted(t) ==
    /\ pc[t] = "count"
    /\ completed < MaxCompleted
    /\ completed' = completed + 1
    /\ Goto(t, Found(t))
    /\ UNCHANGED <<toRead, toWrite, entries, entryCount, semaphore, seen, item, batchVars, history>>

(* WorkQueueThreadProc *)
WaitSemaphore(t) ==
    /\ pc[t] = "wait"
    /\ semaphore > 0
    /\ semaphore' = semaphore - 1
    /\ Goto(t, "read")
    /\ UNCHANGED <<queueVars, seen, item, batchVars, history>>

----
DoNextEntry(t) == \/ ReadEntryToRead(t)
                  \/ TestEntryToWrite(t)
                  \/ ClaimEntry(t)
                  \/ FetchEntry(t)
                  \/ RunCallback(t)
                  \/ CountCompleted(t)

HandleEvent == \/ WriteEntry
               \/ PublishEntry
               \/ PostEntry
               \/ CompleteTest
               \/ CompleteReset
               \/ DoNextEntry(Producer)

Work(t) == DoNextEntry(t) \/ WaitSemaphore(t)

Next == \/ \E k \in 0 .. MaxBatch : StartBatch(k)
        \/ HandleEvent
        \/ \E t \in Worker : Work(t)

Spec == Init /\ [][Next]_vars

(* Threads are scheduled and callbacks return; events need not come.       *)
FairSpec == Spec /\ WF_vars(HandleEvent) /\ \A t \in Worker : WF_vars(Work(t))

----
TypeOK == /\ toRead \in 0 .. N - 1
          /\ toWrite \in 0 .. N - 1
          /\ entries \in [0 .. N - 1 -> Item \union {NoItem}]
          /\ entryCount \in 0 .. MaxBatch
          /\ completed \in 0 .. MaxCompleted
          /\ semaphore \in Nat
          /\ pc \in [Thread -> {"idle", "add", "publish", "post", "complete", "reset",
                                "read", "test", "claim", "fetch", "run", "count", "wait"}]
          /\ seen \in [Thread -> 0 .. N - 1]
          /\ item \in [Thread -> Item \union {NoItem}]
          /\ batch \in 0 .. MaxBatch
          /\ filled \in 0 .. MaxBatch
          /\ runs \in [Item -> 0 .. 2]
          /\ overrun \in BOOLEAN

Holding(t) == pc[t] \in {"fetch", "run", "count"}

(***************************************************************************)
(* The pointers in the ring are pointers into the stack of the handler.    *)
(* No thread holds one, or is still to be counted, when the handler has    *)
(* returned, and the one it holds is one the current batch has added: the  *)
(* plugins of one event have all returned before the next event (and a     *)
(* plugin's unload) is handled.                                            *)
(***************************************************************************)
NoUseAfterBatch ==
    ~overrun => \A t \in Thread :
        /\ Holding(t) => pc[Producer] # "idle"
        /\ pc[t] = "run" => item[t] \in 1 .. filled

(***************************************************************************)
(* When CompleteWorkQueue returns, every subscriber of the event has been  *)
(* called exactly once, whoever called it.                                 *)
(***************************************************************************)
EachRunsOnce ==
    ~overrun /\ pc[Producer] = "reset" => \A i \in 1 .. batch : runs[i] = 1

(***************************************************************************)
(* The assertion at the top of AddWorkQueueEntry: there is a free slot.    *)
(***************************************************************************)
QueueAssertion == pc[Producer] = "add" => Succ(toWrite) # toRead

(* ... which holds as long as no thread has overrun the ring.              *)
AssertionUnlessOverrun == ~overrun => QueueAssertion

(***************************************************************************)
(* The ring as the three properties above want it: nobody holds an entry   *)
(* after its batch, each entry is run once, and one that is added has a    *)
(* free slot.                                                              *)
(***************************************************************************)
RingIsSound == TypeOK /\ NoUseAfterBatch /\ EachRunsOnce /\ AssertionUnlessOverrun

(***************************************************************************)
(* The pool does not sleep over work: if all workers wait while the ring   *)
(* has entries, a post is there for one of them or the event thread is     *)
(* about to make one.  (A leftover post can only wake somebody too early.) *)
(***************************************************************************)
PoolAwake ==
    toRead # toWrite /\ Worker # {} /\ (\A t \in Worker : pc[t] = "wait") =>
        semaphore > 0 \/ pc[Producer] = "post"

(***************************************************************************)
(* Every event handler gets out of CompleteWorkQueue, with or without help *)
(* from the workers, unless the ring has been overrun.                     *)
(***************************************************************************)
BatchCompletes == (pc[Producer] # "idle") ~> (pc[Producer] = "idle" \/ overrun)
====
