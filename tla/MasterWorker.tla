---------------------------- MODULE MasterWorker ----------------------------
(***************************************************************************)
(* The master-worker program (design 4/1/master-worker.c): masters put the *)
(* items 0 .. total_items-1 on a bounded stack, workers take them off, one *)
(* mutex guards both, and main creates, joins and cleans up.  A thread     *)
(* that finds the buffer full or empty releases the mutex and tries again. *)
(***************************************************************************)
EXTENDS Integers, FiniteSets

CONSTANTS
  num_masters, num_workers,
  total_items,
  max_buf_size,
  NoItem,          \* contents of malloc'ed memory nobody has written
  NoOne            \* the mutex is free

ASSUME MWAssumption ==
  /\ num_masters \in Nat /\ num_workers \in Nat
  /\ total_items \in Nat /\ max_buf_size \in Nat
  /\ NoItem \notin Int /\ NoOne \notin Int

VARIABLES
  mutex,           \* the thread holding it
  item_to_produce, curr_buf_size, buffer,
  pc,              \* where each thread is
  started,         \* threads main has created
  joined,          \* threads main has joined
  main,            \* "exited" once main has released buffer and mutex
  produced, consumed   \* how often each item was reported

vars == <<mutex, item_to_produce, curr_buf_size, buffer, pc, started, joined,
          main, produced, consumed>>

\* Threads in the order main creates and joins them: masters, then workers.
Masters == 1..num_masters
Workers == (num_masters + 1)..(num_masters + num_workers)
Threads == 1..(num_masters + num_workers)
Items   == 0..(total_items - 1)

PCs == {"new", "lock", "test", "store", "advance", "take", "done"}

Init ==
  /\ mutex = NoOne
  /\ item_to_produce = 0 /\ curr_buf_size = 0
  /\ buffer = [i \in 0..(max_buf_size - 1) |-> NoItem]
  /\ pc = [t \in Threads |-> "new"]
  /\ started = 0 /\ joined = 0 /\ main = "running"
  /\ produced = [i \in Items |-> 0]
  /\ consumed = [i \in Items |-> 0]

Goto(t, l) == pc' = [pc EXCEPT ![t] = l]

-----------------------------------------------------------------------------
\* Mutant: cleanup without waiting for the workers.
CleanupEarly ==
  /\ started = num_masters + num_workers
  /\ joined >= num_masters /\ main = "running"
  /\ main' = "exited"
  /\ UNCHANGED <<mutex, item_to_produce, curr_buf_size, buffer, pc, started,
                 joined, produced, consumed>>

\* main: pthread_create, in order.
Create ==
  /\ started < num_masters + num_workers
  /\ started' = started + 1
  /\ Goto(started + 1, "lock")
  /\ UNCHANGED <<mutex, item_to_produce, curr_buf_size, buffer, joined, main,
                 produced, consumed>>

\* main: pthread_join, in order.
Join ==
  /\ started = num_masters + num_workers
  /\ joined < started
  /\ pc[joined + 1] = "done"
  /\ joined' = joined + 1
  /\ UNCHANGED <<mutex, item_to_produce, curr_buf_size, buffer, pc, started,
                 main, produced, consumed>>

\* main: free everything and return.
Cleanup ==
  /\ started = num_masters + num_workers
  /\ joined = started /\ main = "running"
  /\ main' = "exited"
  /\ UNCHANGED <<mutex, item_to_produce, curr_buf_size, buffer, pc, started,
                 joined, produced, consumed>>

\* pthread_mutex_lock by any thread.
Lock(t) ==
  /\ pc[t] = "lock" /\ mutex = NoOne
  /\ mutex' = t
  /\ Goto(t, "test")
  /\ UNCHANGED <<item_to_produce, curr_buf_size, buffer, started, joined, main,
                 produced, consumed>>

\* generate_requests_loop after the lock: leave, retry, or go on with the lock.
MasterTest(t) ==
  /\ pc[t] = "test" /\ t \in Masters
  /\ IF item_to_produce >= total_items
     THEN mutex' = NoOne /\ Goto(t, "done")
     ELSE IF curr_buf_size >= max_buf_size
     THEN mutex' = NoOne /\ Goto(t, "lock")
     ELSE mutex' = mutex /\ Goto(t, "store")
  /\ UNCHANGED <<item_to_produce, curr_buf_size, buffer, started, joined, main,
                 produced, consumed>>

\* Mutant: the mutex is released before item_to_produce is counted up.
StoreUnlocked(t) ==
  /\ pc[t] = "store"
  /\ buffer' = [buffer EXCEPT ![curr_buf_size] = item_to_produce]
  /\ curr_buf_size' = curr_buf_size + 1
  /\ produced' = [produced EXCEPT ![item_to_produce] = @ + 1]
  /\ mutex' = NoOne
  /\ Goto(t, "advance")
  /\ UNCHANGED <<item_to_produce, started, joined, main, consumed>>

\* buffer[curr_buf_size++] = item_to_produce; print_produced
Store(t) ==
  /\ pc[t] = "store"
  /\ buffer' = [buffer EXCEPT ![curr_buf_size] = item_to_produce]
  /\ curr_buf_size' = curr_buf_size + 1
  /\ produced' = [produced EXCEPT ![item_to_produce] = @ + 1]
  /\ Goto(t, "advance")
  /\ UNCHANGED <<mutex, item_to_produce, started, joined, main, consumed>>

\* item_to_produce++ and unlock
Advance(t) ==
  /\ pc[t] = "advance"
  /\ item_to_produce' = item_to_produce + 1
  /\ mutex' = NoOne
  /\ Goto(t, "lock")
  /\ UNCHANGED <<curr_buf_size, buffer, started, joined, main, produced, consumed>>

\* Mutant: a worker leaves as soon as everything is produced.
WorkerTestEager(t) ==
  /\ pc[t] = "test" /\ t \in Workers
  /\ IF item_to_produce >= total_items
     THEN mutex' = NoOne /\ Goto(t, "done")
     ELSE IF curr_buf_size = 0
     THEN mutex' = NoOne /\ Goto(t, "lock")
     ELSE mutex' = mutex /\ Goto(t, "take")
  /\ UNCHANGED <<item_to_produce, curr_buf_size, buffer, started, joined, main,
                 produced, consumed>>

\* generate_working_loop after the lock: an empty buffer ends the loop only
\* when nothing more will be produced.
WorkerTest(t) ==
  /\ pc[t] = "test" /\ t \in Workers
  /\ IF curr_buf_size = 0
     THEN mutex' = NoOne /\ Goto(t, IF item_to_produce >= total_items THEN "done"
                                                                     ELSE "lock")
     ELSE mutex' = mutex /\ Goto(t, "take")
  /\ UNCHANGED <<item_to_produce, curr_buf_size, buffer, started, joined, main,
                 produced, consumed>>

\* item_to_consume = buffer[--curr_buf_size]; print_consumed; unlock
Take(t) ==
  /\ pc[t] = "take"
  /\ curr_buf_size' = curr_buf_size - 1
  /\ consumed' = [consumed EXCEPT ![buffer[curr_buf_size - 1]] = @ + 1]
  /\ mutex' = NoOne
  /\ Goto(t, "lock")
  /\ UNCHANGED <<item_to_produce, buffer, started, joined, main, produced>>

-----------------------------------------------------------------------------
ThreadStep(t) == \/ Lock(t) \/ MasterTest(t) \/ Store(t) \/ Advance(t)
                 \/ WorkerTest(t) \/ Take(t)

MainStep == Create \/ Join \/ Cleanup

\* The process has returned from main.
Exited == main = "exited" /\ UNCHANGED vars

Next == MainStep \/ (\E t \in Threads : ThreadStep(t)) \/ Exited

Spec == Init /\ [][Next]_vars

-----------------------------------------------------------------------------
\* Types; curr_buf_size never leaves the allocated buffer.
TypeOK ==
  /\ mutex \in Threads \cup {NoOne}
  /\ item_to_produce \in 0..total_items
  /\ curr_buf_size \in 0..max_buf_size
  /\ buffer \in [0..(max_buf_size - 1) -> Items \cup {NoItem}]
  /\ pc \in [Threads -> PCs]
  /\ started \in 0..(num_masters + num_workers)
  /\ joined \in 0..started
  /\ main \in {"running", "exited"}
  /\ produced \in [Items -> Nat] /\ consumed \in [Items -> Nat]

\* The items on the stack.
Buffered == {buffer[j] : j \in 0..(curr_buf_size - 1)}

\* check.awk while the program runs: items are reported produced at most
\* once, in order, and consumed at most once, never before they were produced
\* and never both consumed and still buffered; no item is lost in between.
ExactlyOnce ==
  \A i \in Items :
    /\ produced[i] <= 1
    /\ produced[i] = consumed[i] + (IF i \in Buffered THEN 1 ELSE 0)

\* check.awk's verdict: when main returns, every item was reported produced
\* exactly once and consumed exactly once.
AllDone ==
  main = "exited" /\ num_masters > 0 /\ num_workers > 0 =>
    \A i \in Items : produced[i] = 1 /\ consumed[i] = 1

\* main frees the buffer and destroys the mutex only after every thread left.
NoUseAfterFree == main = "exited" => mutex = NoOne /\ \A t \in Threads : pc[t] = "done"
=============================================================================
