------------------------ MODULE ThreadProgramsProofs ------------------------
(***************************************************************************)
(* What holds of the thread programs for any number of threads, items and  *)
(* slots: the pool of P2_3 and the lock that prefers writers, each under   *)
(* its own specification; then the lock and the semaphores' ring, whose    *)
(* invariant is SSUSemProofs's, inside the composed specification.         *)
(***************************************************************************)
EXTENDS ThreadPrograms, TLAPS

\* The mutex protects everything between lock and unlock.
MutexInv ==
  \A t \in Threads : pc[t] \in {"test", "store", "advance", "take"} <=> mutex = t

\* main has created the threads up to started and joined those up to joined.
MainInv ==
  /\ \A t \in Threads : t > started => pc[t] = "new"
  /\ \A t \in Threads : t <= joined => pc[t] = "done"
  /\ main = "exited" => joined = num_masters + num_workers

\* What a thread has tested still holds while it has the mutex, and what made
\* it leave holds forever.
TestInv ==
  \A t \in Threads :
    /\ pc[t] = "store" => item_to_produce < total_items /\ curr_buf_size < max_buf_size
    /\ pc[t] = "advance" => item_to_produce < total_items
    /\ pc[t] = "take" => curr_buf_size > 0
    /\ pc[t] = "done" => item_to_produce >= total_items
    /\ pc[t] = "done" /\ t \in Workers => curr_buf_size = 0

\* Item i has been reported by print_produced.
Reported(i) == \/ i < item_to_produce
               \/ i = item_to_produce /\ \E t \in Threads : pc[t] = "advance"

\* The stack holds reported items, each in one slot.
BufferInv ==
  /\ \A j \in 0..(curr_buf_size - 1) : buffer[j] \in Items /\ Reported(buffer[j])
  /\ \A j, k \in 0..(curr_buf_size - 1) : buffer[j] = buffer[k] => j = k

ItemInv ==
  \A i \in Items :
    /\ produced[i] = IF Reported(i) THEN 1 ELSE 0
    /\ consumed[i] = IF Reported(i) /\ i \notin Buffered THEN 1 ELSE 0

IndInv == TypeOK /\ MutexInv /\ MainInv /\ TestInv /\ BufferInv /\ ItemInv
-----------------------------------------------------------------------------
\* main's initial state satisfies the invariant.
LEMMA InitInd == Init => IndInv
<1> SUFFICES ASSUME Init PROVE IndInv
  OBVIOUS
<1> USE MWAssumption DEF Init
<1>1. TypeOK
  BY DEF TypeOK, PCs, Threads, Items
<1>2. MutexInv /\ MainInv /\ TestInv
  BY DEF MutexInv, MainInv, TestInv, Threads
<1>3. \A i \in Items : ~Reported(i)
  BY DEF Reported, Items
<1>4. BufferInv /\ ItemInv
  BY <1>3 DEF BufferInv, ItemInv
<1> QED  BY <1>1, <1>2, <1>4 DEF IndInv

\* Steps that leave the items and the stack alone, and nobody in "advance".
LEMMA ItemsKept ==
  ASSUME IndInv,
         UNCHANGED <<item_to_produce, curr_buf_size, buffer, produced, consumed>>,
         \A t \in Threads : pc'[t] = "advance" <=> pc[t] = "advance"
  PROVE  BufferInv' /\ ItemInv'
<1>1. \A i \in Items : Reported(i)' <=> Reported(i)
  BY DEF Reported
<1>2. Buffered' = Buffered
  BY DEF Buffered
<1>3. BufferInv'
  BY <1>1 DEF IndInv, BufferInv
<1>4. ItemInv'
  BY <1>1, <1>2 DEF IndInv, ItemInv
<1> QED  BY <1>3, <1>4

\* pthread_create keeps the invariant.
LEMMA CreateInd ==
  ASSUME IndInv, Create
  PROVE  IndInv'
<1> USE MWAssumption DEF IndInv
<1>0. started + 1 \in Threads /\ pc[started + 1] = "new"
  BY DEF Create, MainInv, TypeOK, Threads
<1>1. /\ pc' = [pc EXCEPT ![started + 1] = "lock"] /\ started' = started + 1
      /\ UNCHANGED <<mutex, item_to_produce, curr_buf_size, buffer, joined, main,
                     produced, consumed>>
  BY DEF Create, Goto
<1>2. TypeOK'
  <2>1. pc' \in [Threads -> PCs]
    BY <1>1 DEF TypeOK, PCs
  <2>2. started' \in 0..(num_masters + num_workers) /\ joined' \in 0..started'
    BY <1>1 DEF Create, TypeOK
  <2> QED  BY <1>1, <2>1, <2>2 DEF TypeOK
<1>3. \A t \in Threads : pc'[t] = IF t = started + 1 THEN "lock" ELSE pc[t]
  BY <1>0, <1>1 DEF TypeOK
<1>4. MutexInv'
  BY <1>0, <1>1, <1>3 DEF MutexInv
<1>5. MainInv'
  <2>1. joined \in Int /\ started \in Int /\ \A t \in Threads : t \in Int
    BY DEF TypeOK, Threads
  <2> QED  BY <1>0, <1>1, <1>3, <2>1 DEF MainInv
<1>6. TestInv'
  BY <1>1, <1>3 DEF TestInv
<1>7. BufferInv' /\ ItemInv'
  BY <1>0, <1>1, <1>3, ItemsKept
<1> QED  BY <1>2, <1>4, <1>5, <1>6, <1>7

\* pthread_join and the final cleanup keep the invariant.
LEMMA JoinCleanupInd ==
  ASSUME IndInv, Join \/ Cleanup
  PROVE  IndInv'
<1> USE MWAssumption DEF IndInv
<1>0. UNCHANGED <<mutex, item_to_produce, curr_buf_size, buffer, pc, started,
                  produced, consumed>>
  BY DEF Join, Cleanup
<1>1. CASE Join
  <2>1. TypeOK' /\ MainInv'
    BY <1>0, <1>1 DEF Join, TypeOK, MainInv, Threads
  <2>2. MutexInv' /\ TestInv'
    BY <1>0 DEF MutexInv, TestInv
  <2> QED  BY <1>0, <2>1, <2>2, ItemsKept
<1>2. CASE Cleanup
  <2>1. TypeOK' /\ MainInv'
    BY <1>0, <1>2 DEF Cleanup, TypeOK, MainInv, Threads
  <2>2. MutexInv' /\ TestInv'
    BY <1>0 DEF MutexInv, TestInv
  <2> QED  BY <1>0, <2>1, <2>2, ItemsKept
<1> QED  BY <1>1, <1>2

\* A step of thread t that changes no item and only its own place, either
\* taking, keeping or giving up the mutex, keeps the invariant if what it has
\* tested is true.
LEMMA MoveInd ==
  ASSUME IndInv, NEW t \in Threads, NEW l \in PCs \ {"new", "advance"}, Goto(t, l),
         pc[t] \in {"lock", "test"},
         mutex' = IF l \in {"test", "store", "take"} THEN t ELSE NoOne,
         mutex = IF pc[t] = "test" THEN t ELSE NoOne,
         UNCHANGED <<item_to_produce, curr_buf_size, buffer, started, joined, main,
                     produced, consumed>>,
         l = "store" => item_to_produce < total_items /\ curr_buf_size < max_buf_size,
         l = "take" => curr_buf_size > 0,
         l = "done" => item_to_produce >= total_items,
         l = "done" /\ t \in Workers => curr_buf_size = 0
  PROVE  IndInv'
<1> USE MWAssumption DEF IndInv
<1>1. pc' = [pc EXCEPT ![t] = l] /\ \A u \in Threads : pc'[u] = IF u = t THEN l ELSE pc[u]
  BY DEF Goto, TypeOK
<1>2. TypeOK'
  <2>1. pc' \in [Threads -> PCs]
    BY <1>1 DEF TypeOK
  <2>2. mutex' \in Threads \cup {NoOne}
    OBVIOUS
  <2> QED  BY <2>1, <2>2 DEF TypeOK
<1>3. MutexInv'
  <2>1. t \in Int /\ NoOne \notin Threads
    BY DEF Threads
  <2> QED  BY <1>1, <2>1 DEF MutexInv, PCs
<1>4. MainInv'
  <2>1. ~(t > started) /\ ~(t <= joined)
    BY DEF MainInv
  <2> QED  BY <1>1, <2>1 DEF MainInv
<1>5. TestInv'
  BY <1>1 DEF TestInv
<1>6. BufferInv' /\ ItemInv'
  BY <1>1, ItemsKept
<1> QED  BY <1>2, <1>3, <1>4, <1>5, <1>6

\* Taking the mutex keeps the invariant.
LEMMA LockInd ==
  ASSUME IndInv, NEW t \in Threads, Lock(t)
  PROVE  IndInv'
<1>1. "test" \in PCs \ {"new", "advance"}
  BY DEF PCs
<1> QED  BY <1>1, MoveInd DEF Lock

\* A master's tests under the mutex keep the invariant.
LEMMA MasterTestInd ==
  ASSUME IndInv, NEW t \in Threads, MasterTest(t)
  PROVE  IndInv'
<1>1. mutex = t /\ pc[t] = "test" /\ t \notin Workers
  BY MWAssumption DEF MasterTest, IndInv, MutexInv, Masters, Workers
<1>2. {"lock", "done", "store"} \subseteq PCs \ {"new", "advance"}
  BY DEF PCs
<1>3. /\ item_to_produce \in Int /\ curr_buf_size \in Int
      /\ total_items \in Int /\ max_buf_size \in Int
  BY MWAssumption DEF IndInv, TypeOK
<1>4. CASE item_to_produce >= total_items
  BY <1>1, <1>2, <1>4, MoveInd DEF MasterTest
<1>5. CASE item_to_produce < total_items /\ curr_buf_size >= max_buf_size
  BY <1>1, <1>2, <1>3, <1>5, MoveInd DEF MasterTest
<1>6. CASE item_to_produce < total_items /\ curr_buf_size < max_buf_size
  BY <1>1, <1>2, <1>3, <1>6, MoveInd DEF MasterTest
<1> QED  BY <1>3, <1>4, <1>5, <1>6

\* A worker's tests under the mutex keep the invariant.
LEMMA WorkerTestInd ==
  ASSUME IndInv, NEW t \in Threads, WorkerTest(t)
  PROVE  IndInv'
<1>1. mutex = t /\ pc[t] = "test"
  BY DEF WorkerTest, IndInv, MutexInv
<1>2. {"lock", "done", "take"} \subseteq PCs \ {"new", "advance"}
  BY DEF PCs
<1>3. curr_buf_size \in Nat
  BY MWAssumption DEF IndInv, TypeOK
<1>4. CASE curr_buf_size = 0 /\ item_to_produce >= total_items
  BY <1>1, <1>2, <1>4, MoveInd DEF WorkerTest
<1>5. CASE curr_buf_size = 0 /\ ~(item_to_produce >= total_items)
  BY <1>1, <1>2, <1>5, MoveInd DEF WorkerTest
<1>6. CASE curr_buf_size # 0
  BY <1>1, <1>2, <1>3, <1>6, MoveInd DEF WorkerTest
<1> QED  BY <1>4, <1>5, <1>6

\* A step of t, inside the mutex, to place l leaves the other threads outside
\* and main's view of them alone.
LEMMA InsideInd ==
  ASSUME IndInv, NEW t \in Threads, NEW l \in {"advance", "lock"}, Goto(t, l),
         pc[t] \in {"store", "advance", "take"},
         mutex' = IF l = "advance" THEN t ELSE NoOne,
         UNCHANGED <<started, joined, main>>
  PROVE  /\ \A u \in Threads : pc'[u] = IF u = t THEN l ELSE pc[u]
         /\ \A u \in Threads \ {t} : pc[u] \notin {"test", "store", "advance", "take"}
         /\ pc' \in [Threads -> PCs] /\ mutex' \in Threads \cup {NoOne}
         /\ MutexInv' /\ MainInv'
<1> USE MWAssumption DEF IndInv
<1>1. pc' = [pc EXCEPT ![t] = l] /\ \A u \in Threads : pc'[u] = IF u = t THEN l ELSE pc[u]
  BY DEF Goto, TypeOK
<1>2. mutex = t /\ NoOne \notin Threads
  BY DEF MutexInv, Threads
<1>3. \A u \in Threads \ {t} : pc[u] \notin {"test", "store", "advance", "take"}
  BY <1>2 DEF MutexInv
<1>4. pc' \in [Threads -> PCs] /\ mutex' \in Threads \cup {NoOne}
  BY <1>1 DEF TypeOK, PCs
<1>5. MutexInv'
  BY <1>1, <1>2, <1>3 DEF MutexInv
<1>6. MainInv'
  <2>1. ~(t > started) /\ ~(t <= joined)
    BY DEF MainInv
  <2> QED  BY <1>1, <2>1 DEF MainInv
<1> QED  BY <1>1, <1>3, <1>4, <1>5, <1>6

\* Pushing item_to_produce keeps the invariant.
LEMMA StoreInd ==
  ASSUME IndInv, NEW t \in Threads, Store(t)
  PROVE  IndInv'
<1> DEFINE i0 == item_to_produce
           c0 == curr_buf_size
<1> USE MWAssumption DEF IndInv
<1>1. /\ pc[t] = "store" /\ mutex = t
      /\ buffer' = [buffer EXCEPT ![c0] = i0] /\ curr_buf_size' = c0 + 1
      /\ produced' = [produced EXCEPT ![i0] = @ + 1]
      /\ UNCHANGED <<item_to_produce, started, joined, main, consumed, mutex>>
  BY DEF Store, MutexInv
<1>2. /\ i0 \in Items /\ c0 \in 0..(max_buf_size - 1) /\ i0 \in Nat /\ c0 \in Nat
      /\ buffer \in [0..(max_buf_size - 1) -> Items \cup {NoItem}]
      /\ produced \in [Items -> Nat]
  BY <1>1 DEF TestInv, TypeOK, Items
<1>3. /\ \A u \in Threads : pc'[u] = IF u = t THEN "advance" ELSE pc[u]
      /\ \A u \in Threads \ {t} : pc[u] \notin {"test", "store", "advance", "take"}
      /\ pc' \in [Threads -> PCs] /\ mutex' \in Threads \cup {NoOne}
      /\ MutexInv' /\ MainInv'
  BY <1>1, InsideInd DEF Store
<1>4. TypeOK'
  <2>1. buffer' \in [0..(max_buf_size - 1) -> Items \cup {NoItem}]
    BY <1>1, <1>2
  <2>2. produced' \in [Items -> Nat]
    BY <1>1, <1>2
  <2>3. curr_buf_size' \in 0..max_buf_size
    BY <1>1, <1>2
  <2> QED  BY <1>1, <1>3, <2>1, <2>2, <2>3 DEF TypeOK
<1>5. TestInv'
  <2>1. \A u \in Threads : pc[u] # "done"
    BY <1>1, <1>2 DEF TestInv, TypeOK, Items
  <2> QED  BY SMTT(60), <1>1, <1>2, <1>3, <2>1 DEF TestInv, Items
<1>6. \A i \in Items : Reported(i) <=> i < i0
  BY <1>1, <1>3 DEF Reported
<1>7. \A i \in Items : Reported(i)' <=> i <= i0
  BY <1>1, <1>2, <1>3 DEF Reported, Items
<1>8. /\ \A j \in 0..(c0 - 1) : buffer'[j] = buffer[j]
      /\ buffer'[c0] = i0
  BY <1>1, <1>2
<1>9. /\ curr_buf_size' - 1 = c0
      /\ \A j \in 0..c0 : j \in 0..(c0 - 1) \/ j = c0
  BY <1>1, <1>2
<1>10. \A j \in 0..(c0 - 1) : buffer[j] \in Items /\ buffer[j] < i0
  BY <1>6 DEF BufferInv
<1>11. BufferInv'
  <2>1. \A j \in 0..c0 : buffer'[j] \in Items /\ buffer'[j] <= i0
    BY <1>2, <1>8, <1>9, <1>10 DEF Items
  <2>2. ASSUME NEW j \in 0..c0, NEW k \in 0..c0, buffer'[j] = buffer'[k]
        PROVE  j = k
    <3>1. CASE j = c0 \/ k = c0
      <4>1. \A m \in 0..(c0 - 1) : buffer'[m] \in Int /\ buffer'[m] < i0
        BY <1>8, <1>10 DEF Items
      <4> HIDE DEF IndInv
      <4> QED  BY <1>2, <1>8, <1>9, <2>2, <3>1, <4>1
    <3>2. CASE j # c0 /\ k # c0
      BY <1>8, <1>9, <2>2, <3>2 DEF BufferInv
    <3> QED  BY <3>1, <3>2
  <2> QED  BY <1>7, <1>9, <2>1, <2>2 DEF BufferInv
<1>12. Buffered' = Buffered \cup {i0}
  <2>1. Buffered' = {buffer'[j] : j \in 0..c0}
    BY <1>9 DEF Buffered
  <2>2. 0..c0 = 0..(c0 - 1) \cup {c0}
    BY <1>2
  <2>3. {buffer'[j] : j \in 0..(c0 - 1)} = {buffer[j] : j \in 0..(c0 - 1)}
    BY <1>8
  <2>4. Buffered = {buffer[j] : j \in 0..(c0 - 1)}
    BY DEF Buffered
  <2> QED  BY <1>8, <2>1, <2>2, <2>3, <2>4, Zenon
<1>13. ItemInv'
  <2> SUFFICES ASSUME NEW i \in Items
               PROVE /\ produced'[i] = IF Reported(i)' THEN 1 ELSE 0
                     /\ consumed'[i] = IF Reported(i)' /\ i \notin Buffered' THEN 1 ELSE 0
    BY DEF ItemInv
  <2>1. i \in Int
    BY DEF Items
  <2>2. /\ produced[i] = IF i < i0 THEN 1 ELSE 0
        /\ consumed[i] = IF i < i0 /\ i \notin Buffered THEN 1 ELSE 0
    BY <1>6 DEF ItemInv
  <2>3. produced'[i] = IF i = i0 THEN produced[i] + 1 ELSE produced[i]
    BY <1>1, <1>2
  <2> QED  BY <1>1, <1>2, <1>7, <1>12, <2>1, <2>2, <2>3
<1> QED  BY <1>3, <1>4, <1>5, <1>11, <1>13

\* Counting item_to_produce up and unlocking keeps the invariant.
LEMMA AdvanceInd ==
  ASSUME IndInv, NEW t \in Threads, Advance(t)
  PROVE  IndInv'
<1> DEFINE i0 == item_to_produce
<1> USE MWAssumption DEF IndInv
<1>1. /\ pc[t] = "advance" /\ item_to_produce' = i0 + 1 /\ mutex' = NoOne
      /\ UNCHANGED <<curr_buf_size, buffer, started, joined, main, produced, consumed>>
  BY DEF Advance
<1>2. i0 \in Nat /\ i0 < total_items
  BY <1>1 DEF TestInv, TypeOK
<1>3. /\ \A u \in Threads : pc'[u] = IF u = t THEN "lock" ELSE pc[u]
      /\ \A u \in Threads \ {t} : pc[u] \notin {"test", "store", "advance", "take"}
      /\ pc' \in [Threads -> PCs] /\ mutex' \in Threads \cup {NoOne}
      /\ MutexInv' /\ MainInv'
  BY <1>1, InsideInd DEF Advance
<1>4. TypeOK'
  BY <1>1, <1>2, <1>3 DEF TypeOK
<1>5. TestInv'
  BY <1>1, <1>2, <1>3 DEF TestInv, TypeOK
<1>6. \A i \in Items : Reported(i)' <=> Reported(i)
  <2> SUFFICES ASSUME NEW i \in Items  PROVE Reported(i)' <=> Reported(i)
    OBVIOUS
  <2>1. i \in Int
    BY DEF Items
  <2>2. Reported(i) <=> i <= i0
    BY <1>1, <1>2, <2>1 DEF Reported
  <2>3. Reported(i)' <=> i < i0 + 1
    BY <1>1, <1>3 DEF Reported
  <2> QED  BY <1>2, <2>1, <2>2, <2>3
<1>7. BufferInv'
  BY <1>1, <1>6 DEF BufferInv
<1>8. ItemInv'
  <2>1. Buffered' = Buffered
    BY <1>1 DEF Buffered
  <2> QED  BY <1>1, <1>6, <2>1 DEF ItemInv
<1> QED  BY <1>3, <1>4, <1>5, <1>7, <1>8

\* Popping an item keeps the invariant.
LEMMA TakeInd ==
  ASSUME IndInv, NEW t \in Threads, Take(t)
  PROVE  IndInv'
<1> DEFINE c0 == curr_buf_size
           x  == buffer[c0 - 1]
<1> USE MWAssumption DEF IndInv
<1>1. /\ pc[t] = "take" /\ curr_buf_size' = c0 - 1 /\ mutex' = NoOne
      /\ consumed' = [consumed EXCEPT ![x] = @ + 1]
      /\ UNCHANGED <<item_to_produce, buffer, started, joined, main, produced>>
  BY DEF Take
<1>2. c0 \in Nat /\ c0 > 0 /\ c0 - 1 \in 0..(c0 - 1)
  BY <1>1 DEF TestInv, TypeOK
<1>3. /\ \A u \in Threads : pc'[u] = IF u = t THEN "lock" ELSE pc[u]
      /\ \A u \in Threads \ {t} : pc[u] \notin {"test", "store", "advance", "take"}
      /\ pc' \in [Threads -> PCs] /\ mutex' \in Threads \cup {NoOne}
      /\ MutexInv' /\ MainInv'
  BY <1>1, InsideInd DEF Take
<1>4. x \in Items /\ Reported(x)
  BY <1>2 DEF BufferInv
<1>5. TypeOK'
  <2>1. consumed' \in [Items -> Nat]
    BY <1>1, <1>4 DEF TypeOK
  <2>2. curr_buf_size' \in 0..max_buf_size
    BY <1>1, <1>2 DEF TypeOK
  <2> QED  BY <1>1, <1>3, <2>1, <2>2 DEF TypeOK
<1>6. TestInv'
  <2>1. \A u \in Threads : ~(pc[u] = "done" /\ u \in Workers)
    BY <1>2 DEF TestInv
  <2> QED  BY <1>1, <1>2, <1>3, <2>1 DEF TestInv
<1>7. \A i \in Items : Reported(i)' <=> Reported(i)
  BY <1>1, <1>3 DEF Reported
<1>8. 0..(c0 - 1) = 0..(c0 - 2) \cup {c0 - 1} /\ c0 - 1 \notin 0..(c0 - 2)
  BY <1>2
<1>9. BufferInv'
  <2>1. curr_buf_size' - 1 = c0 - 2
    BY <1>1, <1>2
  <2> QED  BY <1>1, <1>7, <1>8, <2>1 DEF BufferInv
<1>10. Buffered = Buffered' \cup {x} /\ x \notin Buffered'
  <2>1. curr_buf_size' - 1 = c0 - 2
    BY <1>1, <1>2
  <2>2. Buffered' = {buffer[j] : j \in 0..(c0 - 2)}
    BY <1>1, <2>1 DEF Buffered
  <2>3. Buffered = {buffer[j] : j \in 0..(c0 - 1)}
    BY DEF Buffered
  <2>4. Buffered = Buffered' \cup {x}
    BY <1>8, <2>2, <2>3, Zenon
  <2>5. \A j \in 0..(c0 - 2) : buffer[j] # x
    BY <1>2, <1>8 DEF BufferInv
  <2> QED  BY <2>2, <2>4, <2>5
<1>11. ItemInv'
  <2> SUFFICES ASSUME NEW i \in Items
               PROVE /\ produced'[i] = IF Reported(i)' THEN 1 ELSE 0
                     /\ consumed'[i] = IF Reported(i)' /\ i \notin Buffered' THEN 1 ELSE 0
    BY DEF ItemInv
  <2>1. consumed'[i] = IF i = x THEN consumed[i] + 1 ELSE consumed[i]
    BY <1>1, <1>4 DEF TypeOK
  <2>2. /\ produced[i] = IF Reported(i) THEN 1 ELSE 0
        /\ consumed[i] = IF Reported(i) /\ i \notin Buffered THEN 1 ELSE 0
    BY DEF ItemInv
  <2>3. i \in Buffered <=> i \in Buffered' \/ i = x
    BY <1>10
  <2> QED  BY <1>1, <1>4, <1>7, <1>10, <2>1, <2>2, <2>3
<1> QED  BY <1>3, <1>5, <1>6, <1>9, <1>11

-----------------------------------------------------------------------------
\* Every step keeps the invariant.
LEMMA NextInd == IndInv /\ [Next]_vars => IndInv'
<1> SUFFICES ASSUME IndInv, [Next]_vars PROVE IndInv'
  OBVIOUS
<1>1. CASE MainStep
  BY <1>1, CreateInd, JoinCleanupInd DEF MainStep
<1>2. ASSUME NEW t \in Threads, ThreadStep(t) PROVE IndInv'
  BY <1>2, LockInd, MasterTestInd, StoreInd, AdvanceInd, WorkerTestInd, TakeInd
     DEF ThreadStep
<1>3. CASE UNCHANGED vars
  BY <1>3 DEF vars, IndInv, TypeOK, MutexInv, MainInv, TestInv, Reported, BufferInv,
              Buffered, ItemInv
<1> QED  BY <1>1, <1>2, <1>3 DEF Next, Exited

\* The invariant holds throughout.
THEOREM Inductive == Spec => []IndInv
<1> QED  BY InitInd, NextInd, PTL DEF Spec

\* curr_buf_size and item_to_produce stay in range, and no thread stores
\* outside the malloc'ed buffer.
THEOREM TypeCorrect == Spec => []TypeOK
<1>1. IndInv => TypeOK
  BY DEF IndInv
<1> QED  BY <1>1, Inductive, PTL

\* No item is lost, duplicated or taken before it was put on the stack, for
\* any number of masters and workers.
THEOREM ItemsExactlyOnce == Spec => []ExactlyOnce
<1>1. IndInv => ExactlyOnce
  <2> SUFFICES ASSUME IndInv, NEW i \in Items
               PROVE  /\ produced[i] <= 1
                      /\ produced[i] = consumed[i] + (IF i \in Buffered THEN 1 ELSE 0)
    BY DEF ExactlyOnce
  <2>1. i \in Buffered => Reported(i)
    BY DEF Buffered, IndInv, BufferInv
  <2> QED  BY <2>1 DEF IndInv, ItemInv
<1> QED  BY <1>1, Inductive, PTL

\* When main returns every item has been produced and consumed once.
THEOREM AllItemsDone == Spec => []AllDone
<1>1. IndInv => AllDone
  <2> SUFFICES ASSUME IndInv, main = "exited", num_masters > 0, num_workers > 0,
                      NEW i \in Items
               PROVE  produced[i] = 1 /\ consumed[i] = 1
    BY DEF AllDone
  <2> DEFINE w == num_masters + 1
  <2>1. w \in Threads /\ w \in Workers /\ w <= num_masters + num_workers
    BY MWAssumption DEF Threads, Workers
  <2>2. pc[w] = "done"
    BY <2>1 DEF IndInv, MainInv
  <2>3. curr_buf_size = 0 /\ item_to_produce >= total_items
    BY <2>1, <2>2 DEF IndInv, TestInv
  <2>4. Reported(i)
    BY <2>3, MWAssumption DEF Reported, Items, IndInv, TypeOK
  <2>5. i \notin Buffered
    BY <2>3 DEF Buffered
  <2> QED  BY <2>4, <2>5 DEF IndInv, ItemInv
<1> QED  BY <1>1, Inductive, PTL

\* main frees the buffer and the mutex only when no thread can touch them.
THEOREM CleanupIsLast == Spec => []NoUseAfterFree
<1>1. IndInv => NoUseAfterFree
  <2> SUFFICES ASSUME IndInv, main = "exited"
               PROVE  mutex = NoOne /\ \A t \in Threads : pc[t] = "done"
    BY DEF NoUseAfterFree
  <2>1. \A t \in Threads : pc[t] = "done"
    BY MWAssumption DEF IndInv, MainInv, Threads
  <2> QED  BY <2>1 DEF IndInv, MutexInv, TypeOK
<1> QED  BY <1>1, Inductive, PTL

-----------------------------------------------------------------------------
INSTANCE FiniteSetTheorems

ThreadsDistinct ==
  /\ IsFiniteSet(Writers) /\ Readers \cap Writers = {}
  /\ NoOne \notin Writers

\* The threads of the lock tests are as the argument needs them.
LEMMA LockThreads == ThreadsDistinct
BY LocksAssumption, FS_Subset DEF ThreadsDistinct

\* Writers whose w_request++ is not yet taken back.
Announced == {w \in Writers : rw_pc[w] \in {"announced", "wrlock", "owner", "withdraw"}}

LockTypes ==
  /\ DOMAIN rw_pc = W!Threads /\ w_request \in Int
  /\ rw_reg \in [Writers -> Int] /\ ahead \in [Readers -> SUBSET Writers]

\* The spinlock protects the update of w_request, load and store.
SpinInv ==
  \A w \in Writers :
    /\ rw_pc[w] \in {"announce", "announced", "withdraw", "withdrawn"} <=> busy = w
    /\ rw_pc[w] \in {"announce", "withdraw"} => rw_reg[w] = w_request

\* w_request counts the announced writers.
CountInv == w_request = Cardinality(Announced)

\* A writer a reader found waiting does not announce itself again, and a
\* reader past its test has seen w_request = 0 after that writer's turn.
TurnInv ==
  \A r \in Readers :
    /\ \A w \in ahead[r] : rw_pc[w] \notin {"start", "announce"}
    /\ rw_pc[r] \in {"rdlock", "locked", "inside", "unlock", "done"}
         => ahead[r] \cap W!Waiting = {}
    /\ rw_pc[r] = "start" => ahead[r] = {}

LockIndInv == LockTypes /\ SpinInv /\ CountInv /\ TurnInv

-----------------------------------------------------------------------------
\* No writer has announced itself when the threads start.
LEMMA LockInitInd == ASSUME ThreadsDistinct, W!Init PROVE LockIndInv
<1> USE DEF W!Init, W!InitThreads
<1>1. LockTypes
  BY DEF LockTypes
<1>2. SpinInv /\ TurnInv
  BY DEF SpinInv, TurnInv, W!Threads, ThreadsDistinct, W!Waiting
<1>3. Announced = {}
  BY DEF Announced, W!Threads
<1>4. CountInv
  BY <1>3, FS_EmptySet DEF CountInv
<1> QED  BY <1>1, <1>2, <1>4 DEF LockIndInv

\* Somebody waits: then w_request is not 0, and no reader passes its test.
LEMMA WaitingSeen ==
  ASSUME ThreadsDistinct, CountInv, w_request = 0 PROVE W!Waiting = {}
<1>1. IsFiniteSet(Announced)
  BY FS_Subset DEF ThreadsDistinct, Announced
<1>2. Announced = {}
  BY <1>1, FS_EmptySet DEF CountInv
<1> QED  BY <1>2 DEF Announced, W!Waiting

\* Steps that move no writer into or out of Announced and keep w_request.
LEMMA CountKept ==
  ASSUME CountInv, Announced' = Announced, w_request' = w_request
  PROVE  CountInv'
BY DEF CountInv

\* A step of a reader outside the pthread lock and of the ticket counter.
LEMMA ReaderInd ==
  ASSUME ThreadsDistinct, LockIndInv, NEW r \in Readers, W!Reader(r) PROVE LockIndInv'
<1> USE DEF LockIndInv
<1>1. r \notin Writers /\ r \in W!Threads
  BY DEF ThreadsDistinct, W!Threads
<1>2. /\ UNCHANGED <<w_request, busy, rw_reg>>
      /\ \A w \in Writers : rw_pc'[w] = rw_pc[w]
      /\ DOMAIN rw_pc' = W!Threads
  BY <1>1 DEF W!Reader, W!r_lock, W!r_lock_call, W!r_lock_spin, W!r_lock_test, W!r_lock_rdlock,
     W!Stamp, W!StampAcquire, W!StampRelease, W!r_unlock, W!Goto, LockTypes, W!vars, W!Threads
<1>3. W!Waiting' = W!Waiting /\ Announced' = Announced
  BY <1>2 DEF W!Waiting, Announced
<1>4. SpinInv' /\ CountInv'
  BY <1>2, <1>3, CountKept DEF SpinInv
<1>5. CASE W!r_lock_call(r)
  <2>1. /\ ahead' = [ahead EXCEPT ![r] = W!Waiting]
        /\ rw_pc' = [rw_pc EXCEPT ![r] = "test"]
    BY <1>5 DEF W!r_lock_call, W!Goto
  <2>2. LockTypes'
    BY <1>2, <2>1 DEF LockTypes, W!Waiting
  <2>3. TurnInv'
    BY <1>1, <1>2, <1>3, <2>1 DEF TurnInv, LockTypes, W!Waiting, W!Threads
  <2> QED  BY <1>4, <2>2, <2>3
<1>6. CASE W!r_lock_test(r)
  <2>1. w_request = 0 /\ ahead' = ahead /\ rw_pc' = [rw_pc EXCEPT ![r] = "rdlock"]
    BY <1>6 DEF W!r_lock_test, W!Goto
  <2>2. W!Waiting = {}
    BY <2>1, WaitingSeen
  <2>3. TurnInv'
    BY <1>1, <1>2, <1>3, <2>1, <2>2 DEF TurnInv, LockTypes, W!Threads
  <2> QED  BY <1>2, <1>4, <2>1, <2>3 DEF LockTypes
<1>7. CASE W!r_lock_spin(r) \/ W!r_lock_rdlock(r) \/ W!Stamp(r) \/ W!r_unlock(r)
  <2>1. /\ ahead' = ahead
        /\ \/ rw_pc' = rw_pc
           \/ /\ rw_pc[r] \in {"rdlock", "locked", "inside", "unlock"}
              /\ \E l \in {"locked", "inside", "unlock", "done"} : rw_pc' = [rw_pc EXCEPT ![r] = l]
    BY <1>7 DEF W!r_lock_spin, W!r_lock_rdlock, W!Stamp, W!StampAcquire, W!StampRelease, W!r_unlock,
       W!Goto, W!vars
  <2>2. TurnInv'
    BY <1>1, <1>2, <1>3, <2>1 DEF TurnInv, LockTypes, W!Threads
  <2> QED  BY <1>2, <1>4, <2>1, <2>2 DEF LockTypes
<1> QED  BY <1>5, <1>6, <1>7 DEF W!Reader, W!r_lock

\* The load under the spinlock, which moves no writer into Announced.
LEMMA SpinLoadInd ==
  ASSUME ThreadsDistinct, LockIndInv, NEW w \in Writers,
         NEW from, NEW to, W!SpinLoad(w, from, to),
         \/ from = "start" /\ to = "announce"
         \/ from = "owner" /\ to = "withdraw"
  PROVE  LockIndInv'
<1> USE DEF LockIndInv
<1>1. w \notin Readers /\ w \in W!Threads
  BY DEF ThreadsDistinct, W!Threads
<1>2. /\ rw_pc[w] = from /\ busy = NoOne /\ busy' = w
      /\ rw_reg' = [rw_reg EXCEPT ![w] = w_request] /\ rw_pc' = [rw_pc EXCEPT ![w] = to]
      /\ w_request' = w_request /\ ahead' = ahead
  BY DEF W!SpinLoad, W!Goto
<1>3. LockTypes'
  BY <1>2 DEF LockTypes
<1>4. Announced' = Announced /\ W!Waiting' = W!Waiting
  BY <1>1, <1>2 DEF Announced, W!Waiting, LockTypes, W!Threads
<1>5. SpinInv'
  BY <1>1, <1>2 DEF SpinInv, LockTypes, W!Threads, ThreadsDistinct
<1>6. TurnInv'
  BY <1>1, <1>2, <1>4 DEF TurnInv, LockTypes, W!Threads
<1> QED  BY <1>2, <1>3, <1>4, <1>5, <1>6, CountKept

\* The store of w_request + 1: the writer is counted.
LEMMA AnnounceInd ==
  ASSUME ThreadsDistinct, LockIndInv, NEW w \in Writers, W!w_lock_announce(w) PROVE LockIndInv'
<1> USE DEF LockIndInv
<1>1. w \notin Readers /\ w \in W!Threads
  BY DEF ThreadsDistinct, W!Threads
<1>2. /\ rw_pc[w] = "announce" /\ w_request' = rw_reg[w] + 1
      /\ rw_pc' = [rw_pc EXCEPT ![w] = "announced"]
      /\ busy' = busy /\ rw_reg' = rw_reg /\ ahead' = ahead
  BY DEF W!w_lock_announce, W!Goto
<1>3. rw_reg[w] = w_request /\ busy = w
  BY <1>2 DEF SpinInv
<1>4. LockTypes'
  BY <1>2, <1>3 DEF LockTypes
<1>5. SpinInv'
  BY <1>1, <1>2, <1>3 DEF SpinInv, LockTypes, W!Threads
<1>6. Announced' = Announced \cup {w} /\ w \notin Announced
  BY <1>1, <1>2 DEF Announced, LockTypes, W!Threads
<1>7. IsFiniteSet(Announced)
  BY FS_Subset DEF ThreadsDistinct, Announced
<1>8. CountInv'
  BY <1>2, <1>3, <1>6, <1>7, FS_AddElement DEF CountInv
<1>9. TurnInv'
  BY <1>1, <1>2 DEF TurnInv, LockTypes, W!Threads, W!Waiting
<1> QED  BY <1>4, <1>5, <1>8, <1>9

\* The store of w_request - 1 once the writer has the lock.
LEMMA WithdrawInd ==
  ASSUME ThreadsDistinct, LockIndInv, NEW w \in Writers, W!w_lock_withdraw(w) PROVE LockIndInv'
<1> USE DEF LockIndInv
<1>1. w \notin Readers /\ w \in W!Threads
  BY DEF ThreadsDistinct, W!Threads
<1>2. /\ rw_pc[w] = "withdraw" /\ w_request' = rw_reg[w] - 1
      /\ rw_pc' = [rw_pc EXCEPT ![w] = "withdrawn"]
      /\ busy' = busy /\ rw_reg' = rw_reg /\ ahead' = ahead
  BY DEF W!w_lock_withdraw, W!Goto
<1>3. rw_reg[w] = w_request /\ busy = w
  BY <1>2 DEF SpinInv
<1>4. LockTypes'
  BY <1>2, <1>3 DEF LockTypes
<1>5. SpinInv'
  BY <1>1, <1>2, <1>3 DEF SpinInv, LockTypes, W!Threads
<1>6. Announced' = Announced \ {w} /\ w \in Announced /\ W!Waiting' = W!Waiting
  BY <1>1, <1>2 DEF Announced, W!Waiting, LockTypes, W!Threads
<1>7. IsFiniteSet(Announced)
  BY FS_Subset DEF ThreadsDistinct, Announced
<1>8. CountInv'
  <2>1. Cardinality(Announced \ {w}) = Cardinality(Announced) - 1
    BY <1>6, <1>7, FS_RemoveElement
  <2> QED  BY <1>2, <1>3, <1>6, <2>1 DEF CountInv
<1>9. TurnInv'
  BY <1>1, <1>2, <1>6 DEF TurnInv, LockTypes, W!Threads
<1> QED  BY <1>4, <1>5, <1>8, <1>9

\* What a writer does with the spinlock given up or with the pthread lock.
LEMMA WriterMovesInd ==
  ASSUME ThreadsDistinct, LockIndInv, NEW w \in Writers,
         \/ W!SpinUnlock(w, "announced", "wrlock") \/ W!SpinUnlock(w, "withdrawn", "locked")
         \/ W!w_lock_wrlock(w) \/ W!Stamp(w) \/ W!w_unlock(w)
  PROVE  LockIndInv'
<1> USE DEF LockIndInv
<1>1. w \notin Readers /\ w \in W!Threads
  BY DEF ThreadsDistinct, W!Threads
<1>2. /\ w_request' = w_request /\ rw_reg' = rw_reg /\ ahead' = ahead
      /\ \/ rw_pc[w] = "announced" /\ rw_pc' = [rw_pc EXCEPT ![w] = "wrlock"] /\ busy' = NoOne
         \/ rw_pc[w] = "withdrawn" /\ rw_pc' = [rw_pc EXCEPT ![w] = "locked"] /\ busy' = NoOne
         \/ rw_pc[w] = "wrlock" /\ rw_pc' = [rw_pc EXCEPT ![w] = "owner"] /\ busy' = busy
         \/ rw_pc[w] = "locked" /\ rw_pc' = [rw_pc EXCEPT ![w] = "inside"] /\ busy' = busy
         \/ rw_pc[w] = "inside" /\ rw_pc' = [rw_pc EXCEPT ![w] = "unlock"] /\ busy' = busy
         \/ rw_pc[w] = "unlock" /\ rw_pc' = [rw_pc EXCEPT ![w] = "done"] /\ busy' = busy
  BY DEF W!SpinUnlock, W!w_lock_wrlock, W!Stamp, W!StampAcquire, W!StampRelease, W!w_unlock, W!Goto
<1>3. LockTypes'
  BY <1>2 DEF LockTypes
<1>4. Announced' = Announced /\ W!Waiting' \subseteq W!Waiting
  BY <1>1, <1>2 DEF Announced, W!Waiting, LockTypes, W!Threads
<1>5. SpinInv'
  BY <1>1, <1>2 DEF SpinInv, LockTypes, W!Threads, ThreadsDistinct
<1>6. TurnInv'
  BY <1>1, <1>2, <1>4 DEF TurnInv, LockTypes, W!Threads
<1> QED  BY <1>2, <1>3, <1>4, <1>5, <1>6, CountKept

\* Every step keeps the invariant.
LEMMA LockNextInd == ASSUME ThreadsDistinct, LockIndInv, [W!Next]_(W!vars) PROVE LockIndInv'
<1>1. CASE UNCHANGED W!vars
  BY <1>1 DEF W!vars, LockIndInv, LockTypes, SpinInv, CountInv, TurnInv, Announced, W!Waiting
<1>2. CASE \E r \in Readers : W!Reader(r)
  BY <1>2, ReaderInd
<1>3. CASE \E w \in Writers : W!Writer(w)
  BY <1>3, SpinLoadInd, AnnounceInd, WithdrawInd, WriterMovesInd DEF W!Writer, W!w_lock
<1> QED  BY <1>1, <1>2, <1>3 DEF W!Next

\* rw_lock-w-test.c prefers writers, whatever the number of threads: a reader
\* that called r_lock while a writer was waiting has the lock only after it.
THEOREM WritersGoFirst == W!Spec => []W!WritersFirst
<1>1. W!Init => LockIndInv
  BY LockThreads, LockInitInd
<1>2. LockIndInv /\ [W!Next]_(W!vars) => LockIndInv'
  BY LockThreads, LockNextInd
<1>3. LockIndInv => W!WritersFirst
  BY DEF LockIndInv, TurnInv, W!WritersFirst
<1> QED  BY <1>1, <1>2, <1>3, PTL DEF W!Spec
-----------------------------------------------------------------------------
SP == INSTANCE SSUSemProofs WITH
        Threads <- SemThreads, pc <- sem_pc, reg <- sem_reg

\* The semaphore program is the ring's and in a state of its invariant.
SemInv == client = SP!Ring => SP!RingInv

\* The lock's variables are shared with the other lock's test, which leaves
\* the writers' own alone.
LockInv ==
  /\ program = "writers" => LockIndInv
  /\ program # "writers" => ahead = [r \in Readers |-> {}]

-----------------------------------------------------------------------------
\* The two instances of the semaphore program are the same program.
LEMMA SameSemaphore == S!Next => SP!Next
BY DEF S!Step, SP!Step, S!Joined, SP!Joined, S!Finished, SP!Finished, S!DownLock,
     SP!DownLock, S!DownTest, SP!DownTest, S!Enqueue, SP!Enqueue, S!Walk, SP!Walk, S!Link,
     SP!Link, S!Unlock, SP!Unlock, S!DecLoad, SP!DecLoad, S!DecStore, SP!DecStore,
     S!DecUnlock, SP!DecUnlock, S!Spin, SP!Spin, S!TestWaitLock, SP!TestWaitLock,
     S!TestFirst, SP!TestFirst, S!Take, SP!Take, S!TakeLoad, SP!TakeLoad, S!TakeStore,
     SP!TakeStore, S!Pop, SP!Pop, S!PopStore, SP!PopStore, S!Free, SP!Free, S!Clear,
     SP!Clear, S!UpLoad, SP!UpLoad, S!UpStore, SP!UpStore, S!Say, SP!Say, S!At, SP!At,
     S!Goto, SP!Goto, S!Return, SP!Return, S!Crash, SP!Crash, S!Running, SP!Running, S!Op,
     SP!Op, S!Sem, SP!Sem, S!Program, SP!Program, S!semVars, SP!semVars, S!nodeVars,
     SP!nodeVars, S!vars, SP!vars, S!Next, SP!Next

\* The three threads of the ring have their semaphores.
LEMMA RingFits == SP!RingFits
BY ThreadsAssumption DEF SP!RingFits

\* The ring is one client in both instances.
LEMMA SameRing == S!Ring = SP!Ring
BY DEF S!Ring, SP!Ring, S!RingProgram, SP!RingProgram, S!RingKey, SP!RingKey, S!Down, SP!Down,
   S!Up, SP!Up, S!Write, SP!Write, S!InRing, SP!InRing, S!After, SP!After

\* The threads start in a state of the invariant.
LEMMA SemStarts == ASSUME InitAll PROVE SemInv
<1>1. SP!Init(S!Clients)
  BY DEF InitAll, S!Init, SP!Init
<1> QED  BY <1>1, RingFits, SP!RingStarts DEF SemInv

\* Every step of every program keeps the invariant of the ring.
LEMMA SemNext == ASSUME SemInv, [NextAll]_allVars PROVE SemInv'
<1>1. client' = client /\ (SP!Next \/ UNCHANGED SP!vars)
  <2>1. CASE Semaphore(S!Next)
    <3>1. S!Next /\ client' = client
      BY <2>1 DEF Semaphore, S!Next, S!Joined, S!vars
    <3> QED  BY <3>1, SameSemaphore
  <2>2. CASE Pool(Next) \/ PreferWriters(W!Next) \/ PreferReaders(R!Next) \/ UNCHANGED allVars
    BY <2>2 DEF Pool, PreferWriters, PreferReaders, allVars, semVars,
       SP!vars, SP!semVars, SP!nodeVars
  <2> QED  BY <2>1, <2>2 DEF NextAll
<1>2. SP!Ring' = SP!Ring
  BY DEF SP!Ring, SP!RingProgram, SP!RingKey
<1>3. CASE client = SP!Ring
  BY <1>1, <1>3, RingFits, SP!RingNext DEF SemInv
<1>4. CASE client # SP!Ring
  BY <1>1, <1>2, <1>4 DEF SemInv
<1> QED  BY <1>3, <1>4

\* The safety part of the composed specification.
LEMMA SafetyPart == SpecAll => InitAll /\ [][NextAll]_allVars
BY PTL DEF SpecAll

\* SSU_Sem_toggle_test.c prints 0, 1, 2, 0, 1, 2, ... for any NUM_ITER: no
\* thread prints before its predecessor has, or twice in a row.
THEOREM RingInTurn == SpecAll => []InTurn
<1>1. InitAll => SemInv
  BY SemStarts
<1>2. SemInv /\ [NextAll]_allVars => SemInv'
  BY SemNext
<1>3. SemInv => InTurn
  <2> SUFFICES ASSUME SemInv, client = S!Ring PROVE InTurn
    BY DEF InTurn, S!InTurn
  <2>1. SP!InTurn /\ client = SP!Ring
    BY SameRing, RingFits, SP!TurnHolds DEF SemInv
  <2> QED  BY <2>1 DEF InTurn, S!InTurn, SP!InTurn, S!InRing, SP!InRing, S!After, SP!After,
       S!Prints, SP!Prints, S!Program, SP!Program, S!Write, SP!Write,
       S!Cardinality, SP!Cardinality
<1> QED  BY <1>1, <1>2, <1>3, SafetyPart, PTL

\* SSU_Sem_up takes no lock, and yet no update of key is lost in the ring:
\* when nobody is inside a call, key counts the completed ups and downs.
THEOREM RingUnitsExact == SpecAll => []UnitsExact
<1>1. InitAll => SemInv
  BY SemStarts
<1>2. SemInv /\ [NextAll]_allVars => SemInv'
  BY SemNext
<1>3. SemInv => UnitsExact
  <2> SUFFICES ASSUME SemInv, client = S!Ring PROVE UnitsExact
    BY DEF UnitsExact, S!UnitsExact
  <2>1. SP!UnitsExact /\ client = SP!Ring
    BY SameRing, RingFits, SP!UnitsHold DEF SemInv
  <2>2. \A op, s : S!Completed(op, s) = SP!Completed(op, s)
    BY DEF S!Completed, SP!Completed, S!Program, SP!Program, S!Cardinality, SP!Cardinality
  <2>3. \A s : S!Quiet(s) <=> SP!Quiet(s)
    BY DEF S!Quiet, SP!Quiet, S!Running, SP!Running, S!Sem, SP!Sem, S!Program, SP!Program
  <2> QED  BY <2>1, <2>2, <2>3 DEF UnitsExact, S!UnitsExact, SP!UnitsExact, S!InitKey, SP!InitKey
<1> QED  BY <1>1, <1>2, <1>3, SafetyPart, PTL

-----------------------------------------------------------------------------
\* rw_lock-w-test.c prefers writers in the composed specification as well,
\* for any sets of readers and writers.
THEOREM WritersComeFirst == SpecAll => []WritersFirst
<1>1. InitAll => LockInv
  BY LockThreads, LockInitInd DEF InitAll, LockInv, W!Init
<1>2. LockInv /\ [NextAll]_allVars => LockInv'
  <2> SUFFICES ASSUME LockInv, [NextAll]_allVars PROVE LockInv'
    OBVIOUS
  <2>1. CASE PreferWriters(W!Next)
    <3>2. program = "writers" /\ program' = program /\ LockIndInv /\ W!Next
      BY <2>1 DEF PreferWriters, LockInv
    <3>3. LockIndInv'
      BY <3>2, LockThreads, LockNextInd
    <3> QED  BY <3>2, <3>3 DEF LockInv
  <2>2. CASE PreferReaders(R!Next)
    BY <2>2 DEF PreferReaders, LockInv, wVars
  <2>3. CASE Pool(Next) \/ Semaphore(S!Next) \/ UNCHANGED allVars
    <3>1. UNCHANGED <<program, rwVars, wVars>>
      BY <2>3 DEF Pool, Semaphore, allVars
    <3>2. program = "writers" => LockIndInv'
      <4>1. UNCHANGED W!vars
        BY <3>1 DEF W!vars, W!lockVars, W!ticketVars, rwVars, wVars
      <4> QED  BY <4>1, LockThreads, LockNextInd DEF LockInv
    <3> QED  BY <3>1, <3>2 DEF LockInv, wVars
  <2> QED  BY <2>1, <2>2, <2>3 DEF NextAll
<1>3. LockInv => WritersFirst
  BY DEF LockInv, WritersFirst, W!WritersFirst, LockIndInv, TurnInv
<1> QED  BY <1>1, <1>2, <1>3, SafetyPart, PTL
=============================================================================
