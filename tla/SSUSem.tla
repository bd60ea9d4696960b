------------------------------- MODULE SSUSem -------------------------------
(***************************************************************************)
(* The counting semaphore of design 4/3/SSU_Sem.c, under threads that run  *)
(* straight-line programs of down, up and print steps (the two tests).     *)
(*                                                                         *)
(* down takes the mutex only to test key and to queue itself; the wait and *)
(* the removal from the queue run without it, and up takes no lock at all. *)
(* The tests are built without optimisation, so key++ and key-- are a load *)
(* and a store, and every read of a field is a step of its own.  A queue   *)
(* node belongs to the down call that allocated it and is named by its     *)
(* thread.  Following a NULL pointer or a freed node sets fault, after     *)
(* which nothing is said about the program.                                *)
(***************************************************************************)
EXTENDS Integers, Sequences, FiniteSets

CONSTANTS
  Threads, Sems,
  NULL

VARIABLES
  client,          \* the program that uses the semaphores: [code, key], where
                   \* code[t] is a sequence of [op, sem] records and key the
                   \* value of each semaphore when the threads start
  key, head, lock, wait_lock,   \* the fields of SSU_Sem
  next,            \* next pointer of each thread's node
  live,            \* nodes that are allocated
  pc, ip,          \* line inside the current call, position in the program
  reg, tmp,        \* loaded value of key, pointer followed
  fault

semVars == <<key, head, lock, wait_lock>>
nodeVars == <<next, live>>
vars == <<client, semVars, nodeVars, pc, ip, reg, tmp, fault>>

Program == client.code
InitKey == client.key

\* SSU_Sem_init of every semaphore, before the threads run.
Init(clients) ==
  /\ client \in clients
  /\ key = client.key
  /\ head = [s \in Sems |-> NULL]
  /\ lock = [s \in Sems |-> NULL]
  /\ wait_lock = [s \in Sems |-> 0]
  /\ next = [t \in Threads |-> NULL] /\ live = {}
  /\ pc = [t \in Threads |-> "call"] /\ ip = [t \in Threads |-> 1]
  /\ reg = [t \in Threads |-> 0] /\ tmp = [t \in Threads |-> NULL]
  /\ fault = FALSE

Running(t) == ~fault /\ ip[t] <= Len(Program[t])
Op(t)  == Program[t][ip[t]].op
Sem(t) == Program[t][ip[t]].sem

At(t, l) == Running(t) /\ pc[t] = l
Goto(t, l) == pc' = [pc EXCEPT ![t] = l] /\ UNCHANGED <<ip, fault>>
Return(t) ==
  /\ pc' = [pc EXCEPT ![t] = "call"]
  /\ ip' = [ip EXCEPT ![t] = @ + 1]
  /\ UNCHANGED fault
Crash == fault' = TRUE /\ UNCHANGED <<semVars, nodeVars, pc, ip, reg, tmp>>

-----------------------------------------------------------------------------
\* SSU_Sem_down, holding the mutex.

DownLock(t) ==
  /\ At(t, "call") /\ Op(t) = "down" /\ lock[Sem(t)] = NULL
  /\ lock' = [lock EXCEPT ![Sem(t)] = t]
  /\ Goto(t, "test")
  /\ UNCHANGED <<key, head, wait_lock, nodeVars, reg, tmp>>

\* Mutant: <= written as <, so a caller may take a unit that is not there.
DownTestZero(t) ==
  /\ At(t, "test")
  /\ Goto(t, IF key[Sem(t)] < 0 THEN "enqueue" ELSE "dec")
  /\ UNCHANGED <<semVars, nodeVars, reg, tmp>>

DownTest(t) ==
  /\ At(t, "test")
  /\ Goto(t, IF key[Sem(t)] <= 0 THEN "enqueue" ELSE "dec")
  /\ UNCHANGED <<semVars, nodeVars, reg, tmp>>

\* tmp = s->head, and the new node.
Enqueue(t) ==
  /\ At(t, "enqueue")
  /\ tmp' = [tmp EXCEPT ![t] = head[Sem(t)]]
  /\ next' = [next EXCEPT ![t] = NULL] /\ live' = live \cup {t}
  /\ Goto(t, "walk")
  /\ UNCHANGED <<semVars, reg>>

\* An empty queue gets the node as its head; otherwise one turn of the loop
\* that looks for the last node.
Walk(t) ==
  /\ At(t, "walk")
  /\ \/ /\ tmp[t] = NULL
        /\ head' = [head EXCEPT ![Sem(t)] = t]
        /\ Goto(t, "unlock")
        /\ UNCHANGED <<key, lock, wait_lock, nodeVars, reg, tmp>>
     \/ /\ tmp[t] \in live /\ next[tmp[t]] # NULL
        /\ tmp' = [tmp EXCEPT ![t] = next[tmp[t]]]
        /\ UNCHANGED <<semVars, nodeVars, pc, ip, reg, fault>>
     \/ /\ tmp[t] \in live /\ next[tmp[t]] = NULL
        /\ Goto(t, "link")
        /\ UNCHANGED <<semVars, nodeVars, reg, tmp>>
     \/ tmp[t] \in Threads \ live /\ Crash

Link(t) ==
  /\ At(t, "link")
  /\ IF tmp[t] \in live
     THEN /\ next' = [next EXCEPT ![tmp[t]] = t]
          /\ Goto(t, "unlock")
          /\ UNCHANGED <<semVars, live, reg, tmp>>
     ELSE Crash

Unlock(t) ==
  /\ At(t, "unlock")
  /\ lock' = [lock EXCEPT ![Sem(t)] = NULL]
  /\ Goto(t, "spin")
  /\ UNCHANGED <<key, head, wait_lock, nodeVars, reg, tmp>>

\* The branch that finds key > 0: key-- and unlock.
DecLoad(t) ==
  /\ At(t, "dec")
  /\ reg' = [reg EXCEPT ![t] = key[Sem(t)]]
  /\ Goto(t, "decstore")
  /\ UNCHANGED <<semVars, nodeVars, tmp>>

DecStore(t) ==
  /\ At(t, "decstore")
  /\ key' = [key EXCEPT ![Sem(t)] = reg[t] - 1]
  /\ Goto(t, "decunlock")
  /\ UNCHANGED <<head, lock, wait_lock, nodeVars, reg, tmp>>

DecUnlock(t) ==
  /\ At(t, "decunlock")
  /\ lock' = [lock EXCEPT ![Sem(t)] = NULL]
  /\ Return(t)
  /\ UNCHANGED <<key, head, wait_lock, nodeVars, reg, tmp>>

-----------------------------------------------------------------------------
\* The wait, without the mutex: key > 0, then wait_lock == 0, then
\* head->status == &status; if one fails the loop starts over.

Spin(t) ==
  /\ At(t, "spin") /\ key[Sem(t)] > 0
  /\ Goto(t, "waitlock")
  /\ UNCHANGED <<semVars, nodeVars, reg, tmp>>

TestWaitLock(t) ==
  /\ At(t, "waitlock")
  /\ Goto(t, IF wait_lock[Sem(t)] = 0 THEN "first" ELSE "spin")
  /\ UNCHANGED <<semVars, nodeVars, reg, tmp>>

TestFirst(t) ==
  /\ At(t, "first")
  /\ IF head[Sem(t)] \in live
     THEN /\ Goto(t, IF head[Sem(t)] = t THEN "take" ELSE "spin")
          /\ UNCHANGED <<semVars, nodeVars, reg, tmp>>
     ELSE Crash

Take(t) ==
  /\ At(t, "take")
  /\ wait_lock' = [wait_lock EXCEPT ![Sem(t)] = 1]
  /\ Goto(t, "takeload")
  /\ UNCHANGED <<key, head, lock, nodeVars, reg, tmp>>

TakeLoad(t) ==
  /\ At(t, "takeload")
  /\ reg' = [reg EXCEPT ![t] = key[Sem(t)]]
  /\ Goto(t, "takestore")
  /\ UNCHANGED <<semVars, nodeVars, tmp>>

\* Mutant: the waiter leaves without consuming the unit it waited for.
TakeStoreKeeps(t) ==
  /\ At(t, "takestore")
  /\ Goto(t, "pop")
  /\ UNCHANGED <<semVars, nodeVars, reg, tmp>>

TakeStore(t) ==
  /\ At(t, "takestore")
  /\ key' = [key EXCEPT ![Sem(t)] = reg[t] - 1]
  /\ Goto(t, "pop")
  /\ UNCHANGED <<head, lock, wait_lock, nodeVars, reg, tmp>>

\* tmp = s->head and the load of s->head->next; then the store to s->head.
\* The head is the caller's own node here: only its owner removes it.
Pop(t) ==
  /\ At(t, "pop")
  /\ tmp' = [tmp EXCEPT ![t] = next[head[Sem(t)]]]
  /\ Goto(t, "popstore")
  /\ UNCHANGED <<semVars, nodeVars, reg>>

PopStore(t) ==
  /\ At(t, "popstore")
  /\ head' = [head EXCEPT ![Sem(t)] = tmp[t]]
  /\ Goto(t, "free")
  /\ UNCHANGED <<key, lock, wait_lock, nodeVars, reg, tmp>>

Free(t) ==
  /\ At(t, "free")
  /\ live' = live \ {t}
  /\ Goto(t, "clear")
  /\ UNCHANGED <<semVars, next, reg, tmp>>

Clear(t) ==
  /\ At(t, "clear")
  /\ wait_lock' = [wait_lock EXCEPT ![Sem(t)] = 0]
  /\ Return(t)
  /\ UNCHANGED <<key, head, lock, nodeVars, reg, tmp>>

-----------------------------------------------------------------------------
\* SSU_Sem_up: key++ without a lock.

UpLoad(t) ==
  /\ At(t, "call") /\ Op(t) = "up"
  /\ reg' = [reg EXCEPT ![t] = key[Sem(t)]]
  /\ Goto(t, "upstore")
  /\ UNCHANGED <<semVars, nodeVars, tmp>>

UpStore(t) ==
  /\ At(t, "upstore")
  /\ key' = [key EXCEPT ![Sem(t)] = reg[t] + 1]
  /\ Return(t)
  /\ UNCHANGED <<head, lock, wait_lock, nodeVars, reg, tmp>>

\* printf between the semaphore calls.
Say(t) ==
  /\ At(t, "call") /\ Op(t) = "print"
  /\ Return(t)
  /\ UNCHANGED <<semVars, nodeVars, reg, tmp>>

-----------------------------------------------------------------------------
Step(t) ==
  \/ DownLock(t) \/ DownTest(t) \/ Enqueue(t) \/ Walk(t) \/ Link(t)
  \/ Unlock(t) \/ DecLoad(t) \/ DecStore(t) \/ DecUnlock(t)
  \/ Spin(t) \/ TestWaitLock(t) \/ TestFirst(t) \/ Take(t) \/ TakeLoad(t)
  \/ TakeStore(t) \/ Pop(t) \/ PopStore(t) \/ Free(t) \/ Clear(t)
  \/ UpLoad(t) \/ UpStore(t) \/ Say(t)

Finished == \A t \in Threads : ip[t] > Len(Program[t])

\* main joins every thread and returns.
Joined == Finished /\ UNCHANGED vars

Next == (\E t \in Threads : Step(t) /\ UNCHANGED client) \/ Joined

-----------------------------------------------------------------------------
\* Completed calls of a kind on a semaphore.
Completed(op, s) ==
  Cardinality(UNION {{<<t, i>> : i \in {j \in 1..(ip[t] - 1) :
                        Program[t][j] = [op |-> op, sem |-> s]}}
                     : t \in Threads})

\* Nobody is inside a call on s.
Quiet(s) == \A t \in Threads : Running(t) /\ Sem(t) = s => pc[t] = "call"

=============================================================================
