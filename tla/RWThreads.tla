----------------------------- MODULE RWThreads ------------------------------
(***************************************************************************)
(* What the two read-write locks of design 4/2 share: the pthread rwlock   *)
(* both wrap, and the Reader and Writer threads of reader_test.c and       *)
(* writer_test.c.  A thread takes the lock, stamps its acquisition with    *)
(* the ticket counter indx, stamps its release, and unlocks.               *)
(***************************************************************************)
EXTENDS Naturals, FiniteSets

CONSTANTS Readers, Writers

Threads == Readers \cup Writers

VARIABLES
  rdlocked, wrlocked,   \* holders of the pthread rwlock
  pc,
  indx,                 \* tickets
  acquired, released    \* acquire and release time of each thread

lockVars == <<rdlocked, wrlocked>>
ticketVars == <<indx, acquired, released>>

InitThreads ==
  /\ rdlocked = {} /\ wrlocked = {}
  /\ pc = [t \in Threads |-> "start"]
  /\ indx = 0
  /\ acquired = [t \in Threads |-> 0] /\ released = [t \in Threads |-> 0]

Goto(t, l) == pc' = [pc EXCEPT ![t] = l]

-----------------------------------------------------------------------------
\* pthread_rwlock_rdlock, _wrlock and _unlock; a caller waits until its
\* guard holds.  Which of several waiters goes first is left open.

rdlock(t) ==
  /\ wrlocked = {}
  /\ rdlocked' = rdlocked \cup {t} /\ UNCHANGED wrlocked

wrlock(t) ==
  /\ wrlocked = {} /\ rdlocked = {}
  /\ wrlocked' = {t} /\ UNCHANGED rdlocked

unlock(t) ==
  /\ rdlocked' = rdlocked \ {t} /\ wrlocked' = wrlocked \ {t}

-----------------------------------------------------------------------------
\* The body between lock and unlock; the spinlock makes each stamp one step.

StampAcquire(t) ==
  /\ pc[t] = "locked"
  /\ acquired' = [acquired EXCEPT ![t] = indx]
  /\ indx' = indx + 1
  /\ Goto(t, "inside")
  /\ UNCHANGED <<lockVars, released>>

StampRelease(t) ==
  /\ pc[t] = "inside"
  /\ released' = [released EXCEPT ![t] = indx]
  /\ indx' = indx + 1
  /\ Goto(t, "unlock")
  /\ UNCHANGED <<lockVars, acquired>>

Finished == \A t \in Threads : pc[t] = "done"
=============================================================================
