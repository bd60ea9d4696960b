------------------------------ MODULE RWLockR -------------------------------
(***************************************************************************)
(* The read-write lock that prefers readers (design 4/2/rw_lock-r-test.c): *)
(* a writer does not ask for the lock before some reader has called r_lock *)
(* and set r_flag, which is never reset.                                   *)
(***************************************************************************)
EXTENDS RWThreads

VARIABLE r_flag

vars == <<lockVars, pc, ticketVars, r_flag>>

Init == InitThreads /\ r_flag = 0

-----------------------------------------------------------------------------
\* if (r_flag == 0) r_flag = 1: whoever loses the race writes the same value.
r_lock_flag(r) ==
  /\ pc[r] = "start"
  /\ r_flag' = 1
  /\ Goto(r, "rdlock")
  /\ UNCHANGED <<lockVars, ticketVars>>

r_lock_rdlock(r) ==
  /\ pc[r] = "rdlock"
  /\ rdlock(r)
  /\ Goto(r, "locked")
  /\ UNCHANGED <<ticketVars, r_flag>>

\* One turn of the loop that waits for r_flag.
w_lock_spin(w) ==
  /\ pc[w] = "start" /\ r_flag = 0
  /\ UNCHANGED vars

w_lock_flag(w) ==
  /\ pc[w] = "start" /\ r_flag # 0
  /\ Goto(w, "wrlock")
  /\ UNCHANGED <<lockVars, ticketVars, r_flag>>

w_lock_wrlock(w) ==
  /\ pc[w] = "wrlock"
  /\ wrlock(w)
  /\ Goto(w, "locked")
  /\ UNCHANGED <<ticketVars, r_flag>>

r_unlock(r) ==
  /\ pc[r] = "unlock"
  /\ unlock(r)
  /\ Goto(r, "done")
  /\ UNCHANGED <<ticketVars, r_flag>>

w_unlock(w) ==
  /\ pc[w] = "unlock"
  /\ unlock(w)
  /\ Goto(w, "done")
  /\ UNCHANGED <<ticketVars, r_flag>>

Stamp(t) ==
  (StampAcquire(t) \/ StampRelease(t)) /\ UNCHANGED r_flag

\* The threads of reader_test.c.
Reader(r) == r_lock_flag(r) \/ r_lock_rdlock(r) \/ Stamp(r) \/ r_unlock(r)
Writer(w) ==
  w_lock_spin(w) \/ w_lock_flag(w) \/ w_lock_wrlock(w) \/ Stamp(w) \/ w_unlock(w)

Next ==
  \/ \E r \in Readers : Reader(r)
  \/ \E w \in Writers : Writer(w)
  \/ Finished /\ UNCHANGED vars

Spec == Init /\ [][Next]_vars
=============================================================================
