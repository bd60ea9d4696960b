------------------------------ MODULE RWLockW -------------------------------
(***************************************************************************)
(* The read-write lock that prefers writers (design 4/2/rw_lock-w-test.c): *)
(* a writer announces itself in w_request before it waits, and a reader    *)
(* does not ask for the lock while it sees a request.  The reader's test   *)
(* and its rdlock are two steps, so its view may be stale.                 *)
(***************************************************************************)
EXTENDS RWThreads

CONSTANT NoOne

VARIABLES
  w_request,
  busy,            \* holder of the spinlock around w_request
  reg,             \* w_request as loaded by a writer's ++ or --
  ahead            \* history: writers announced and still waiting when the
                   \* reader called r_lock

vars == <<lockVars, pc, ticketVars, w_request, busy, reg, ahead>>

Init ==
  /\ InitThreads
  /\ w_request = 0 /\ busy = NoOne
  /\ reg = [w \in Writers |-> 0]
  /\ ahead = [r \in Readers |-> {}]

\* Writers that have announced themselves and do not have the lock.
Waiting == {w \in Writers : pc[w] \in {"announced", "wrlock"}}

-----------------------------------------------------------------------------
r_lock_call(r) ==
  /\ pc[r] = "start"
  /\ ahead' = [ahead EXCEPT ![r] = Waiting]
  /\ Goto(r, "test")
  /\ UNCHANGED <<lockVars, ticketVars, w_request, busy, reg>>

\* One turn of the loop that waits for w_request == 0.
r_lock_spin(r) ==
  /\ pc[r] = "test" /\ w_request # 0
  /\ UNCHANGED vars

r_lock_test(r) ==
  /\ pc[r] = "test" /\ w_request = 0
  /\ Goto(r, "rdlock")
  /\ UNCHANGED <<lockVars, ticketVars, w_request, busy, reg, ahead>>

r_lock_rdlock(r) ==
  /\ pc[r] = "rdlock"
  /\ rdlock(r)
  /\ Goto(r, "locked")
  /\ UNCHANGED <<ticketVars, w_request, busy, reg, ahead>>

r_unlock(r) ==
  /\ pc[r] = "unlock"
  /\ unlock(r)
  /\ Goto(r, "done")
  /\ UNCHANGED <<ticketVars, w_request, busy, reg, ahead>>

w_unlock(w) ==
  /\ pc[w] = "unlock"
  /\ unlock(w)
  /\ Goto(w, "done")
  /\ UNCHANGED <<ticketVars, w_request, busy, reg, ahead>>

-----------------------------------------------------------------------------
\* pthread_spin_lock(&rw->busy) and the load of w_request that follows it.
\* Mutant: the spinlock is not taken.
SpinLoadFree(w, from, to) ==
  /\ pc[w] = from
  /\ reg' = [reg EXCEPT ![w] = w_request]
  /\ Goto(w, to)
  /\ UNCHANGED <<lockVars, ticketVars, w_request, busy, ahead>>

SpinLoad(w, from, to) ==
  /\ pc[w] = from /\ busy = NoOne
  /\ busy' = w
  /\ reg' = [reg EXCEPT ![w] = w_request]
  /\ Goto(w, to)
  /\ UNCHANGED <<lockVars, ticketVars, w_request, ahead>>

SpinUnlock(w, from, to) ==
  /\ pc[w] = from
  /\ busy' = NoOne
  /\ Goto(w, to)
  /\ UNCHANGED <<lockVars, ticketVars, w_request, reg, ahead>>

w_lock_announce(w) ==
  /\ pc[w] = "announce"
  /\ w_request' = reg[w] + 1
  /\ Goto(w, "announced")
  /\ UNCHANGED <<lockVars, ticketVars, busy, reg, ahead>>

w_lock_wrlock(w) ==
  /\ pc[w] = "wrlock"
  /\ wrlock(w)
  /\ Goto(w, "owner")
  /\ UNCHANGED <<ticketVars, w_request, busy, reg, ahead>>

\* Mutant: the request is never withdrawn.
w_lock_withdraw_not(w) ==
  /\ pc[w] = "withdraw"
  /\ Goto(w, "withdrawn")
  /\ UNCHANGED <<lockVars, ticketVars, w_request, busy, reg, ahead>>

w_lock_withdraw(w) ==
  /\ pc[w] = "withdraw"
  /\ w_request' = reg[w] - 1
  /\ Goto(w, "withdrawn")
  /\ UNCHANGED <<lockVars, ticketVars, busy, reg, ahead>>

w_lock(w) ==
  \/ SpinLoad(w, "start", "announce")
  \/ w_lock_announce(w)
  \/ SpinUnlock(w, "announced", "wrlock")
  \/ w_lock_wrlock(w)
  \/ SpinLoad(w, "owner", "withdraw")
  \/ w_lock_withdraw(w)
  \/ SpinUnlock(w, "withdrawn", "locked")

r_lock(r) == r_lock_call(r) \/ r_lock_spin(r) \/ r_lock_test(r) \/ r_lock_rdlock(r)

Stamp(t) ==
  (StampAcquire(t) \/ StampRelease(t)) /\ UNCHANGED <<w_request, busy, reg, ahead>>

\* The threads of writer_test.c.
Reader(r) == r_lock(r) \/ Stamp(r) \/ r_unlock(r)
Writer(w) == w_lock(w) \/ Stamp(w) \/ w_unlock(w)

Next ==
  \/ \E r \in Readers : Reader(r)
  \/ \E w \in Writers : Writer(w)
  \/ Finished /\ UNCHANGED vars

Spec == Init /\ [][Next]_vars

-----------------------------------------------------------------------------
\* A reader that called r_lock while a writer was already waiting does not
\* get the lock before that writer: the preference the lock is built for.
WritersFirst ==
  \A r \in Readers :
    pc[r] \in {"locked", "inside", "unlock", "done"} => ahead[r] \cap Waiting = {}
=============================================================================
