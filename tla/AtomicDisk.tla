----------------------------- MODULE AtomicDisk -----------------------------
(***************************************************************************)
(* What the log promises to file-system calls: a disk whose contents       *)
(* change only by whole transactions.  A crash takes the disk back to the  *)
(* last commit, a commit happens only while no call is in progress, and    *)
(* the call that commits returns only after its updates are durable.       *)
(***************************************************************************)
EXTENDS Naturals

CONSTANTS Blocks, Vals

VARIABLES
  stable,        \* what a reboot would recover
  current,       \* what calls read
  active,        \* calls in progress
  committing     \* the last call is committing

vars == <<stable, current, active, committing>>

Init ==
  /\ stable \in [Blocks -> Vals]
  /\ current = stable
  /\ active = 0
  /\ committing = FALSE

Begin == /\ ~committing
         /\ active' = active + 1
         /\ UNCHANGED <<stable, current, committing>>

Write == /\ active > 0
         /\ \E b \in Blocks, v \in Vals : current' = [current EXCEPT ![b] = v]
         /\ UNCHANGED <<stable, active, committing>>

End == /\ active > 0
       /\ active' = active - 1
       /\ committing' = (active = 1)
       /\ UNCHANGED <<stable, current>>

Commit == /\ committing
          /\ stable' = current
          /\ UNCHANGED <<current, active, committing>>

Return == /\ committing
          /\ stable = current
          /\ committing' = FALSE
          /\ UNCHANGED <<stable, current, active>>

Crash == /\ current' = stable
         /\ active' = 0
         /\ committing' = FALSE
         /\ UNCHANGED stable

Next == Begin \/ Write \/ End \/ Commit \/ Return \/ Crash

Spec == Init /\ [][Next]_vars
=============================================================================
