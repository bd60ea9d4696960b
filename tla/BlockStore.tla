----------------------------- MODULE BlockStore -----------------------------
(***************************************************************************)
(* What the buffer cache and the disk driver of xv6 promise the log and    *)
(* the file system (the interface comment of bio.c): every block has one   *)
(* user at a time, who sees what its last user left, and bwrite returns    *)
(* only when the block is on disk.                                         *)
(***************************************************************************)
CONSTANTS Procs, Blocks, Vals, NoBlock

VARIABLES
  store,           \* contents of each block
  stable,          \* what is on disk
  uses,            \* the block each process has, or NoBlock
  syncing          \* processes inside bwrite

vars == <<store, stable, uses, syncing>>

Init ==
  /\ store \in [Blocks -> Vals] /\ stable = store
  /\ uses = [p \in Procs |-> NoBlock]
  /\ syncing = {}

Open(p, n) ==
  /\ uses[p] = NoBlock /\ \A q \in Procs : uses[q] # n
  /\ uses' = [uses EXCEPT ![p] = n]
  /\ UNCHANGED <<store, stable, syncing>>

Modify(p, v) ==
  /\ uses[p] # NoBlock /\ p \notin syncing
  /\ store' = [store EXCEPT ![uses[p]] = v]
  /\ UNCHANGED <<stable, uses, syncing>>

Sync(p, v) ==
  /\ uses[p] # NoBlock /\ p \notin syncing
  /\ store' = [store EXCEPT ![uses[p]] = v]
  /\ syncing' = syncing \cup {p}
  /\ UNCHANGED <<stable, uses>>

Flush(p) ==
  /\ p \in syncing
  /\ stable' = [stable EXCEPT ![uses[p]] = store[uses[p]]]
  /\ UNCHANGED <<store, uses, syncing>>

EndSync(p) ==
  /\ p \in syncing /\ stable[uses[p]] = store[uses[p]]
  /\ syncing' = syncing \ {p}
  /\ UNCHANGED <<store, stable, uses>>

\* A driver that needs no interrupt: the three steps at once.
SyncNow(p, v) ==
  /\ uses[p] # NoBlock /\ p \notin syncing
  /\ store' = [store EXCEPT ![uses[p]] = v]
  /\ stable' = [stable EXCEPT ![uses[p]] = v]
  /\ UNCHANGED <<uses, syncing>>

Close(p) ==
  /\ uses[p] # NoBlock /\ p \notin syncing
  /\ uses' = [uses EXCEPT ![p] = NoBlock]
  /\ UNCHANGED <<store, stable, syncing>>

Next ==
  \E p \in Procs :
    \/ \E n \in Blocks : Open(p, n)
    \/ \E v \in Vals : Modify(p, v) \/ Sync(p, v) \/ SyncNow(p, v)
    \/ Flush(p) \/ EndSync(p) \/ Close(p)

Spec == Init /\ [][Next]_vars
=============================================================================
