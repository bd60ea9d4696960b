--------------------------- MODULE Xv6ProcProofs ----------------------------
(***************************************************************************)
(* Proofs about the process table for every size NPROC of the table, every *)
(* bound on pids and every use of set_prio.                                *)
(***************************************************************************)
EXTENDS Xv6Proc, WellFoundedInduction, TLAPS

Types ==
  /\ state \in [Slots -> States]
  /\ parent \in [Slots -> Slots \cup {NULL}]
  /\ chan \in [Slots -> Slots \cup {NULL, Ticks}]
  /\ killed \in [Slots -> {0, 1}]
  /\ DOMAIN pid = Slots /\ DOMAIN at = Slots
  /\ np \in [Slots -> Slots \cup {NULL}]
  /\ cur \in Slots \cup {NULL, PANIC}

RunInv == cur # PANIC => \A p \in Slots : state[p] = "RUNNING" <=> p = cur

\* A fork in progress owns the slot it fills.
ForkInv ==
  \A p \in Slots : at[p] = "fork" =>
    /\ np[p] \in Slots /\ state[np[p]] = "EMBRYO"
    /\ state[p] \in {"RUNNING", "RUNNABLE"}
    /\ \A q \in Slots : at[q] = "fork" /\ np[q] = np[p] => q = p

\* A slot that is no process has no parent, nobody is its own, and init is
\* always there and has none.
ParentInv ==
  /\ \A p \in Slots : state[p] \in {"UNUSED", "EMBRYO"} => parent[p] = NULL
  /\ \A p \in Slots : parent[p] # p
  /\ parent[initproc] = NULL
  /\ state[initproc] \in {"SLEEPING", "RUNNABLE", "RUNNING"}

TableInv == ForkInv /\ ParentInv /\ LiveParent /\ WaitSleepsRightly /\ KilledAwake

IndInv == Types /\ RunInv /\ TableInv

-----------------------------------------------------------------------------
\* The scans of the table from its first slot on find one if there is one.
LEMMA MinIn ==
  ASSUME NEW S \in SUBSET Nat, S # {}
  PROVE  Min(S) \in S /\ \A y \in S : Min(S) <= y
<1> DEFINE R == OpToRel(<, Nat)
<1>1. IsWellFoundedOn(R, Nat)
  BY NatLessThanWellFounded
<1>2. PICK x \in S : \A y \in S : ~(<<y, x>> \in R)
  <2> HIDE DEF R
  <2> QED  BY <1>1, WFMin, Zenon
<1>3. \A y \in S : ~(y < x)
  BY <1>2 DEF OpToRel
<1>4. \A y \in S : x =< y
  BY <1>3
<1> QED  BY <1>4 DEF Min

\* The same for a set of slots.
LEMMA MinSlot == ASSUME NEW S \in SUBSET Slots, S # {} PROVE Min(S) \in S
BY MinIn, ProcAssumption DEF Slots

\* init has a slot; the other numbers are not slots.
LEMMA Numbers == /\ initproc \in Slots /\ NULL \notin Slots /\ PANIC \notin Slots
                 /\ Ticks \notin Slots /\ Ticks # NULL /\ PANIC # NULL
BY ProcAssumption DEF initproc, Slots, NULL, PANIC, Ticks

\* The table userinit leaves.
LEMMA InitInd == Init => IndInv
<1> SUFFICES ASSUME Init PROVE IndInv
  OBVIOUS
<1> USE Numbers DEF Init
<1>1. Types
  BY DEF Types, States
<1>2. RunInv /\ ForkInv /\ ParentInv
  BY DEF RunInv, ForkInv, ParentInv
<1>3. LiveParent /\ WaitSleepsRightly /\ KilledAwake
  BY DEF LiveParent, WaitSleepsRightly, KilledAwake
<1> QED  BY <1>1, <1>2, <1>3 DEF IndInv, TableInv

\* wakeup1 makes sleepers on c RUNNABLE and leaves the others alone.
LEMMA Woken ==
  ASSUME NEW st \in [Slots -> States], NEW c
  PROVE  /\ wakeup1(st, c) \in [Slots -> States]
         /\ \A p \in Slots : \/ wakeup1(st, c)[p] = st[p] /\ (st[p] = "SLEEPING" => chan[p] # c)
                             \/ st[p] = "SLEEPING" /\ wakeup1(st, c)[p] = "RUNNABLE"
BY DEF wakeup1, States

\* Steps that make processes runnable, or runnable ones running, and change
\* nobody's parent: they disturb nothing in the table.
LEMMA AwakeStep ==
  ASSUME Types, TableInv, Types',
         parent' = parent, np' = np,
         \A p \in Slots : at'[p] = "fork" => at[p] = "fork",
         \A p \in Slots :
           \/ state'[p] = state[p]
           \/ /\ state[p] \in {"SLEEPING", "RUNNABLE", "RUNNING"}
              /\ state'[p] \in {"RUNNABLE", "RUNNING"},
         \A p \in Slots : state'[p] = "SLEEPING" => chan'[p] = chan[p],
         \A p \in Slots : killed'[p] = 1 => killed[p] = 1 \/ state'[p] # "SLEEPING"
  PROVE  TableInv'
<1> USE Numbers DEF TableInv
<1>1. ForkInv'
  BY DEF ForkInv, Types
<1>2. ParentInv'
  BY DEF ParentInv, Types
<1>3. LiveParent'
  BY DEF LiveParent, Types
<1>4. WaitSleepsRightly'
  BY DEF WaitSleepsRightly, Children, Types
<1>5. KilledAwake'
  BY DEF KilledAwake
<1> QED  BY <1>1, <1>2, <1>3, <1>4, <1>5

-----------------------------------------------------------------------------
\* kill: the victim, whoever it is, does not sleep afterwards.
LEMMA KillInd ==
  ASSUME IndInv, NEW p \in Slots, NEW n, kill(p, n) PROVE IndInv'
<1> USE Numbers DEF IndInv
<1> DEFINE s == Min({q \in Slots : pid[q] = n})
<1>1. s \in Slots
  BY MinSlot DEF kill
<1>2. /\ killed' = [killed EXCEPT ![s] = 1]
      /\ state' = [state EXCEPT ![s] = IF @ = "SLEEPING" THEN "RUNNABLE" ELSE @]
      /\ UNCHANGED <<pid, parent, chan, at, np, cur>>
  BY DEF kill
<1> HIDE DEF s
<1>3. Types'
  BY <1>1, <1>2 DEF Types, States
<1>4. RunInv'
  BY <1>1, <1>2 DEF RunInv, Types
<1>5. TableInv'
  <2>1. \A q \in Slots :
           \/ state'[q] = state[q]
           \/ /\ state[q] \in {"SLEEPING", "RUNNABLE", "RUNNING"}
              /\ state'[q] \in {"RUNNABLE", "RUNNING"}
    BY <1>1, <1>2 DEF Types
  <2>2. \A q \in Slots : killed'[q] = 1 => killed[q] = 1 \/ state'[q] # "SLEEPING"
    BY <1>1, <1>2 DEF Types
  <2> QED  BY <1>2, <1>3, <2>1, <2>2, AwakeStep
<1> QED  BY <1>3, <1>4, <1>5

\* set_prio, the end of sleep and init's exit move no process.
LEMMA QuietInd ==
  ASSUME IndInv,
         \/ \E p \in Slots : sys_sleep_returns(p)
         \/ \E c \in PrioCalls : set_prio(c[1], c[2])
         \/ init_exits
  PROVE  IndInv'
<1> USE Numbers DEF IndInv
<1>1. /\ UNCHANGED <<state, pid, parent, chan, killed, np>>
      /\ cur' = cur \/ cur' = PANIC
      /\ \/ at' = at
         \/ \E p \in Slots : at' = [at EXCEPT ![p] = "user"]
  BY DEF sys_sleep_returns, set_prio, init_exits, procVars
<1>2. Types' /\ RunInv'
  BY <1>1 DEF Types, RunInv
<1>3. \A p \in Slots : at'[p] = "fork" => at[p] = "fork"
  BY <1>1 DEF Types
<1>4. TableInv'
  BY <1>1, <1>2, <1>3, AwakeStep
<1> QED  BY <1>2, <1>4

\* The clock wakes sleepers on ticks and takes the CPU away.
LEMMA ClockInd == ASSUME IndInv, yield \/ tick PROVE IndInv'
<1> USE Numbers DEF IndInv
<1> DEFINE woken == wakeup1(state, Ticks)
<1>1. /\ cur \in Slots \cup {NULL} /\ cur' = NULL
      /\ UNCHANGED <<pid, parent, chan, killed, at, np>>
      /\ state' = IF cur \in Slots THEN [woken EXCEPT ![cur] = "RUNNABLE"] ELSE woken
  BY DEF yield, tick
<1>2. /\ woken \in [Slots -> States]
      /\ \A p \in Slots : \/ woken[p] = state[p]
                          \/ state[p] = "SLEEPING" /\ woken[p] = "RUNNABLE"
  BY Woken DEF Types
<1> HIDE DEF woken
<1>3. Types'
  BY <1>1, <1>2 DEF Types, States
<1>4. RunInv'
  BY <1>1, <1>2 DEF RunInv
<1>5. \A p \in Slots :
        \/ state'[p] = state[p]
        \/ /\ state[p] \in {"SLEEPING", "RUNNABLE", "RUNNING"}
           /\ state'[p] \in {"RUNNABLE", "RUNNING"}
  BY <1>1, <1>2 DEF RunInv
<1>6. TableInv'
  BY <1>1, <1>3, <1>5, AwakeStep
<1> QED  BY <1>3, <1>4, <1>6

\* The scheduler runs a RUNNABLE process, whose chan is cleared.
LEMMA SchedulerInd == ASSUME IndInv, scheduler PROVE IndInv'
<1> USE Numbers DEF IndInv
<1> DEFINE ready == {p \in With("RUNNABLE") : p > cursor}
           hp == Highest(Min(ready))
<1>1. /\ cur = NULL /\ UNCHANGED <<pid, parent, killed, at, np>>
      /\ \/ UNCHANGED <<state, chan, cur>>
         \/ /\ ready # {}
            /\ cur' = hp
            /\ state' = [state EXCEPT ![hp] = "RUNNING"]
            /\ chan' = [chan EXCEPT ![hp] = NULL]
  BY DEF scheduler
<1>2. ready # {} => hp \in Slots /\ state[hp] = "RUNNABLE"
  <2>1. ready # {} => Min(ready) \in With("RUNNABLE")
    BY MinSlot DEF With
  <2>2. \A S \in SUBSET With("RUNNABLE") : S # {} => Min(S) \in With("RUNNABLE")
    BY MinSlot DEF With
  <2> HIDE DEF ready
  <2> QED  BY <2>1, <2>2 DEF Highest, With
<1> HIDE DEF ready, hp
<1>3. Types'
  BY <1>1, <1>2 DEF Types, States
<1>4. RunInv'
  BY <1>1, <1>2 DEF RunInv, Types
<1>5. \A p \in Slots :
        /\ \/ state'[p] = state[p]
           \/ /\ state[p] \in {"SLEEPING", "RUNNABLE", "RUNNING"}
              /\ state'[p] \in {"RUNNABLE", "RUNNING"}
        /\ state'[p] = "SLEEPING" => chan'[p] = chan[p]
  BY <1>1, <1>2 DEF Types
<1>6. TableInv'
  BY <1>1, <1>3, <1>5, AwakeStep
<1> QED  BY <1>3, <1>4, <1>6

-----------------------------------------------------------------------------
\* A new slot is nobody's child, and belongs to this fork alone.
LEMMA AllocprocInd == ASSUME IndInv, NEW p \in Slots, allocproc(p) PROVE IndInv'
<1> USE Numbers DEF IndInv, TableInv
<1> DEFINE s == Min(With("UNUSED"))
<1>1. s \in Slots /\ state[s] = "UNUSED"
  BY SMTT(60), MinSlot DEF allocproc, With
<1>2. /\ cur = p /\ at[p] = "user"
      /\ state' = [state EXCEPT ![s] = "EMBRYO"]
      /\ pid' = [pid EXCEPT ![s] = nextpid]
      /\ np' = [np EXCEPT ![p] = s] /\ at' = [at EXCEPT ![p] = "fork"]
      /\ UNCHANGED <<parent, chan, killed, cur>>
  BY DEF allocproc, InUser
<1> HIDE DEF s
<1>3. state[p] = "RUNNING"
  BY <1>2 DEF RunInv
<1>4. Types'
  BY <1>1, <1>2 DEF Types, States
<1>5. RunInv'
  BY <1>1, <1>2 DEF RunInv, Types
<1>6. ForkInv' /\ ParentInv'
  BY <1>1, <1>2, <1>3 DEF ForkInv, ParentInv, Types
<1>7. LiveParent'
  BY <1>1, <1>2 DEF LiveParent, Types
<1>8. WaitSleepsRightly' /\ KilledAwake'
  BY <1>1, <1>2 DEF WaitSleepsRightly, KilledAwake, Children, Types
<1> QED  BY <1>4, <1>5, <1>6, <1>7, <1>8

\* The slot of a failed fork becomes UNUSED; nobody was its child.
LEMMA ForkFailsInd == ASSUME IndInv, NEW p \in Slots, fork_fails(p) PROVE IndInv'
<1> USE Numbers DEF IndInv, TableInv
<1>1. /\ cur = p /\ at[p] = "fork"
      /\ state' = [state EXCEPT ![np[p]] = "UNUSED"]
      /\ np' = [np EXCEPT ![p] = NULL] /\ at' = [at EXCEPT ![p] = "user"]
      /\ UNCHANGED <<pid, parent, chan, killed, cur>>
  BY DEF fork_fails
<1>2. np[p] \in Slots /\ state[np[p]] = "EMBRYO" /\ state[p] = "RUNNING"
  BY <1>1 DEF ForkInv, RunInv
<1>3. Types' /\ RunInv'
  BY <1>1, <1>2 DEF Types, States, RunInv
<1>4. ForkInv' /\ ParentInv'
  BY <1>1, <1>2 DEF ForkInv, ParentInv, Types
<1>5. LiveParent'
  BY <1>1, <1>2 DEF LiveParent, Types
<1>6. WaitSleepsRightly' /\ KilledAwake'
  BY <1>1, <1>2 DEF WaitSleepsRightly, KilledAwake, Children, Types
<1> QED  BY <1>3, <1>4, <1>5, <1>6

\* The child is RUNNABLE and its parent RUNNING.
LEMMA ForkInd == ASSUME IndInv, NEW p \in Slots, fork(p) PROVE IndInv'
<1> USE Numbers DEF IndInv, TableInv
<1>1. /\ cur = p /\ at[p] = "fork"
      /\ parent' = [parent EXCEPT ![np[p]] = p]
      /\ state' = [state EXCEPT ![np[p]] = "RUNNABLE"]
      /\ np' = [np EXCEPT ![p] = NULL]
      /\ at' = [at EXCEPT ![p] = "user", ![np[p]] = "user"]
      /\ UNCHANGED <<pid, chan, killed, cur>>
  BY DEF fork
<1>2. np[p] \in Slots /\ state[np[p]] = "EMBRYO" /\ state[p] = "RUNNING"
  BY <1>1 DEF ForkInv, RunInv
<1>3. Types' /\ RunInv'
  BY <1>1, <1>2 DEF Types, States, RunInv
<1>4. ForkInv' /\ ParentInv'
  BY <1>1, <1>2 DEF ForkInv, ParentInv, Types
<1>5. LiveParent'
  BY <1>1, <1>2 DEF LiveParent, Types
<1>6. \A q \in Slots : parent'[q] # parent[q] => q = np[p] /\ parent[q] = NULL
  BY <1>1, <1>2 DEF ParentInv, Types
<1>7. WaitSleepsRightly' /\ KilledAwake'
  BY <1>1, <1>2, <1>6 DEF WaitSleepsRightly, KilledAwake, Children, Types
<1> QED  BY <1>3, <1>4, <1>5, <1>7

\* sys_sleep: the caller is not killed and does not sleep on itself.
LEMMA SleepInd == ASSUME IndInv, NEW p \in Slots, sys_sleep(p) PROVE IndInv'
<1> USE Numbers DEF IndInv, TableInv
<1>1. /\ cur = p /\ at[p] # "fork" /\ killed[p] = 0
      /\ state' = [state EXCEPT ![p] = "SLEEPING"]
      /\ chan' = [chan EXCEPT ![p] = Ticks] /\ at' = [at EXCEPT ![p] = "ticks"]
      /\ cur' = NULL
      /\ UNCHANGED <<pid, parent, killed, np>>
  BY DEF sys_sleep, InUser
<1>2. state[p] = "RUNNING"
  BY <1>1 DEF RunInv
<1>3. Types' /\ RunInv'
  BY <1>1, <1>2 DEF Types, States, RunInv
<1>4. ForkInv' /\ ParentInv'
  BY <1>1, <1>2 DEF ForkInv, ParentInv, Types
<1>5. LiveParent'
  BY <1>1, <1>2 DEF LiveParent, Types
<1>6. WaitSleepsRightly' /\ KilledAwake'
  BY <1>1, <1>2 DEF WaitSleepsRightly, KilledAwake, Children, Types
<1> QED  BY <1>3, <1>4, <1>5, <1>6

\* exit: the parent is woken for the new zombie, init for those it inherits,
\* and nobody is left with the exiting process as parent.
LEMMA ExitInd == ASSUME IndInv, NEW p \in Slots, exit(p) PROVE IndInv'
<1> USE Numbers DEF IndInv, TableInv
<1> DEFINE woken == wakeup1(state, parent[p])
           inherits == \E c \in Children(p) : state[c] = "ZOMBIE"
           st == IF inherits THEN wakeup1(woken, initproc) ELSE woken
<1>1. /\ cur = p /\ at[p] = "user" /\ p # initproc /\ cur' = NULL
      /\ state' = [st EXCEPT ![p] = "ZOMBIE"]
      /\ parent' = [c \in Slots |-> IF c \in Children(p) THEN initproc ELSE parent[c]]
      /\ UNCHANGED <<pid, chan, killed, at, np>>
  BY DEF exit
<1>2. state[p] = "RUNNING" /\ \A q \in Slots : state[q] = "RUNNING" => q = p
  BY <1>1 DEF RunInv
<1>3. /\ woken \in [Slots -> States]
      /\ \A q \in Slots :
           \/ woken[q] = state[q] /\ (state[q] = "SLEEPING" => chan[q] # parent[p])
           \/ state[q] = "SLEEPING" /\ woken[q] = "RUNNABLE"
  BY Woken DEF Types
<1> HIDE DEF woken
<1>4. /\ wakeup1(woken, initproc) \in [Slots -> States]
      /\ \A q \in Slots :
           \/ /\ wakeup1(woken, initproc)[q] = woken[q]
              /\ woken[q] = "SLEEPING" => chan[q] # initproc
           \/ woken[q] = "SLEEPING" /\ wakeup1(woken, initproc)[q] = "RUNNABLE"
  BY <1>3, Woken
<1>5. /\ st \in [Slots -> States]
      /\ \A q \in Slots :
           \/ /\ st[q] = state[q]
              /\ state[q] = "SLEEPING" =>
                   chan[q] # parent[p] /\ (inherits => chan[q] # initproc)
           \/ state[q] = "SLEEPING" /\ st[q] = "RUNNABLE"
  BY <1>3, <1>4
<1> HIDE DEF st, inherits
<1>6. Types' /\ RunInv'
  BY <1>1, <1>2, <1>5 DEF Types, States, RunInv
<1>7. ForkInv' /\ ParentInv'
  BY <1>1, <1>2, <1>5 DEF ForkInv, ParentInv, Types, Children
<1>8. LiveParent'
  BY <1>1, <1>2, <1>5 DEF LiveParent, ParentInv, Types, Children
<1>9. KilledAwake'
  BY <1>1, <1>2, <1>5 DEF KilledAwake, Types
<1>10. WaitSleepsRightly'
  <2> SUFFICES ASSUME NEW q \in Slots, state'[q] = "SLEEPING", chan'[q] = q
               PROVE  /\ \E c \in Slots : parent'[c] = q
                      /\ \A c \in Slots : parent'[c] = q => state'[c] # "ZOMBIE"
    BY DEF WaitSleepsRightly, Children
  <2>1. /\ q # p /\ state[q] = "SLEEPING" /\ chan[q] = q /\ q # parent[p]
        /\ inherits => q # initproc
    BY <1>1, <1>5
  <2>2. /\ \E c \in Slots : parent[c] = q
        /\ \A c \in Slots : parent[c] = q => state[c] # "ZOMBIE"
    BY <2>1 DEF WaitSleepsRightly, Children
  <2>3. \E c \in Slots : parent'[c] = q
    BY <1>1, <2>1, <2>2 DEF Children
  <2>4. ASSUME NEW c \in Slots, parent'[c] = q PROVE state'[c] # "ZOMBIE"
    <3>1. CASE parent[c] = p
      <4>1. c # p /\ q = initproc /\ ~inherits
        BY <1>1, <2>1, <2>4, <3>1 DEF Children, ParentInv
      <4>2. state[c] # "ZOMBIE"
        BY <3>1, <4>1 DEF Children, inherits
      <4> QED  BY <1>1, <1>5, <4>1, <4>2
    <3>2. CASE parent[c] # p
      BY SMTT(60), <1>1, <1>2, <1>5, <2>1, <2>2, <2>4, <3>2 DEF Children
    <3> QED  BY <3>1, <3>2
  <2> QED  BY <2>3, <2>4
<1> QED  BY <1>6, <1>7, <1>8, <1>9, <1>10

\* wait: the reaped slot is nobody's parent, and who goes to sleep has looked
\* at all its children.
LEMMA WaitInd == ASSUME IndInv, NEW p \in Slots, wait(p) PROVE IndInv'
<1> USE Numbers DEF IndInv, TableInv
<1> DEFINE zombies == Children(p) \cap With("ZOMBIE")
           z == Min(zombies)
<1>1. cur = p /\ at[p] # "fork" /\ np' = np
  BY DEF wait, InUser
<1>2. state[p] = "RUNNING" /\ \A q \in Slots : state[q] = "RUNNING" => q = p
  BY <1>1 DEF RunInv
<1>3. CASE /\ zombies # {}
           /\ state' = [state EXCEPT ![z] = "UNUSED"]
           /\ pid' = [pid EXCEPT ![z] = 0]
           /\ parent' = [parent EXCEPT ![z] = NULL]
           /\ killed' = [killed EXCEPT ![z] = 0]
           /\ at' = [at EXCEPT ![p] = "user"]
           /\ UNCHANGED <<chan, cur>>
  <2>1. z \in Slots /\ state[z] = "ZOMBIE" /\ parent[z] = p
    BY <1>3, MinSlot DEF Children, With
  <2> HIDE DEF z, zombies
  <2>2. Types' /\ RunInv'
    BY <1>1, <1>2, <1>3, <2>1 DEF Types, States, RunInv
  <2>3. ForkInv' /\ ParentInv'
    BY <1>1, <1>2, <1>3, <2>1 DEF ForkInv, ParentInv, Types
  <2>4. LiveParent'
    BY <1>1, <1>2, <1>3, <2>1 DEF LiveParent, Types
  <2>5. WaitSleepsRightly' /\ KilledAwake'
    BY <1>1, <1>2, <1>3, <2>1 DEF WaitSleepsRightly, KilledAwake, Children, Types
  <2> QED  BY <2>2, <2>3, <2>4, <2>5
<1>4. CASE /\ at' = [at EXCEPT ![p] = "user"]
           /\ UNCHANGED <<state, pid, parent, killed, chan, cur>>
  <2>1. Types' /\ RunInv'
    BY <1>1, <1>4 DEF Types, RunInv
  <2>2. \A q \in Slots : at'[q] = "fork" => at[q] = "fork"
    BY <1>4 DEF Types
  <2>3. TableInv'
    BY SMTT(60), <1>1, <1>4, <2>1, <2>2, AwakeStep
  <2> QED  BY <2>1, <2>3
<1>5. CASE /\ zombies = {} /\ Children(p) # {} /\ killed[p] = 0
           /\ state' = [state EXCEPT ![p] = "SLEEPING"]
           /\ chan' = [chan EXCEPT ![p] = p]
           /\ at' = [at EXCEPT ![p] = "wait"]
           /\ cur' = NULL
           /\ UNCHANGED <<pid, parent, killed>>
  <2>1. Types' /\ RunInv'
    BY SMTT(60), <1>1, <1>2, <1>5 DEF Types, States, RunInv
  <2>2. ForkInv' /\ ParentInv'
    BY <1>1, <1>2, <1>5 DEF ForkInv, ParentInv, Types
  <2>3. LiveParent'
    BY <1>1, <1>2, <1>5 DEF LiveParent, Types
  <2>4. WaitSleepsRightly' /\ KilledAwake'
    BY <1>1, <1>2, <1>5 DEF WaitSleepsRightly, KilledAwake, Children, With, Types
  <2> QED  BY <2>1, <2>2, <2>3, <2>4
<1> QED  BY <1>3, <1>4, <1>5 DEF wait

-----------------------------------------------------------------------------
\* Every step of the processes, the clock and the scheduler keeps the invariant.
LEMMA NextInd == ASSUME IndInv, [Next]_vars PROVE IndInv'
<1>1. CASE UNCHANGED vars
  BY <1>1 DEF vars, IndInv, TableInv, Types, RunInv, ForkInv, ParentInv, LiveParent,
     WaitSleepsRightly, KilledAwake, Children
<1>2. ASSUME NEW p \in Slots,
             \/ allocproc(p) \/ fork_fails(p) \/ fork(p) \/ exit(p) \/ wait(p)
             \/ sys_sleep(p) \/ \E n \in 0..MaxPid : kill(p, n)
      PROVE  IndInv'
  BY <1>2, AllocprocInd, ForkFailsInd, ForkInd, ExitInd, WaitInd, SleepInd, KillInd
<1>3. CASE yield \/ tick \/ scheduler
  BY <1>3, ClockInd, SchedulerInd
<1>4. CASE \/ \E p \in Slots : sys_sleep_returns(p)
           \/ \E c \in PrioCalls : set_prio(c[1], c[2])
           \/ init_exits
  BY <1>4, QuietInd
<1> QED  BY SMTT(60), <1>1, <1>2, <1>3, <1>4 DEF Next

\* The invariant holds always.
LEMMA Invariance == Spec => []IndInv
<1>1. IndInv /\ [Next]_vars => IndInv'
  BY NextInd
<1> QED  BY <1>1, InitInd, PTL DEF Spec

\* The CPU runs the one process marked RUNNING, whatever kill, sleep, wakeup
\* and the clock do.
THEOREM RunsOne == Spec => []OneRunning
<1>1. IndInv => OneRunning
  BY Numbers DEF IndInv, Types, RunInv, OneRunning, With
<1> QED  BY <1>1, Invariance, PTL

\* exit leaves no process without a living parent.
THEOREM ParentsLive == Spec => []LiveParent
<1>1. IndInv => LiveParent
  BY DEF IndInv, TableInv
<1> QED  BY <1>1, Invariance, PTL

\* Nobody sleeps in wait with a zombie to reap, or without a child: exit's
\* wakeup before the state is ZOMBIE is not lost.
THEOREM WaitersWoken == Spec => []WaitSleepsRightly
<1>1. IndInv => WaitSleepsRightly
  BY DEF IndInv, TableInv
<1> QED  BY <1>1, Invariance, PTL

\* kill wakes its victim, and a killed process does not go to sleep again.
THEOREM KilledDoNotSleep == Spec => []KilledAwake
<1>1. IndInv => KilledAwake
  BY DEF IndInv, TableInv
<1> QED  BY <1>1, Invariance, PTL

-----------------------------------------------------------------------------
\* Finitely many slots have a bounded priority.  By the least counterexample:
\* the slots up to n - 1 are bounded, so those up to n are.
LEMMA Bounded ==
  ASSUME NEW f \in [Slots -> Nat] PROVE \E b \in Nat : \A q \in Slots : f[q] <= b
<1> DEFINE Bound(n, b) == \A q \in Slots : q <= n => f[q] <= b
           S == {n \in Nat : \A b \in Nat : ~Bound(n, b)}
<1>1. SUFFICES ASSUME S # {} PROVE FALSE
  <2>1. \E b \in Nat : Bound(NPROC, b)
    BY <1>1, ProcAssumption
  <2> QED  BY <2>1, ProcAssumption DEF Slots
<1> DEFINE n == Min(S)
<1>2. n \in S /\ \A y \in S : n <= y
  <2>1. S \in SUBSET Nat
    OBVIOUS
  <2> HIDE DEF S
  <2> QED  BY <1>1, <2>1, MinIn
<1> HIDE DEF n
<1>3. n # 0
  <2>1. Bound(0, 0)
    BY ProcAssumption DEF Slots
  <2> QED  BY <1>2, <2>1
<1>4. PICK b \in Nat : Bound(n - 1, b)
  <2>1. n - 1 \in Nat /\ n - 1 \notin S
    BY <1>2, <1>3
  <2> QED  BY <2>1
<1>5. CASE n \in Slots
  <2>1. ASSUME NEW q \in Slots, q <= n PROVE f[q] <= b + f[n]
    <3>1. q \in Nat /\ n \in Nat /\ f[q] \in Nat /\ f[n] \in Nat
      <4>1. q \in Nat /\ n \in Nat
        BY <1>2, ProcAssumption DEF Slots
      <4>2. f[q] \in Nat /\ f[n] \in Nat
        BY <1>5
      <4> QED  BY <4>1, <4>2
    <3>2. CASE q <= n - 1
      <4>1. f[q] <= b
        BY <1>4, <3>2
      <4> QED  BY <3>1, <4>1
    <3>3. CASE q = n
      BY <3>1, <3>3
    <3> QED  BY <2>1, <3>1, <3>2, <3>3
  <2>2. b + f[n] \in Nat
    BY <1>5
  <2> QED  BY <1>2, <2>1, <2>2
<1>6. CASE n \notin Slots
  <2>1. Bound(n, b)
    BY <1>2, <1>4, <1>6 DEF Slots
  <2> QED  BY <1>2, <2>1
<1> QED  BY <1>5, <1>6

\* Some slot of a set has the highest priority.
LEMMA Best ==
  ASSUME NEW f \in [Slots -> Nat], NEW T \in SUBSET Slots, T # {}
  PROVE  \E q \in T : \A r \in T : f[r] <= f[q]
<1>1. PICK b \in Nat : \A q \in Slots : f[q] <= b
  BY Bounded
<1> DEFINE D == {b - f[q] : q \in T}
<1>2. D \in SUBSET Nat /\ D # {}
  BY <1>1
<1>3. Min(D) \in D /\ \A y \in D : Min(D) <= y
  <2> HIDE DEF D
  <2> QED  BY <1>2, MinIn
<1>4. PICK q \in T : \A r \in T : b - f[q] <= b - f[r]
  BY <1>3
<1>5. \A r \in T : f[r] <= f[q]
  BY <1>4
<1> QED  BY <1>5

Prios == priority \in [Slots -> Nat]

\* Priorities are the default or what set_prio was given.
LEMMA PriosKept == Spec => []Prios
<1>1. Init => Prios
  BY ProcAssumption DEF Init, Prios
<1>2. Prios /\ [Next]_vars => Prios'
  <2> SUFFICES ASSUME Prios, [Next]_vars PROVE Prios'
    OBVIOUS
  <2>1. \/ priority' = priority
        \/ \E s : priority' = [priority EXCEPT ![s] = DefaultPrio]
        \/ \E c \in PrioCalls : priority' = [priority EXCEPT ![c[1]] = c[2]]
    BY DEF Next, vars, allocproc, fork_fails, fork, exit, wait, sys_sleep,
       sys_sleep_returns, kill, set_prio, init_exits, yield, tick, scheduler, procVars
  <2> QED  BY <2>1, ProcAssumption DEF Prios
<1> QED  BY <1>1, <1>2, PTL DEF Spec

\* The inner loop's choice is the best, if there is a better one than p.
LEMMA HighestIsBest ==
  ASSUME Prios, NEW p \in With("RUNNABLE")
  PROVE  \A q \in With("RUNNABLE") : priority[q] <= priority[Highest(p)]
<1> DEFINE ready == With("RUNNABLE")
           better == {q \in ready : /\ priority[q] > priority[p]
                                    /\ \A r \in ready : priority[r] <= priority[q]}
<1>1. ready \in SUBSET Slots
  BY DEF With
<1>2. Highest(p) = IF better = {} THEN p ELSE Min(better)
  BY DEF Highest
<1>3. PICK q \in ready : \A r \in ready : priority[r] <= priority[q]
  <2> HIDE DEF ready
  <2> QED  BY <1>1, Best DEF Prios, ready
<1>4. CASE better = {}
  BY <1>1, <1>2, <1>3, <1>4 DEF Prios
<1>5. CASE better # {}
  <2>1. Min(better) \in better
    <3>1. better \in SUBSET Slots
      BY <1>1
    <3> HIDE DEF better
    <3> QED  BY <1>5, <3>1, MinSlot
  <2> QED  BY <1>2, <1>5, <2>1
<1> QED  BY <1>4, <1>5

\* The scheduler never runs a process while one of higher priority is ready,
\* whatever set_prio did before: the scan looks at the whole table.
THEOREM RunsTheHighest == Spec => HighestFirst
<1> DEFINE Step == \A p \in Slots : state[p] = "RUNNABLE" /\ state'[p] = "RUNNING" =>
                     \A q \in With("RUNNABLE") : priority[q] <= priority[p]
<1>1. IndInv /\ Prios /\ [Next]_vars => [Step]_vars
  <2> SUFFICES ASSUME IndInv, Prios, Next,
                      NEW p \in Slots, state[p] = "RUNNABLE", state'[p] = "RUNNING"
               PROVE  \A q \in With("RUNNABLE") : priority[q] <= priority[p]
    OBVIOUS
  <2> USE Numbers DEF IndInv, Types
  <2>1. CASE scheduler
    <3> DEFINE ready == {q \in With("RUNNABLE") : q > cursor}
    <3>1. ready # {} /\ state' = [state EXCEPT ![Highest(Min(ready))] = "RUNNING"]
      BY <2>1 DEF scheduler
    <3>2. p = Highest(Min(ready))
      BY <3>1
    <3>3. Min(ready) \in With("RUNNABLE")
      BY SMTT(60), <3>1, MinSlot DEF With
    <3> QED  BY <3>2, <3>3, HighestIsBest
  <2>2. CASE ~scheduler
    <3>1. \A c : wakeup1(state, c) \in [Slots -> States] /\ wakeup1(state, c)[p] = "RUNNABLE"
      BY Woken
    <3>2. \A c, d : /\ wakeup1(wakeup1(state, c), d) \in [Slots -> States]
                    /\ wakeup1(wakeup1(state, c), d)[p] = "RUNNABLE"
      BY SMTT(60), <3>1, Woken
    <3>3. ASSUME NEW q \in Slots, allocproc(q) \/ fork_fails(q) \/ fork(q) \/ wait(q)
          PROVE  state'[p] # "RUNNING"
      BY SMTT(60), <3>3 DEF allocproc, fork_fails, fork, wait
    <3>4. ASSUME NEW q \in Slots, exit(q) PROVE state'[p] # "RUNNING"
      BY <3>1, <3>2, <3>4 DEF exit
    <3>5. ASSUME NEW q \in Slots, sys_sleep(q) \/ sys_sleep_returns(q)
          PROVE  state'[p] # "RUNNING"
      BY <3>5 DEF sys_sleep, sys_sleep_returns, procVars
    <3>6. ASSUME NEW q \in Slots, NEW n, kill(q, n) PROVE state'[p] # "RUNNING"
      BY <3>6 DEF kill
    <3>7. ASSUME yield \/ tick PROVE state'[p] # "RUNNING"
      BY <3>1, <3>7 DEF yield, tick
    <3>8. ASSUME \/ \E c \in PrioCalls : set_prio(c[1], c[2])
                 \/ init_exits \/ UNCHANGED vars
          PROVE  state'[p] # "RUNNING"
      BY <3>8 DEF set_prio, init_exits, procVars, vars
    <3> QED  BY <2>2, <3>3, <3>4, <3>5, <3>6, <3>7, <3>8 DEF Next
  <2> QED  BY <2>1, <2>2
<1>2. Spec => [][Step]_vars
  BY <1>1, Invariance, PriosKept, PTL DEF Spec
<1> QED  BY <1>2 DEF HighestFirst
=============================================================================
