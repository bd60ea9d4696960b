------------------------------ MODULE Xv6Proc ------------------------------
(***************************************************************************)
(* The process table of xv6 (proc.c) on one CPU (NCPU is 1): fork, exit,   *)
(* wait, kill, sleep and wakeup, clock ticks and the priority scheduler.   *)
(*                                                                         *)
(* A section under ptable.lock is one step.  Between two steps the running *)
(* process may be preempted by the clock, wherever it is in the kernel.    *)
(* Open files, memory and the trap frame are left out.                     *)
(***************************************************************************)
EXTENDS Integers, FiniteSets, FiniteSetsExt

CONSTANTS
  NPROC,
  PrioCalls,     \* bound: the calls of set_prio, as pairs of slot and argument
  DefaultPrio,   \* the priority allocproc gives
  MaxPid         \* bound: pids handed out

ASSUME ProcAssumption ==
  /\ NPROC \in Nat \ {0} /\ MaxPid \in Nat \ {0}
  /\ PrioCalls \subseteq (1..NPROC) \X Nat /\ DefaultPrio \in Nat

VARIABLES
  state, pid, ppid, parent, chan, killed, priority,   \* struct proc
  at,            \* what the process does in the kernel
  np,            \* local of fork: the slot being filled
  nextpid,
  cur,           \* c->proc, NULL in the scheduler, PANIC once the kernel stopped
  cursor         \* p of the scheduler's outer loop, 0 when the loop has ended

procVars == <<state, pid, ppid, parent, chan, killed, priority>>
vars == <<state, pid, ppid, parent, chan, killed, priority, at, np, nextpid,
          cur, cursor>>

NULL     == 0
PANIC    == 0 - 1
Slots    == 1..NPROC
initproc == 1
Ticks    == NPROC + 1      \* the channel &ticks

States == {"UNUSED", "EMBRYO", "SLEEPING", "RUNNABLE", "RUNNING", "ZOMBIE"}

With(s) == {p \in Slots : state[p] = s}
Children(p) == {c \in Slots : parent[c] = p}

\* After userinit.
Init ==
  /\ state = [p \in Slots |-> IF p = initproc THEN "RUNNABLE" ELSE "UNUSED"]
  /\ pid = [p \in Slots |-> IF p = initproc THEN 1 ELSE 0]
  /\ ppid = [p \in Slots |-> 0]
  /\ parent = [p \in Slots |-> NULL]
  /\ chan = [p \in Slots |-> NULL]
  /\ killed = [p \in Slots |-> 0]
  /\ priority = [p \in Slots |-> IF p = initproc THEN DefaultPrio ELSE 0]
  /\ at = [p \in Slots |-> "user"]
  /\ np = [p \in Slots |-> NULL]
  /\ nextpid = 2
  /\ cur = NULL /\ cursor = 0

\* wakeup1 on the states st.
wakeup1(st, c) ==
  [p \in Slots |-> IF st[p] = "SLEEPING" /\ chan[p] = c THEN "RUNNABLE" ELSE st[p]]

\* A system call starts only when the process is not killed (trap).
InUser(p) == cur = p /\ at[p] = "user" /\ killed[p] = 0

-----------------------------------------------------------------------------
\* allocproc: the first UNUSED slot; fork returns -1 when there is none.
allocproc(p) ==
  /\ InUser(p) /\ nextpid <= MaxPid /\ With("UNUSED") # {}
  /\ LET s == Min(With("UNUSED")) IN
     /\ state' = [state EXCEPT ![s] = "EMBRYO"]
     /\ pid' = [pid EXCEPT ![s] = nextpid]
     /\ ppid' = [ppid EXCEPT ![s] = 0]
     /\ priority' = [priority EXCEPT ![s] = DefaultPrio]
     /\ np' = [np EXCEPT ![p] = s]
  /\ nextpid' = nextpid + 1
  /\ at' = [at EXCEPT ![p] = "fork"]
  /\ UNCHANGED <<parent, chan, killed, cur, cursor>>

\* kalloc or copyuvm found no memory.
fork_fails(p) ==
  /\ cur = p /\ at[p] = "fork"
  /\ state' = [state EXCEPT ![np[p]] = "UNUSED"]
  /\ at' = [at EXCEPT ![p] = "user"]
  /\ np' = [np EXCEPT ![p] = NULL]
  /\ UNCHANGED <<pid, ppid, parent, chan, killed, priority, nextpid, cur, cursor>>

\* The rest of fork.
fork(p) ==
  /\ cur = p /\ at[p] = "fork"
  /\ parent' = [parent EXCEPT ![np[p]] = p]
  /\ ppid' = [ppid EXCEPT ![np[p]] = pid[p]]
  /\ state' = [state EXCEPT ![np[p]] = "RUNNABLE"]
  /\ at' = [at EXCEPT ![p] = "user", ![np[p]] = "user"]
  /\ np' = [np EXCEPT ![p] = NULL]
  /\ UNCHANGED <<pid, chan, killed, priority, nextpid, cur, cursor>>

\* Mutant: abandoned children are not passed to init.
exit_orphans(p) ==
  /\ cur = p /\ at[p] = "user" /\ p # initproc
  /\ state' = [wakeup1(state, parent[p]) EXCEPT ![p] = "ZOMBIE"]
  /\ cur' = NULL
  /\ UNCHANGED <<pid, ppid, parent, chan, killed, priority, at, np, nextpid, cursor>>

\* Mutant: init is not woken for the zombies it inherits.
exit_silent(p) ==
  /\ cur = p /\ at[p] = "user" /\ p # initproc
  /\ state' = [wakeup1(state, parent[p]) EXCEPT ![p] = "ZOMBIE"]
  /\ parent' = [c \in Slots |-> IF c \in Children(p) THEN initproc ELSE parent[c]]
  /\ cur' = NULL
  /\ UNCHANGED <<pid, ppid, chan, killed, priority, at, np, nextpid, cursor>>

\* Mutant: the parent is not woken.
exit_quiet(p) ==
  /\ cur = p /\ at[p] = "user" /\ p # initproc
  /\ state' = [state EXCEPT ![p] = "ZOMBIE"]
  /\ parent' = [c \in Slots |-> IF c \in Children(p) THEN initproc ELSE parent[c]]
  /\ cur' = NULL
  /\ UNCHANGED <<pid, ppid, chan, killed, priority, at, np, nextpid, cursor>>

\* exit, called or forced by killed on the way back to user space.
exit(p) ==
  /\ cur = p /\ at[p] = "user" /\ p # initproc
  /\ LET woken == wakeup1(state, parent[p])
         orphans == Children(p)
     IN state' = [(IF \E c \in orphans : state[c] = "ZOMBIE"
                   THEN wakeup1(woken, initproc) ELSE woken) EXCEPT ![p] = "ZOMBIE"]
  /\ parent' = [c \in Slots |-> IF c \in Children(p) THEN initproc ELSE parent[c]]
  /\ cur' = NULL
  /\ UNCHANGED <<pid, ppid, chan, killed, priority, at, np, nextpid, cursor>>

\* One pass of wait's loop: reap the first zombie child, give up, or sleep.
wait(p) ==
  /\ cur = p /\ (at[p] = "wait" \/ InUser(p))
  /\ LET zombies == Children(p) \cap With("ZOMBIE") IN
     \/ /\ zombies # {}
        /\ LET z == Min(zombies) IN
           /\ state' = [state EXCEPT ![z] = "UNUSED"]
           /\ pid' = [pid EXCEPT ![z] = 0]
           /\ parent' = [parent EXCEPT ![z] = NULL]
           /\ killed' = [killed EXCEPT ![z] = 0]
        /\ at' = [at EXCEPT ![p] = "user"]
        /\ UNCHANGED <<chan, cur>>
     \/ /\ zombies = {} /\ (Children(p) = {} \/ killed[p] = 1)
        /\ at' = [at EXCEPT ![p] = "user"]
        /\ UNCHANGED <<state, pid, parent, killed, chan, cur>>
     \/ /\ zombies = {} /\ Children(p) # {} /\ killed[p] = 0
        /\ state' = [state EXCEPT ![p] = "SLEEPING"]
        /\ chan' = [chan EXCEPT ![p] = p]
        /\ at' = [at EXCEPT ![p] = "wait"]
        /\ cur' = NULL
        /\ UNCHANGED <<pid, parent, killed>>
  /\ UNCHANGED <<ppid, priority, np, nextpid, cursor>>

\* Mutant: the loop does not look at killed.
sys_sleep_deaf(p) ==
  /\ InUser(p) \/ (cur = p /\ at[p] = "ticks")
  /\ state' = [state EXCEPT ![p] = "SLEEPING"]
  /\ chan' = [chan EXCEPT ![p] = Ticks]
  /\ at' = [at EXCEPT ![p] = "ticks"]
  /\ cur' = NULL
  /\ UNCHANGED <<pid, ppid, parent, killed, priority, np, nextpid, cursor>>

\* sys_sleep: sleep on ticks, again and again until killed or long enough.
sys_sleep(p) ==
  /\ InUser(p) \/ (cur = p /\ at[p] = "ticks" /\ killed[p] = 0)
  /\ state' = [state EXCEPT ![p] = "SLEEPING"]
  /\ chan' = [chan EXCEPT ![p] = Ticks]
  /\ at' = [at EXCEPT ![p] = "ticks"]
  /\ cur' = NULL
  /\ UNCHANGED <<pid, ppid, parent, killed, priority, np, nextpid, cursor>>

sys_sleep_returns(p) ==
  /\ cur = p /\ at[p] = "ticks"
  /\ at' = [at EXCEPT ![p] = "user"]
  /\ UNCHANGED <<procVars, np, nextpid, cur, cursor>>

\* Mutant: the victim becomes RUNNABLE whatever its process does.
kill_wakes(p, n) ==
  /\ InUser(p)
  /\ LET found == {s \in Slots : pid[s] = n} IN
     /\ found # {}
     /\ killed' = [killed EXCEPT ![Min(found)] = 1]
     /\ state' = [state EXCEPT ![Min(found)] = IF @ = "UNUSED" THEN @ ELSE "RUNNABLE"]
  /\ UNCHANGED <<pid, ppid, parent, chan, priority, at, np, nextpid, cur, cursor>>

\* kill: the first slot with that pid, whatever its state.
kill(p, n) ==
  /\ InUser(p)
  /\ LET found == {s \in Slots : pid[s] = n} IN
     /\ found # {}
     /\ LET s == Min(found) IN
        /\ killed' = [killed EXCEPT ![s] = 1]
        /\ state' = [state EXCEPT ![s] = IF @ = "SLEEPING" THEN "RUNNABLE" ELSE @]
  /\ UNCHANGED <<pid, ppid, parent, chan, priority, at, np, nextpid, cur, cursor>>

set_prio(p, n) ==
  /\ InUser(p)
  /\ priority' = [priority EXCEPT ![p] = n]
  /\ UNCHANGED <<state, pid, ppid, parent, chan, killed, at, np, nextpid, cur, cursor>>

\* panic("init exiting"): init was killed, or could not fork a shell.
init_exits ==
  /\ cur = initproc /\ at[initproc] = "user"
  /\ cur' = PANIC
  /\ UNCHANGED <<procVars, at, np, nextpid, cursor>>

\* Clock interrupt of a process: wakeup(&ticks), then yield.
yield ==
  /\ cur \in Slots
  /\ state' = [wakeup1(state, Ticks) EXCEPT ![cur] = "RUNNABLE"]
  /\ cur' = NULL
  /\ UNCHANGED <<pid, ppid, parent, chan, killed, priority, at, np, nextpid, cursor>>

\* Clock interrupt between two scheduler loops, where interrupts are on.
tick ==
  /\ cur = NULL /\ cursor = 0
  /\ state' = wakeup1(state, Ticks)
  /\ UNCHANGED <<pid, ppid, parent, chan, killed, priority, at, np, nextpid, cur,
                 cursor>>

-----------------------------------------------------------------------------
\* Mutant: the inner loop stops at the first process that is better than p.
HighestFirstBetter(p) ==
  LET better == {q \in With("RUNNABLE") : priority[q] > priority[p]}
  IN IF better = {} THEN p ELSE Min(better)

\* Mutant: hp->priority <= np->priority.
HighestLast(p) ==
  Max({q \in With("RUNNABLE") : \A r \in With("RUNNABLE") : priority[r] <= priority[q]})

\* The inner loop: hp starts as p and moves to any higher priority.
Highest(p) ==
  LET better == {q \in With("RUNNABLE") :
                   /\ priority[q] > priority[p]
                   /\ \A r \in With("RUNNABLE") : priority[r] <= priority[q]}
  IN IF better = {} THEN p ELSE Min(better)

\* The outer loop finds a RUNNABLE process at or after p, and switches to the
\* best one.  The process continues after its sched() with chan = 0.
scheduler ==
  /\ cur = NULL
  /\ LET ahead == {p \in With("RUNNABLE") : p > cursor}
     IN IF ahead = {}
        THEN cursor' = 0 /\ UNCHANGED <<state, chan, cur>>
        ELSE LET hp == Highest(Min(ahead))
             IN /\ cur' = hp
                /\ cursor' = hp
                /\ state' = [state EXCEPT ![hp] = "RUNNING"]
                /\ chan' = [chan EXCEPT ![hp] = NULL]
  /\ UNCHANGED <<pid, ppid, parent, killed, priority, at, np, nextpid>>

Next ==
  \/ \E p \in Slots :
       \/ allocproc(p) \/ fork_fails(p) \/ fork(p) \/ exit(p) \/ wait(p)
       \/ sys_sleep(p) \/ sys_sleep_returns(p)
       \/ \E n \in 0..MaxPid : kill(p, n)
  \/ \E c \in PrioCalls : set_prio(c[1], c[2])
  \/ init_exits \/ yield \/ tick \/ scheduler
  \/ cur = PANIC /\ UNCHANGED vars

Spec == Init /\ [][Next]_vars

\* The clock ticks, the scheduler runs, and init, when it runs, goes on with
\* its loop around wait.
FairSpec ==
  /\ Spec
  /\ WF_vars(scheduler) /\ WF_vars(yield) /\ WF_vars(tick)
  /\ SF_vars(wait(initproc)) /\ SF_vars(fork(initproc))
  /\ SF_vars(sys_sleep_returns(initproc)) /\ SF_vars(killed[initproc] = 1 /\ init_exits)

-----------------------------------------------------------------------------
\* The CPU runs the one process marked RUNNING.
OneRunning == cur # PANIC => With("RUNNING") = {cur} \ {NULL}

\* Every process but init and those being forked has a parent that exists and
\* has not exited, so somebody can reap it.
LiveParent ==
  \A p \in Slots \ {initproc} :
    state[p] \notin {"UNUSED", "EMBRYO"} =>
      parent[p] # NULL /\ state[parent[p]] \notin {"UNUSED", "EMBRYO", "ZOMBIE"}

\* A process asleep in wait has a child, and none that it could reap.
WaitSleepsRightly ==
  \A p \in Slots :
    state[p] = "SLEEPING" /\ chan[p] = p =>
      Children(p) # {} /\ \A c \in Children(p) : state[c] # "ZOMBIE"

\* The scheduler never switches to a process while one of higher priority is
\* ready to run.
HighestFirst ==
  [][\A p \in Slots : state[p] = "RUNNABLE" /\ state'[p] = "RUNNING" =>
        \A q \in With("RUNNABLE") : priority[q] <= priority[p]]_vars

\* A kill is never slept through: a killed process does not sleep, neither in
\* wait nor on ticks, so it reaches the check that makes it exit.
KilledAwake == \A p \in Slots : killed[p] = 1 => state[p] # "SLEEPING"

\* With equal priorities every ready process gets the CPU.
RunnableRuns ==
  \A p \in Slots : state[p] = "RUNNABLE" ~> state[p] # "RUNNABLE" \/ cur = PANIC

\* init reaps the zombies it inherits.
OrphansReaped ==
  \A p \in Slots : state[p] = "ZOMBIE" /\ parent[p] = initproc
                     ~> state[p] # "ZOMBIE" \/ cur = PANIC
=============================================================================
