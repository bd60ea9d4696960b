--------------------------- MODULE ThreadPrograms ---------------------------
(***************************************************************************)
(* The thread programs of design 4: the master-worker pool, the semaphore  *)
(* under its clients, and the two read-write locks under the threads of    *)
(* their tests.  They are separate programs.  A behaviour runs one of      *)
(* them, the variables of the others keep their initial values.            *)
(***************************************************************************)
EXTENDS MasterWorker

CONSTANTS Readers, Writers, SemThreads, Sems, Rounds, NULL

ASSUME LocksAssumption ==
  /\ IsFiniteSet(Readers \cup Writers) /\ Readers \cap Writers = {}
  /\ NoOne \notin Readers \cup Writers

ASSUME ThreadsAssumption ==
  /\ NULL \notin SemThreads
  /\ 0..2 \subseteq SemThreads \cap Sems /\ Rounds \in Nat

VARIABLES
  program,
  client, key, head, lock, wait_lock, next, live, sem_pc, ip, sem_reg, tmp, fault,
  rdlocked, wrlocked, rw_pc, indx, acquired, released,
  w_request, busy, rw_reg, ahead,
  r_flag

S == INSTANCE MCSSUSem WITH
       Threads <- SemThreads, pc <- sem_pc, reg <- sem_reg
W == INSTANCE RWLockW WITH pc <- rw_pc, reg <- rw_reg
R == INSTANCE RWLockR WITH pc <- rw_pc

semVars == <<client, key, head, lock, wait_lock, next, live, sem_pc, ip, sem_reg, tmp, fault>>
rwVars == <<rdlocked, wrlocked, rw_pc, indx, acquired, released>>
wVars == <<w_request, busy, rw_reg, ahead>>
allVars == <<program, vars, semVars, rwVars, wVars, r_flag>>

InitAll ==
  /\ program \in {"master-worker", "semaphore", "writers", "readers"}
  /\ Init /\ S!Init(S!Clients) /\ W!Init /\ R!Init
  /\ program # "semaphore" => client = S!Ring

-----------------------------------------------------------------------------
Pool(A) ==
  program = "master-worker" /\ A /\ UNCHANGED <<program, semVars, rwVars, wVars, r_flag>>
Semaphore(A) ==
  program = "semaphore" /\ A /\ UNCHANGED <<program, vars, rwVars, wVars, r_flag>>
PreferWriters(A) ==
  program = "writers" /\ A /\ UNCHANGED <<program, vars, semVars, r_flag>>
PreferReaders(A) ==
  program = "readers" /\ A /\ UNCHANGED <<program, vars, semVars, wVars>>

NextAll ==
  Pool(Next) \/ Semaphore(S!Next) \/ PreferWriters(W!Next) \/ PreferReaders(R!Next)

\* Every thread is scheduled, and a free lock is eventually granted; the
\* mutex of the pool does not pass over a waiter for ever.
SpecAll ==
  /\ InitAll /\ [][NextAll]_allVars
  /\ WF_allVars(Pool(MainStep))
  /\ \A t \in Threads : WF_allVars(Pool(ThreadStep(t))) /\ SF_allVars(Pool(Lock(t)))
  /\ \A t \in SemThreads : WF_allVars(Semaphore(S!Step(t) /\ UNCHANGED client))
  /\ \A r \in Readers : WF_allVars(PreferWriters(W!Reader(r)) \/ PreferReaders(R!Reader(r)))
  /\ \A w \in Writers : WF_allVars(PreferWriters(W!Writer(w)) \/ PreferReaders(R!Writer(w)))

-----------------------------------------------------------------------------
\* No update of key is lost in the ring of SSU_Sem_toggle_test.c, although up
\* takes no lock: whenever nobody is inside a call on a semaphore, its key is
\* what the completed calls make it.
UnitsExact == S!UnitsExact

\* The threads of the ring print strictly in turn, 0, 1, 2, 0, 1, 2, ...
InTurn == S!InTurn

\* rw_lock-w-test.c: a reader that called r_lock while a writer was already
\* waiting does not get the lock before that writer.
WritersFirst == W!WritersFirst

\* Each program comes to its end, so that main's joins return: the pool
\* although its threads poll, the ring although it spins on key, both locks
\* although writers and readers wait for each other's announcements.
ProgramsEnd ==
  <>(CASE program = "master-worker" -> main = "exited"
       [] program = "semaphore" -> client = S!Ring => S!Finished
       [] OTHER -> W!Finished)
=============================================================================
