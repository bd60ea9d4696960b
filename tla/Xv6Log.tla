------------------------------- MODULE Xv6Log -------------------------------
(***************************************************************************)
(* The redo log of the xv6 file system (xv6/log.c) on top of the buffer    *)
(* cache: concurrent file-system calls bracketed by begin_op/end_op, group *)
(* commit by the last caller, and recovery after a crash at any moment.    *)
(*                                                                         *)
(* A disk block is one atomic write (BSIZE is one IDE sector).  The bytes  *)
(* of a block are one value.  A buffer is locked from bread to brelse, so  *)
(* the new contents become visible with the brelse that follows log_write; *)
(* clean, unreferenced buffers may be recycled at any time.                *)
(***************************************************************************)
EXTENDS Naturals, Sequences, FiniteSets

CONSTANTS
  Procs,         \* processes making file-system calls
  Blocks,        \* home blocks
  Vals,          \* contents of a block
  NoBuf,         \* no buffer caches the block
  NoBlock,       \* the process holds no buffer
  MAXOPBLOCKS,   \* blocks reserved for each call
  LOGSIZE,       \* capacity of struct logheader
  nlog,          \* sb.nlog, the blocks of the on-disk log, header included
  NBUF,          \* buffers in the cache
  OpBlocks       \* distinct blocks a call really writes at most

ASSUME LogAssumption ==
  /\ MAXOPBLOCKS \in Nat /\ LOGSIZE \in Nat /\ nlog \in Nat /\ NBUF \in Nat
  /\ OpBlocks \in 1..MAXOPBLOCKS
  /\ MAXOPBLOCKS <= LOGSIZE
  /\ NoBuf \notin Vals /\ NoBlock \notin Blocks
  /\ IsFiniteSet(Procs) /\ IsFiniteSet(Blocks)

VARIABLES
  disk,          \* home locations on disk
  dlog,          \* data blocks of the on-disk log
  dhead,         \* header block of the on-disk log: its block numbers
  cache,         \* the buffer of each home block
  dirty,         \* buffers with B_DIRTY, never recycled
  lh,            \* log.lh
  outstanding,   \* log.outstanding
  committing,    \* log.committing
  pc,            \* where each process is
  tail,          \* loop counter of write_log and install_trans, per process
  wrote,         \* blocks the current call has logged
  held,          \* the buffer the process has locked
  sys            \* initlog is recovering, running, or stopped by panic()

diskVars == <<disk, dlog, dhead>>
vars == <<disk, dlog, dhead, cache, dirty, lh, outstanding, committing,
          pc, tail, wrote, held, sys>>

PCs == {"idle", "begin", "asleep", "op", "log_write", "write_log", "write_head",
        "install", "clear", "end_commit", "read_head"}

InLog(b) == \E i \in 1..Len(lh) : lh[i] = b

\* Contents of block b as bread returns them: the buffer, or the disk.
Bread(b) == IF cache[b] = NoBuf THEN disk[b] ELSE cache[b]

\* bget finds a buffer for a block that is not cached unless every buffer is
\* referenced or dirty.
Pinned == dirty \cup {held[p] : p \in {q \in Procs : held[q] # NoBlock}}
CanRecycle == Cardinality(Pinned) < NBUF

Panic == /\ sys' = "panicked"
         /\ UNCHANGED <<disk, dlog, dhead, cache, dirty, lh, outstanding,
                        committing, pc, tail, wrote, held>>

\* wakeup(&log): every process asleep in begin_op runs again.
WakeupLog(f) == [q \in Procs |-> IF f[q] = "asleep" THEN "begin" ELSE f[q]]

-----------------------------------------------------------------------------
Init ==
  /\ disk \in [Blocks -> Vals]
  /\ dlog \in [0..LOGSIZE-1 -> Vals]
  /\ dhead = << >>
  /\ cache = [b \in Blocks |-> NoBuf]
  /\ dirty = {}
  /\ lh = << >>
  /\ outstanding = 0 /\ committing = 0
  /\ pc = [p \in Procs |-> "idle"]
  /\ tail = [p \in Procs |-> 0]
  /\ wrote = [p \in Procs |-> {}]
  /\ held = [p \in Procs |-> NoBlock]
  /\ sys = "running"

\* Mutant: no wait for a running commit.
MustWaitSpace == Len(lh) + (outstanding + 1) * MAXOPBLOCKS > LOGSIZE

\* Mutant: no reservation, only commits are waited for.
MustWaitCommit == committing = 1

\* The test begin_op makes under log.lock.
MustWait == committing = 1 \/ Len(lh) + (outstanding + 1) * MAXOPBLOCKS > LOGSIZE

\* begin_op: sleep on the log, or be counted as outstanding.
BeginOp(p) ==
  /\ sys = "running" /\ pc[p] \in {"idle", "begin"}
  /\ IF MustWait
     THEN /\ pc' = [pc EXCEPT ![p] = "asleep"]
          /\ UNCHANGED <<outstanding, wrote>>
     ELSE /\ pc' = [pc EXCEPT ![p] = "op"]
          /\ outstanding' = outstanding + 1
          /\ wrote' = [wrote EXCEPT ![p] = {}]
  /\ UNCHANGED <<disk, dlog, dhead, cache, dirty, lh, committing, tail, held,
                 sys>>

\* The unlocked test log_write makes before it takes log.lock.
LogFull == Len(lh) >= LOGSIZE \/ Len(lh) + 1 >= nlog

\* A call reads and locks block b, modifies it and enters log_write, which
\* checks log.lh.n and log.outstanding without holding log.lock.
LogWriteCheck(p, b) ==
  /\ pc[p] = "op"
  /\ \A q \in Procs : held[q] # b
  /\ Cardinality(wrote[p] \cup {b}) <= OpBlocks
  /\ IF (cache[b] = NoBuf /\ ~CanRecycle) \/ LogFull \/ outstanding < 1
     THEN Panic
     ELSE /\ pc' = [pc EXCEPT ![p] = "log_write"]
          /\ held' = [held EXCEPT ![p] = b]
          /\ cache' = [cache EXCEPT ![b] = Bread(b)]
          /\ UNCHANGED <<disk, dlog, dhead, dirty, lh, outstanding, committing,
                         tail, wrote, sys>>

\* Mutant: log_write without b->flags |= B_DIRTY.
LogWriteClean(p, v) ==
  /\ pc[p] = "log_write"
  /\ lh' = IF InLog(held[p]) THEN lh ELSE Append(lh, held[p])
  /\ cache' = [cache EXCEPT ![held[p]] = v]
  /\ wrote' = [wrote EXCEPT ![p] = @ \cup {held[p]}]
  /\ held' = [held EXCEPT ![p] = NoBlock]
  /\ pc' = [pc EXCEPT ![p] = "op"]
  /\ UNCHANGED <<disk, dlog, dhead, dirty, outstanding, committing, tail, sys>>

\* The rest of log_write under log.lock (absorption or append, B_DIRTY) and
\* the caller's brelse; v is what the caller stored in the buffer.
LogWrite(p, v) ==
  /\ pc[p] = "log_write"
  /\ LET b == held[p] IN
     /\ lh' = IF InLog(b) THEN lh ELSE Append(lh, b)
     /\ dirty' = dirty \cup {b}
     /\ cache' = [cache EXCEPT ![b] = v]
     /\ wrote' = [wrote EXCEPT ![p] = @ \cup {b}]
  /\ held' = [held EXCEPT ![p] = NoBlock]
  /\ pc' = [pc EXCEPT ![p] = "op"]
  /\ UNCHANGED <<disk, dlog, dhead, outstanding, committing, tail, sys>>

\* commit() has nothing to do for an empty log.
CommitEntry == IF lh = << >> THEN "end_commit" ELSE "write_log"

\* Mutant: end_op without the wakeup for those waiting for log space.
EndOpSilent(p) ==
  /\ pc[p] = "op" /\ committing = 0
  /\ outstanding' = outstanding - 1
  /\ committing' = IF outstanding = 1 THEN 1 ELSE 0
  /\ pc' = [pc EXCEPT ![p] = IF outstanding = 1 THEN CommitEntry ELSE "idle"]
  /\ wrote' = [wrote EXCEPT ![p] = {}]
  /\ tail' = [tail EXCEPT ![p] = 0]
  /\ UNCHANGED <<disk, dlog, dhead, cache, dirty, lh, held, sys>>

\* end_op: the last outstanding call commits; any other
\* one wakes the processes waiting for log space.
EndOp(p) ==
  /\ pc[p] = "op"
  /\ IF committing = 1
     THEN Panic
     ELSE /\ outstanding' = outstanding - 1
          /\ IF outstanding = 1
             THEN /\ committing' = 1
                  /\ pc' = [pc EXCEPT ![p] = CommitEntry]
             ELSE /\ committing' = committing
                  /\ pc' = WakeupLog([pc EXCEPT ![p] = "idle"])
          /\ wrote' = [wrote EXCEPT ![p] = {}]
          /\ tail' = [tail EXCEPT ![p] = 0]
          /\ UNCHANGED <<disk, dlog, dhead, cache, dirty, lh, held, sys>>

\* One iteration of write_log: the cached block goes to log slot tail.  The
\* slot needs a buffer of its own.
WriteLog(p) ==
  /\ pc[p] = "write_log"
  /\ IF ~CanRecycle
     THEN Panic
     ELSE /\ dlog' = [dlog EXCEPT ![tail[p]] = Bread(lh[tail[p] + 1])]
          /\ IF tail[p] + 1 < Len(lh)
             THEN tail' = [tail EXCEPT ![p] = @ + 1] /\ pc' = pc
             ELSE /\ tail' = [tail EXCEPT ![p] = 0]
                  /\ pc' = [pc EXCEPT ![p] = "write_head"]
          /\ UNCHANGED <<disk, dhead, cache, dirty, lh, outstanding, committing,
                         wrote, held, sys>>

\* write_head with log.lh.n > 0: the commit point.
WriteHead(p) ==
  /\ pc[p] = "write_head"
  /\ dhead' = lh
  /\ pc' = [pc EXCEPT ![p] = "install"]
  /\ UNCHANGED <<disk, dlog, cache, dirty, lh, outstanding, committing, tail,
                 wrote, held, sys>>

\* One iteration of install_trans (commit and recovery): log slot tail goes
\* home through its buffer, and iderw clears B_DIRTY.
InstallTrans(p) ==
  /\ pc[p] = "install"
  /\ LET b == lh[tail[p] + 1]
         v == dlog[tail[p]]
     IN /\ cache' = [cache EXCEPT ![b] = v]
        /\ disk' = [disk EXCEPT ![b] = v]
        /\ dirty' = dirty \ {b}
  /\ IF tail[p] + 1 < Len(lh)
     THEN tail' = [tail EXCEPT ![p] = @ + 1] /\ pc' = pc
     ELSE tail' = [tail EXCEPT ![p] = 0] /\ pc' = [pc EXCEPT ![p] = "clear"]
  /\ UNCHANGED <<dlog, dhead, lh, outstanding, committing, wrote, held, sys>>

\* log.lh.n = 0; write_head(): ends commit() and recover_from_log().
ClearHead(p) ==
  /\ pc[p] = "clear"
  /\ lh' = << >>
  /\ dhead' = << >>
  /\ pc' = [pc EXCEPT ![p] = IF sys = "running" THEN "end_commit" ELSE "idle"]
  /\ sys' = "running"
  /\ UNCHANGED <<disk, dlog, cache, dirty, outstanding, committing, tail, wrote,
                 held>>

\* Mutant: no wakeup at the end of a commit.
EndCommitSilent(p) ==
  /\ pc[p] = "end_commit"
  /\ committing' = 0
  /\ pc' = [pc EXCEPT ![p] = "idle"]
  /\ UNCHANGED <<disk, dlog, dhead, cache, dirty, lh, outstanding, tail, wrote,
                 held, sys>>

\* The tail of end_op: committing is over, sleepers run again.
EndCommit(p) ==
  /\ pc[p] = "end_commit"
  /\ committing' = 0
  /\ pc' = WakeupLog([pc EXCEPT ![p] = "idle"])
  /\ UNCHANGED <<disk, dlog, dhead, cache, dirty, lh, outstanding, tail, wrote,
                 held, sys>>

\* Power failure: memory is lost.  The first process of the new boot, p, will
\* run initlog.
Crash(p) ==
  /\ cache' = [b \in Blocks |-> NoBuf]
  /\ dirty' = {}
  /\ lh' = << >>
  /\ outstanding' = 0 /\ committing' = 0
  /\ pc' = [q \in Procs |-> IF q = p THEN "read_head" ELSE "idle"]
  /\ tail' = [q \in Procs |-> 0]
  /\ wrote' = [q \in Procs |-> {}]
  /\ held' = [q \in Procs |-> NoBlock]
  /\ sys' = "recovering"
  /\ UNCHANGED diskVars

\* read_head: recovery takes the transaction from the on-disk header.
ReadHead(p) ==
  /\ pc[p] = "read_head"
  /\ lh' = dhead
  /\ pc' = [pc EXCEPT ![p] = IF dhead = << >> THEN "clear" ELSE "install"]
  /\ UNCHANGED <<disk, dlog, dhead, cache, dirty, outstanding, committing, tail,
                 wrote, held, sys>>

\* bget recycles a clean buffer nobody holds.
Evict(b) ==
  /\ cache[b] # NoBuf
  /\ b \notin Pinned
  /\ cache' = [cache EXCEPT ![b] = NoBuf]
  /\ UNCHANGED <<disk, dlog, dhead, dirty, lh, outstanding, committing, pc, tail,
                 wrote, held, sys>>

-----------------------------------------------------------------------------
Step(p) ==
  \/ BeginOp(p)
  \/ \E b \in Blocks : LogWriteCheck(p, b)
  \/ \E v \in Vals : LogWrite(p, v)
  \/ EndOp(p)
  \/ WriteLog(p)
  \/ WriteHead(p)
  \/ InstallTrans(p)
  \/ ClearHead(p)
  \/ EndCommit(p)
  \/ ReadHead(p)

Next ==
  \/ sys # "panicked" /\ \E p \in Procs : Step(p)
  \/ sys # "panicked" /\ \E b \in Blocks : Evict(b)
  \/ \E p \in Procs : Crash(p)

Spec == Init /\ [][Next]_vars

\* Without crashes, on a scheduler that runs every runnable process.  A call
\* makes finitely many log writes, hence SF for end_op.
StepsOf(p) == sys # "panicked" /\ (Step(p) /\ pc[p] # "idle")
LiveSpec ==
  /\ Init /\ [][sys # "panicked" /\ \E p \in Procs : Step(p)]_vars
  /\ \A p \in Procs : WF_vars(StepsOf(p)) /\ SF_vars(sys # "panicked" /\ EndOp(p))

-----------------------------------------------------------------------------
\* Types of the disk, the buffers, struct log and the locals of log.c.
TypeOK ==
  /\ disk \in [Blocks -> Vals]
  /\ dlog \in [0..LOGSIZE-1 -> Vals]
  /\ dhead \in Seq(Blocks)
  /\ cache \in [Blocks -> Vals \cup {NoBuf}]
  /\ dirty \in SUBSET Blocks
  /\ lh \in Seq(Blocks)
  /\ outstanding \in Nat
  /\ committing \in {0, 1}
  /\ pc \in [Procs -> PCs]
  /\ tail \in [Procs -> Nat]
  /\ wrote \in [Procs -> SUBSET Blocks]
  /\ held \in [Procs -> Blocks \cup {NoBlock}]
  /\ sys \in {"recovering", "running", "panicked"}

\* The reservation of begin_op keeps log.lh within its array, although
\* log_write tests the size before it takes the lock.
LogFits == Len(lh) <= LOGSIZE

InCommit(p) == pc[p] \in {"write_log", "write_head", "install", "clear", "end_commit"}

\* A commit runs alone: one committer, no call between begin_op and end_op.
CommitAlone ==
  committing = 1 =>
    /\ outstanding = 0
    /\ \A p \in Procs : pc[p] \notin {"op", "log_write"}
    /\ \A p, q \in Procs : InCommit(p) /\ InCommit(q) => p = q

\* Whoever sleeps in begin_op has somebody who will wake it: a call in
\* progress or a commit.
NoLostWakeup ==
  (\E p \in Procs : pc[p] = "asleep") => outstanding > 0 \/ committing = 1

\* Contents of the home blocks after a crash now and the recovery from it.
Recovered ==
  [b \in Blocks |->
     IF \E i \in 1..Len(dhead) : dhead[i] = b
     THEN dlog[(CHOOSE i \in 1..Len(dhead) : dhead[i] = b) - 1]
     ELSE disk[b]]

\* Contents as calls read them; during recovery nobody reads.
Current == IF sys = "recovering" THEN Recovered ELSE [b \in Blocks |-> Bread(b)]

AD == INSTANCE AtomicDisk WITH stable <- Recovered, current <- Current,
                               active <- outstanding,
                               committing <- (committing = 1)

\* Calls are atomic and durable across crashes: the log implements AtomicDisk.
Atomicity == AD!Spec

\* A process that sleeps in begin_op is woken.
SleepersWoken == \A p \in Procs : pc[p] = "asleep" ~> pc[p] # "asleep"
=============================================================================
