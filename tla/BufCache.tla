------------------------------ MODULE BufCache ------------------------------
(***************************************************************************)
(* The buffer cache of xv6 (bio.c) with its sleep locks (sleeplock.c) over *)
(* the interrupt-driven disk (ide.c) or the disk in memory (memide.c).     *)
(*                                                                         *)
(* A region under bcache.lock, idelock or the spinlock of a sleep lock is  *)
(* one step.  Processes bread a block, may change it and either bwrite it  *)
(* or leave it dirty as log_write does, and brelse it.  kill may wake any  *)
(* sleeper.  The drive is external: it finishes the command it was given   *)
(* without an error and interrupts.                                        *)
(***************************************************************************)
EXTENDS Naturals, Sequences, FiniteSets

CONSTANTS
  Procs, Blocks, Vals,
  Written,         \* blocks users write; the superblock, say, is only read
  NBUF,
  MaxDirty,        \* buffers log_write leaves dirty at most (LOGSIZE)
  NoProc, NoBlock, NoData

ASSUME CacheAssumption == NoProc \notin Procs /\ NoBlock \notin Blocks /\ NBUF \in Nat

Bufs == 1..NBUF

VARIABLES
  driver,          \* which of the two drivers the kernel is linked with
  buf,             \* bcache.buf
  lru,             \* the list from bcache.head.next on
  idequeue,
  drive,           \* the command the drive executes
  disk,
  pc,
  cur,             \* the buffer a process has or waits for, 0 if none
  blockno,         \* the block it asked for
  writing          \* processes whose iderw is a write

vars == <<driver, buf, lru, idequeue, drive, disk, pc, cur, blockno, writing>>

NoCommand == [cmd |-> "none", blockno |-> NoBlock, data |-> NoData]

\* binit puts every buffer in front of the list.
Init ==
  /\ driver \in {"ide", "memide"}
  /\ \E v \in Vals : disk = [n \in Blocks |-> v]
  /\ buf = [b \in Bufs |-> [blockno |-> NoBlock, valid |-> FALSE, dirty |-> FALSE,
                            refcnt |-> 0, data |-> NoData, pid |-> NoProc]]
  /\ lru = [i \in Bufs |-> NBUF + 1 - i]
  /\ idequeue = << >> /\ drive = NoCommand
  /\ pc = [p \in Procs |-> "idle"]
  /\ cur = [p \in Procs |-> 0] /\ blockno = [p \in Procs |-> NoBlock]
  /\ writing = {}

Goto(p, l) == pc' = [pc EXCEPT ![p] = l]
My(p) == buf[cur[p]]

\* wakeup of the processes that sleep at l on buffer b.
Wakeup(f, l, b, to) == [q \in Procs |-> IF f[q] = l /\ cur[q] = b THEN to ELSE f[q]]

-----------------------------------------------------------------------------
\* sleeplock.c

acquiresleep(p) ==
  /\ pc[p] = "acquire"
  /\ IF My(p).pid # NoProc
     THEN Goto(p, "lockwait") /\ UNCHANGED buf
     ELSE Goto(p, "bread") /\ buf' = [buf EXCEPT ![cur[p]].pid = p]
  /\ UNCHANGED <<driver, lru, idequeue, drive, disk, cur, blockno, writing>>

holdingsleep(p) == My(p).pid = p

\* Mutant: releasesleep without wakeup.
releasesleep_silent(p) ==
  /\ buf' = [buf EXCEPT ![cur[p]].pid = NoProc]
  /\ Goto(p, "releasing")

\* The waiters run again when the lock is free; the caller goes on to drop
\* its reference.
releasesleep(p) ==
  /\ buf' = [buf EXCEPT ![cur[p]].pid = NoProc]
  /\ pc' = Wakeup([pc EXCEPT ![p] = "releasing"], "lockwait", cur[p], "acquire")

-----------------------------------------------------------------------------
\* ide.c and memide.c

idestart(B, b) ==
  [cmd |-> IF B[b].dirty THEN "write" ELSE "read", blockno |-> B[b].blockno,
   data |-> B[b].data]

\* iderw of ide.c on the buffers B: queue the request, start the drive if it
\* has nothing else to do, sleep.
iderw_ide(p, B) ==
  LET b == cur[p] IN
  /\ buf' = B
  /\ idequeue' = Append(idequeue, b)
  /\ drive' = IF idequeue = << >> THEN idestart(B, b) ELSE drive
  /\ Goto(p, "iowait")
  /\ writing' = IF B[b].dirty THEN writing \cup {p} ELSE writing
  /\ UNCHANGED disk

\* iderw of memide.c copies at once.
iderw_mem(p, B) ==
  LET b == cur[p]
      n == B[b].blockno IN
  /\ disk' = IF B[b].dirty THEN [disk EXCEPT ![n] = B[b].data] ELSE disk
  /\ buf' = [B EXCEPT ![b].data = disk'[n], ![b].valid = TRUE, ![b].dirty = FALSE]
  /\ Goto(p, "using")
  /\ UNCHANGED <<idequeue, drive, writing>>

iderw(p, B) == IF driver = "ide" THEN iderw_ide(p, B) ELSE iderw_mem(p, B)

\* Mutant: the next request of the queue is not started.
ideintr_stop ==
  /\ idequeue # << >> /\ drive # NoCommand
  /\ LET b == Head(idequeue) IN
     /\ idequeue' = Tail(idequeue)
     /\ disk' = IF drive.cmd = "write" THEN [disk EXCEPT ![drive.blockno] = drive.data]
                ELSE disk
     /\ buf' = [buf EXCEPT ![b].valid = TRUE, ![b].dirty = FALSE,
                  ![b].data = IF buf[b].dirty THEN @ ELSE disk[drive.blockno]]
     /\ pc' = Wakeup(pc, "iowait", b, "iotest")
     /\ drive' = NoCommand
  /\ UNCHANGED <<driver, lru, cur, blockno, writing>>

\* The drive has executed its command and interrupts.
ideintr ==
  /\ drive # NoCommand
  /\ LET b == Head(idequeue) IN
     /\ idequeue' = Tail(idequeue)
     /\ disk' = IF drive.cmd = "write" THEN [disk EXCEPT ![drive.blockno] = drive.data]
                ELSE disk
     /\ buf' = [buf EXCEPT ![b].valid = TRUE, ![b].dirty = FALSE,
                  ![b].data = IF buf[b].dirty THEN @ ELSE disk[drive.blockno]]
     /\ pc' = Wakeup(pc, "iowait", b, "iotest")
     /\ drive' = IF idequeue' = << >> THEN NoCommand ELSE idestart(buf, Head(idequeue'))
  /\ UNCHANGED <<driver, lru, cur, blockno, writing>>

\* iderw after its sleep: VALID and not DIRTY, or sleep again.
iderw_test(p) ==
  /\ pc[p] = "iotest"
  /\ IF My(p).valid /\ ~My(p).dirty
     THEN Goto(p, "using") /\ writing' = writing \ {p}
     ELSE Goto(p, "iowait") /\ UNCHANGED writing
  /\ UNCHANGED <<driver, buf, lru, idequeue, drive, disk, cur, blockno>>

-----------------------------------------------------------------------------
\* bio.c

\* Mutant: a reference does not protect a buffer, only its lock does.
Recyclable_unlocked(b) == buf[b].pid = NoProc /\ ~buf[b].dirty

Recyclable(b) == buf[b].refcnt = 0 /\ ~buf[b].dirty

\* The first buffer of the list that has the block.
bget_hit(p, n) ==
  /\ pc[p] = "idle"
  /\ \E i \in DOMAIN lru :
       /\ buf[lru[i]].blockno = n /\ \A j \in 1..(i - 1) : buf[lru[j]].blockno # n
       /\ buf' = [buf EXCEPT ![lru[i]].refcnt = @ + 1]
       /\ cur' = [cur EXCEPT ![p] = lru[i]]
  /\ blockno' = [blockno EXCEPT ![p] = n]
  /\ Goto(p, "acquire")
  /\ UNCHANGED <<driver, lru, idequeue, drive, disk, writing>>

\* Recycle the least recently used buffer that is neither referenced nor
\* dirty.  Its old data is not read again and is wiped here.
bget_miss(p, n) ==
  /\ pc[p] = "idle"
  /\ \A b \in Bufs : buf[b].blockno # n
  /\ \E i \in DOMAIN lru :
       /\ Recyclable(lru[i]) /\ \A j \in (i + 1)..Len(lru) : ~Recyclable(lru[j])
       /\ buf' = [buf EXCEPT ![lru[i]] =
                    [@ EXCEPT !.blockno = n, !.valid = FALSE, !.dirty = FALSE,
                              !.refcnt = 1, !.data = NoData]]
       /\ cur' = [cur EXCEPT ![p] = lru[i]]
  /\ blockno' = [blockno EXCEPT ![p] = n]
  /\ Goto(p, "acquire")
  /\ UNCHANGED <<driver, lru, idequeue, drive, disk, writing>>

\* bget finds neither: panic("bget: no buffers"), nothing runs any more.
bget_panic(p, n) ==
  /\ pc[p] = "idle"
  /\ \A b \in Bufs : buf[b].blockno # n /\ ~Recyclable(b)
  /\ Goto(p, "panic")
  /\ UNCHANGED <<driver, buf, lru, idequeue, drive, disk, cur, blockno, writing>>

\* bread with the lock: read the block unless the buffer is valid.
bread(p) ==
  /\ pc[p] = "bread"
  /\ IF My(p).valid
     THEN Goto(p, "using") /\ UNCHANGED <<buf, idequeue, drive, disk, writing>>
     ELSE iderw(p, buf)
  /\ UNCHANGED <<driver, lru, cur, blockno>>

\* The user changes the block and calls bwrite.
bwrite(p, v) ==
  /\ pc[p] = "using" /\ holdingsleep(p) /\ blockno[p] \in Written
  /\ iderw(p, [buf EXCEPT ![cur[p]].data = v, ![cur[p]].dirty = TRUE])
  /\ UNCHANGED <<driver, lru, cur, blockno>>

\* The user changes the block and calls log_write, which only marks it.
log_write(p, v) ==
  /\ pc[p] = "using" /\ blockno[p] \in Written
  /\ My(p).dirty \/ Cardinality({b \in Bufs : buf[b].dirty}) < MaxDirty
  /\ buf' = [buf EXCEPT ![cur[p]].data = v, ![cur[p]].dirty = TRUE]
  /\ UNCHANGED <<driver, lru, idequeue, drive, disk, pc, cur, blockno, writing>>

brelse_unlock(p) ==
  /\ pc[p] = "using" /\ holdingsleep(p)
  /\ releasesleep(p)
  /\ UNCHANGED <<driver, lru, idequeue, drive, disk, cur, blockno, writing>>

\* Buffer b moved from its place in the list to the front.
ToFront(b) ==
  LET i == CHOOSE i \in DOMAIN lru : lru[i] = b
  IN  [j \in DOMAIN lru |-> IF j = 1 THEN b ELSE IF j <= i THEN lru[j - 1] ELSE lru[j]]

brelse_drop(p) ==
  LET b == cur[p] IN
  /\ pc[p] = "releasing"
  /\ buf' = [buf EXCEPT ![b].refcnt = @ - 1]
  /\ lru' = IF buf[b].refcnt = 1 THEN ToFront(b) ELSE lru
  /\ cur' = [cur EXCEPT ![p] = 0] /\ blockno' = [blockno EXCEPT ![p] = NoBlock]
  /\ Goto(p, "idle")
  /\ UNCHANGED <<driver, idequeue, drive, disk, writing>>

\* kill makes a sleeping process runnable whatever it waits for.
kill(p) ==
  /\ pc[p] \in {"lockwait", "iowait"}
  /\ Goto(p, IF pc[p] = "lockwait" THEN "acquire" ELSE "iotest")
  /\ UNCHANGED <<driver, buf, lru, idequeue, drive, disk, cur, blockno, writing>>

-----------------------------------------------------------------------------
Step(p) ==
  \/ acquiresleep(p) \/ iderw_test(p) \/ bread(p) \/ brelse_unlock(p) \/ brelse_drop(p)
  \/ \E n \in Blocks : bget_hit(p, n) \/ bget_miss(p, n) \/ bget_panic(p, n)
  \/ \E v \in Vals : bwrite(p, v) \/ log_write(p, v)

Panicked == \E p \in Procs : pc[p] = "panic"

Next ==
  /\ ~Panicked
  /\ ideintr \/ \E p \in Procs : Step(p) \/ kill(p)

Spec == Init /\ [][Next]_vars

-----------------------------------------------------------------------------
Reading(p) == pc[p] \in {"iowait", "iotest"} /\ p \notin writing

BS == INSTANCE BlockStore WITH
        store <- [n \in Blocks |->
                    LET c == {b \in Bufs : buf[b].blockno = n /\ buf[b].valid}
                    IN  IF c = {} THEN disk[n] ELSE buf[CHOOSE b \in c : TRUE].data],
        stable <- disk,
        uses <- [p \in Procs |->
                   IF pc[p] \in {"using", "iowait", "iotest"} /\ ~Reading(p)
                   THEN blockno[p] ELSE NoBlock],
        syncing <- writing

\* "only one process at a time can use a buffer" (bio.c): the cache and either
\* driver implement the store, in which a user sees what the last one left
\* although buffers are recycled, and bwrite returns with the block on disk.
ImplementsStore == BS!Spec

\* Whoever sleeps in acquiresleep waits for a holder that will release the
\* buffer, and whoever sleeps in iderw has its buffer in the queue, with the
\* drive at work on the first of it.
DiskSleepersAwaited ==
  /\ \A p \in Procs :
       /\ pc[p] = "lockwait" => My(p).pid \in Procs
       /\ pc[p] = "iowait" => \E i \in DOMAIN idequeue : idequeue[i] = cur[p]
  /\ idequeue # << >> => drive = idestart(buf, Head(idequeue))
=============================================================================
