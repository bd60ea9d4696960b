--------------------------- MODULE BufCacheProofs ---------------------------
(***************************************************************************)
(* The inductive invariant of the buffer cache over either disk driver,    *)
(* for any number of processes, blocks and buffers, and the step of the    *)
(* block store that each of its steps is.                                  *)
(***************************************************************************)
EXTENDS BufCache, Integers, TLAPS

\* Where a process has a buffer, and where it has the buffer's lock.
Having == {"acquire", "lockwait", "bread", "using", "iowait", "iotest", "releasing"}
Locking == {"bread", "using", "iowait", "iotest"}

Buffer ==
  [blockno : Blocks \cup {NoBlock}, valid : BOOLEAN, dirty : BOOLEAN, refcnt : Int,
   data : Vals \cup {NoData}, pid : Procs \cup {NoProc}]

BufTypes ==
  /\ driver \in {"ide", "memide"}
  /\ buf \in [Bufs -> Buffer] /\ lru \in [Bufs -> Bufs]
  /\ idequeue \in Seq(Bufs)
  /\ disk \in [Blocks -> Vals \cup {NoData}]
  /\ pc \in [Procs -> Having \cup {"idle", "panic"}]
  /\ cur \in [Procs -> Bufs \cup {0}]
  /\ blockno \in [Procs -> Blocks \cup {NoBlock}]
  /\ writing \in SUBSET Procs

\* Who has a buffer has one for the block it asked for, and has its lock from
\* acquiresleep to releasesleep; who waits for the lock waits for somebody.
HeldAt(p) ==
  /\ pc[p] \in Having <=> cur[p] \in Bufs
  /\ pc[p] \in Having => blockno[p] \in Blocks /\ buf[cur[p]].blockno = blockno[p]
  /\ pc[p] \in Locking => buf[cur[p]].pid = p
  /\ pc[p] = "lockwait" => buf[cur[p]].pid \in Procs
HeldInv == \A p \in Procs : HeldAt(p)

\* S has k elements: 1..k can number them.
Counts(k, S) ==
  /\ k \in Nat
  /\ \E f \in [1..k -> S] :
       /\ \A i, j \in 1..k : f[i] = f[j] => i = j
       /\ \A x \in S : \E i \in 1..k : f[i] = x

\* refcnt counts the processes that have the buffer.
Users(b) == {p \in Procs : cur[p] = b}
RefInv == \A b \in Bufs : Counts(buf[b].refcnt, Users(b))

\* A block is in one buffer at most; a clean buffer agrees with the disk.
CacheAt(b) ==
  /\ \A c \in Bufs : b # c => buf[b].blockno = NoBlock \/ buf[b].blockno # buf[c].blockno
  /\ buf[b].dirty => buf[b].valid
  /\ buf[b].valid => buf[b].blockno \in Blocks
  /\ buf[b].valid /\ ~buf[b].dirty => buf[b].data = disk[buf[b].blockno]
CacheInv == \A b \in Bufs : CacheAt(b)

\* A request is in the queue until the drive has served it, once, and its
\* process is in iderw; the drive is at work on the first request.
Asking(b) == \E p \in Procs : pc[p] \in {"iowait", "iotest"} /\ cur[p] = b
InQueue(b) == \E i \in 1..Len(idequeue) : idequeue[i] = b
QueueAt(b) == InQueue(b) => Asking(b) /\ (buf[b].valid => buf[b].dirty)
QueueInv ==
  /\ \A b \in Bufs : QueueAt(b)
  /\ \A i, j \in 1..Len(idequeue) : idequeue[i] = idequeue[j] => i = j
  /\ drive = (IF idequeue = << >> THEN NoCommand ELSE idestart(buf, Head(idequeue)))

\* What iderw has in hand at each of its lines.
RequestAt(p) ==
  /\ pc[p] = "using" => buf[cur[p]].valid
  /\ pc[p] = "iowait" => InQueue(cur[p])
  /\ pc[p] = "iotest" => InQueue(cur[p]) \/ (buf[cur[p]].valid /\ ~buf[cur[p]].dirty)
  /\ p \in writing => pc[p] \in {"iowait", "iotest"} /\ buf[cur[p]].valid
  /\ pc[p] \in {"iowait", "iotest"} /\ p \notin writing => ~buf[cur[p]].dirty
RequestInv == \A p \in Procs : RequestAt(p)

BufInv == BufTypes /\ HeldInv /\ RefInv /\ CacheInv /\ QueueInv /\ RequestInv

-----------------------------------------------------------------------------
(* The buffer cache: every step keeps the invariant.                       *)

\* Nothing is counted with 0.
LEMMA CountNone ==
  ASSUME NEW S PROVE Counts(0, S) <=> S = {}
<1>1. Counts(0, {})
  <2> DEFINE f == [i \in 1..0 |-> i]
  <2>1. f \in [1..0 -> {}]
    OBVIOUS
  <2>2. QED
    BY <2>1, Zenon DEF Counts
<1>2. Counts(0, S) => S = {}
  BY DEF Counts
<1>3. QED
  BY <1>1, <1>2

\* One more is counted with one more.
LEMMA CountMore ==
  ASSUME NEW S, NEW k, Counts(k, S), NEW x, x \notin S PROVE Counts(k + 1, S \cup {x})
<1>1. k \in Nat /\ k + 1 \in Nat
  BY DEF Counts
<1>2. PICK f \in [1..k -> S] : /\ \A i, j \in 1..k : f[i] = f[j] => i = j
                             /\ \A y \in S : \E i \in 1..k : f[i] = y
  BY DEF Counts
<1> DEFINE g == [i \in 1..(k + 1) |-> IF i = k + 1 THEN x ELSE f[i]]
<1>3. \A i \in 1..(k + 1) : i # k + 1 => i \in 1..k
  BY <1>1
<1>4. /\ 1..k \subseteq 1..(k + 1) /\ k + 1 \in 1..(k + 1) /\ k + 1 \notin 1..k
  BY <1>1
<1>5. g \in [1..(k + 1) -> S \cup {x}]
  BY <1>3
<1>6. /\ g[k + 1] = x /\ \A i \in 1..k : g[i] = f[i] /\ g[i] \in S
  BY <1>4
<1> HIDE DEF g
<1>7. \A i, j \in 1..(k + 1) : g[i] = g[j] => i = j
  BY <1>2, <1>3, <1>6
<1>8. \A y \in S \cup {x} : \E i \in 1..(k + 1) : g[i] = y
  BY <1>2, <1>4, <1>6
<1>9. QED
  BY <1>1, <1>5, <1>7, <1>8, Zenon DEF Counts

\* One less is counted with one less: the last number goes to the place of the
\* element that is gone.
LEMMA CountLess ==
  ASSUME NEW S, NEW k, Counts(k, S), NEW x \in S PROVE Counts(k - 1, S \ {x})
<1>1. k \in Nat
  BY DEF Counts
<1>2. PICK f \in [1..k -> S] : /\ \A i, j \in 1..k : f[i] = f[j] => i = j
                             /\ \A y \in S : \E i \in 1..k : f[i] = y
  BY DEF Counts
<1>3. PICK m \in 1..k : f[m] = x
  BY <1>2
<1> DEFINE g == [i \in 1..(k - 1) |-> IF i = m THEN f[k] ELSE f[i]]
<1>4. /\ k \in 1..k /\ 1..(k - 1) \subseteq 1..k /\ k \notin 1..(k - 1) /\ k - 1 \in Nat
      /\ \A i \in 1..k : i # k => i \in 1..(k - 1)
  BY <1>1, <1>3
<1>5. \A i \in 1..(k - 1) : g[i] = (IF i = m THEN f[k] ELSE f[i])
  OBVIOUS
<1>6. g \in [1..(k - 1) -> S \ {x}]
  <2>1. \A i \in 1..(k - 1) : g[i] \in S \ {x}
    BY <1>2, <1>3, <1>4, <1>5
  <2>2. QED
    BY <2>1
<1> HIDE DEF g
<1>7. \A i, j \in 1..(k - 1) : g[i] = g[j] => i = j
  BY <1>2, <1>4, <1>5
<1>8. ASSUME NEW y \in S \ {x} PROVE \E i \in 1..(k - 1) : g[i] = y
  <2>1. PICK i \in 1..k : f[i] = y
    BY <1>2
  <2>2. i # m
    BY <2>1, <1>3
  <2>3. CASE i = k
    BY <2>1, <2>2, <2>3, <1>3, <1>4, <1>5
  <2>4. CASE i # k
    BY <2>1, <2>2, <2>4, <1>4, <1>5
  <2>5. QED
    BY <2>3, <2>4
<1>9. QED
  BY <1>4, <1>6, <1>7, <1>8, Zenon DEF Counts

\* At boot no process has a buffer and no buffer has a block.
LEMMA BufStarts ==
  ASSUME Init PROVE BufInv
<1> USE CacheAssumption DEF Init
<1>1. BufTypes
  BY DEF BufTypes, Buffer, Bufs, Having
<1>2. HeldInv /\ CacheInv /\ RequestInv
  BY DEF HeldInv, HeldAt, CacheInv, CacheAt, RequestInv, RequestAt, Bufs, Having, Locking
<1>3. RefInv
  <2> SUFFICES ASSUME NEW b \in Bufs PROVE Counts(buf[b].refcnt, Users(b))
    BY DEF RefInv
  <2>1. Users(b) = {} /\ buf[b].refcnt = 0
    BY DEF Users, Bufs
  <2>2. QED
    BY <2>1, CountNone
<1>4. QueueInv
  BY DEF QueueInv, QueueAt, InQueue
<1>5. QED
  BY <1>1, <1>2, <1>3, <1>4 DEF BufInv

\* What a step of the locks and the lists leaves alone.
SameContents ==
  /\ \A b \in Bufs :
       /\ buf'[b].blockno = buf[b].blockno /\ buf'[b].data = buf[b].data
       /\ buf'[b].valid = buf[b].valid /\ buf'[b].dirty = buf[b].dirty
  /\ UNCHANGED <<disk, idequeue, drive>>
SameIO ==
  \A q \in Procs :
    pc[q] \in {"iowait", "iotest"} => pc'[q] \in {"iowait", "iotest"} /\ cur'[q] = cur[q]

\* The cache and the queue depend on the contents of the buffers and on who is
\* in iderw, not on the locks and the references.
LEMMA ContentsStay ==
  ASSUME BufInv, SameContents, SameIO PROVE CacheInv' /\ QueueInv'
<1>1. CacheInv'
  BY DEF BufInv, CacheInv, CacheAt, SameContents
<1>2. (\A b \in Bufs : QueueAt(b))'
  <2> SUFFICES ASSUME NEW b \in Bufs, InQueue(b)' PROVE (Asking(b) /\ (buf[b].valid => buf[b].dirty))'
    BY DEF QueueAt
  <2>1. InQueue(b)
    BY DEF InQueue, SameContents
  <2>2. QED
    BY <2>1 DEF BufInv, QueueInv, QueueAt, Asking, SameContents, SameIO
<1>3. (drive = (IF idequeue = << >> THEN NoCommand ELSE idestart(buf, Head(idequeue))))'
  <2>1. CASE idequeue = << >>
    BY <2>1 DEF BufInv, QueueInv, SameContents, NoCommand
  <2>2. CASE idequeue # << >>
    <3>1. Head(idequeue) \in Bufs
      BY <2>2 DEF BufInv, BufTypes
    <3>2. QED
      BY <2>2, <3>1 DEF BufInv, QueueInv, SameContents, idestart
  <2>3. QED
    BY <2>1, <2>2
<1>4. QED
  BY <1>1, <1>2, <1>3 DEF BufInv, QueueInv, SameContents

\* Assigning to the lock of one buffer.
LEMMA SetPid ==
  ASSUME buf \in [Bufs -> Buffer], NEW c \in Bufs, NEW x \in Procs \cup {NoProc},
         buf' = [buf EXCEPT ![c].pid = x]
  PROVE  /\ buf' \in [Bufs -> Buffer] /\ buf'[c].pid = x
         /\ \A b \in Bufs \ {c} : buf'[b] = buf[b]
         /\ \A b \in Bufs :
              /\ buf'[b].blockno = buf[b].blockno /\ buf'[b].data = buf[b].data
              /\ buf'[b].valid = buf[b].valid /\ buf'[b].dirty = buf[b].dirty
              /\ buf'[b].refcnt = buf[b].refcnt
<1>1. buf' = [b \in Bufs |-> IF b = c THEN [buf[c] EXCEPT !.pid = x] ELSE buf[b]]
  BY Zenon DEF Buffer
<1>2. buf[c] \in Buffer /\ [buf[c] EXCEPT !.pid = x] \in Buffer
  BY DEF Buffer
<1>3. QED
  BY <1>1, <1>2 DEF Buffer

\* Assigning to the references of one buffer.
LEMMA SetRefcnt ==
  ASSUME buf \in [Bufs -> Buffer], NEW c \in Bufs, NEW x \in Int,
         buf' = [buf EXCEPT ![c].refcnt = x]
  PROVE  /\ buf' \in [Bufs -> Buffer] /\ buf'[c].refcnt = x
         /\ \A b \in Bufs \ {c} : buf'[b] = buf[b]
         /\ \A b \in Bufs :
              /\ buf'[b].blockno = buf[b].blockno /\ buf'[b].data = buf[b].data
              /\ buf'[b].valid = buf[b].valid /\ buf'[b].dirty = buf[b].dirty
              /\ buf'[b].pid = buf[b].pid
<1>1. buf' = [b \in Bufs |-> IF b = c THEN [buf[c] EXCEPT !.refcnt = x] ELSE buf[b]]
  BY Zenon DEF Buffer
<1>2. buf[c] \in Buffer /\ [buf[c] EXCEPT !.refcnt = x] \in Buffer
  BY DEF Buffer
<1>3. QED
  BY <1>1, <1>2 DEF Buffer

\* A buffer that is changed and marked.
Put(c, v) == [buf EXCEPT ![c].data = v, ![c].dirty = TRUE]

\* What the change leaves as it was.
LEMMA SetDirty ==
  ASSUME buf \in [Bufs -> Buffer], NEW c \in Bufs, NEW v \in Vals
  PROVE  /\ Put(c, v) \in [Bufs -> Buffer]
         /\ \A b \in Bufs \ {c} : Put(c, v)[b] = buf[b]
         /\ Put(c, v)[c].dirty = TRUE /\ Put(c, v)[c].valid = buf[c].valid
         /\ Put(c, v)[c].blockno = buf[c].blockno /\ Put(c, v)[c].data = v
         /\ Put(c, v)[c].refcnt = buf[c].refcnt /\ Put(c, v)[c].pid = buf[c].pid
<1> DEFINE y == [buf[c] EXCEPT !.data = v, !.dirty = TRUE]
<1>1. buf[c] \in Buffer
  OBVIOUS
<1>2. /\ y \in Buffer /\ y.dirty = TRUE /\ y.valid = buf[c].valid /\ y.data = v
      /\ y.blockno = buf[c].blockno /\ y.refcnt = buf[c].refcnt /\ y.pid = buf[c].pid
  BY <1>1, Zenon DEF Buffer
<1>3. Put(c, v) = [b \in Bufs |-> IF b = c THEN y ELSE buf[b]]
  BY Zenon DEF Put
<1> HIDE DEF y
<1>4. QED
  BY <1>2, <1>3

\* A buffer that is recycled for block n.
LEMMA SetFresh ==
  ASSUME buf \in [Bufs -> Buffer], NEW c \in Bufs, NEW n \in Blocks, NEW k \in Int,
         buf' = [buf EXCEPT ![c] = [@ EXCEPT !.blockno = n, !.valid = FALSE, !.dirty = FALSE,
                                             !.refcnt = k, !.data = NoData]]
  PROVE  /\ buf' \in [Bufs -> Buffer]
         /\ \A b \in Bufs \ {c} : buf'[b] = buf[b]
         /\ buf'[c].blockno = n /\ buf'[c].valid = FALSE /\ buf'[c].dirty = FALSE
         /\ buf'[c].refcnt = k
<1> DEFINE y == [buf[c] EXCEPT !.blockno = n, !.valid = FALSE, !.dirty = FALSE,
                               !.refcnt = k, !.data = NoData]
<1>1. buf[c] \in Buffer
  OBVIOUS
<1>2. y \in Buffer /\ y.blockno = n /\ y.valid = FALSE /\ y.dirty = FALSE /\ y.refcnt = k
  BY <1>1, Zenon DEF Buffer
<1>3. buf' = [b \in Bufs |-> IF b = c THEN y ELSE buf[b]]
  BY Zenon
<1> HIDE DEF y
<1>4. QED
  BY <1>2, <1>3

\* A lock that is free is taken, one that is held is waited for.
LEMMA AcquireInd ==
  ASSUME BufInv, NEW p \in Procs, acquiresleep(p) PROVE BufInv'
<1> DEFINE c == cur[p]
<1>1. c \in Bufs /\ pc[p] = "acquire" /\ buf[c].pid \in Procs \cup {NoProc}
  BY DEF BufInv, BufTypes, Buffer, HeldInv, HeldAt, Having, acquiresleep
<1>2. /\ \A q \in Procs \ {p} : pc'[q] = pc[q]
      /\ UNCHANGED <<driver, lru, cur, blockno, writing, idequeue, disk, drive>>
      /\ pc' \in [Procs -> Having \cup {"idle", "panic"}]
      /\ \/ buf[c].pid \in Procs /\ pc'[p] = "lockwait" /\ buf' = buf
         \/ buf[c].pid = NoProc /\ pc'[p] = "bread" /\ buf' = [buf EXCEPT ![c].pid = p]
  BY <1>1 DEF BufInv, BufTypes, acquiresleep, My, Goto, Having
<1>3. /\ buf' \in [Bufs -> Buffer]
      /\ \A b \in Bufs \ {c} : buf'[b] = buf[b]
      /\ \A b \in Bufs : buf'[b].refcnt = buf[b].refcnt
      /\ pc'[p] = "bread" => buf[c].pid = NoProc /\ buf'[c].pid = p
      /\ pc'[p] = "lockwait" => buf'[c].pid \in Procs
      /\ pc'[p] \in {"bread", "lockwait"}
      /\ SameContents
  BY <1>1, <1>2, SetPid DEF BufInv, BufTypes, SameContents
<1> HIDE DEF c
<1>4. BufTypes'
  BY <1>2, <1>3 DEF BufInv, BufTypes
<1>5. CacheInv' /\ QueueInv'
  BY <1>1, <1>2, <1>3, ContentsStay DEF SameIO
<1>6. HeldInv'
  <2>1. HeldAt(p)'
    BY <1>1, <1>2, <1>3 DEF BufInv, HeldInv, HeldAt, SameContents, Having, Locking, c
  <2>2. ASSUME NEW q \in Procs \ {p} PROVE HeldAt(q)'
    BY <2>2, <1>1, <1>2, <1>3, CacheAssumption
      DEF BufInv, BufTypes, HeldInv, HeldAt, SameContents, Having, Locking, c
  <2>3. QED
    BY <2>1, <2>2, Zenon DEF HeldInv
<1>7. RefInv'
  BY <1>2, <1>3, Zenon DEF BufInv, RefInv, Users
<1>8. RequestInv'
  BY <1>1, <1>2, <1>3 DEF BufInv, BufTypes, RequestInv, RequestAt, SameContents, InQueue, HeldInv, HeldAt, Having
<1>9. QED
  BY <1>4, <1>5, <1>6, <1>7, <1>8 DEF BufInv


\* A step within iderw or into the panic changes no buffer.
LEMMA QuietInd ==
  ASSUME BufInv, NEW p \in Procs,
         iderw_test(p) \/ kill(p) \/ \E n \in Blocks : bget_panic(p, n)
  PROVE  BufInv'
<1>1. /\ UNCHANGED <<driver, buf, lru, idequeue, drive, disk, cur, blockno>>
      /\ \A q \in Procs \ {p} : pc'[q] = pc[q] /\ (q \in writing' <=> q \in writing)
      /\ pc' \in [Procs -> Having \cup {"idle", "panic"}] /\ writing' \in SUBSET Procs
      /\ \/ pc[p] \in {"iowait", "iotest"} /\ pc'[p] = "iotest" /\ writing' = writing
         \/ /\ pc[p] = "iotest" /\ pc'[p] = "using" /\ writing' = writing \ {p}
            /\ buf[cur[p]].valid /\ ~buf[cur[p]].dirty
         \/ /\ pc[p] = "iotest" /\ pc'[p] = "iowait" /\ writing' = writing
            /\ ~(buf[cur[p]].valid /\ ~buf[cur[p]].dirty)
         \/ pc[p] = "lockwait" /\ pc'[p] = "acquire" /\ writing' = writing
         \/ pc[p] = "idle" /\ pc'[p] = "panic" /\ writing' = writing
  <2>1. CASE iderw_test(p)
    BY <2>1, Zenon DEF BufInv, BufTypes, iderw_test, My, Goto, Having
  <2>2. CASE kill(p)
    BY <2>2, Zenon DEF BufInv, BufTypes, kill, Goto, Having
  <2>3. CASE \E n \in Blocks : bget_panic(p, n)
    BY <2>3 DEF BufInv, BufTypes, bget_panic, Goto, Having
  <2>4. QED
    BY <2>1, <2>2, <2>3, Zenon
<1>2. BufTypes' /\ RefInv' /\ CacheInv'
  BY <1>1, Zenon DEF BufInv, BufTypes, RefInv, Users, CacheInv, CacheAt
<1>3. HeldInv'
  BY <1>1, Zenon DEF BufInv, HeldInv, HeldAt, Having, Locking
<1>4. RequestInv'
  <2>1. RequestAt(p)'
    BY <1>1, Zenon DEF BufInv, RequestInv, RequestAt, InQueue
  <2>2. ASSUME NEW q \in Procs \ {p} PROVE RequestAt(q)'
    BY <1>1, Zenon DEF BufInv, RequestInv, RequestAt, InQueue
  <2>3. QED
    BY <2>1, <2>2 DEF RequestInv
<1>5. QueueInv'
  <2> SUFFICES ASSUME NEW b \in Bufs, InQueue(b) PROVE Asking(b)'
    BY <1>1, Zenon DEF BufInv, QueueInv, QueueAt, InQueue
  <2>1. PICK q \in Procs : pc[q] \in {"iowait", "iotest"} /\ cur[q] = b
    BY Zenon DEF BufInv, QueueInv, QueueAt, Asking
  <2>2. buf[b].valid => buf[b].dirty
    BY DEF BufInv, QueueInv, QueueAt
  <2>3. pc'[q] \in {"iowait", "iotest"}
    BY <1>1, <2>1, <2>2
  <2>4. QED
    BY <1>1, <2>1, <2>3, Zenon DEF Asking
<1>6. QED
  BY <1>2, <1>3, <1>4, <1>5 DEF BufInv

\* The holder lets go of the lock, and whoever waits for it tries again.
LEMMA UnlockInd ==
  ASSUME BufInv, NEW p \in Procs, brelse_unlock(p) PROVE BufInv'
<1> DEFINE c == cur[p]
<1>1. c \in Bufs /\ pc[p] = "using" /\ buf[c].pid = p
  BY DEF BufInv, BufTypes, HeldInv, HeldAt, Having, Locking, brelse_unlock
<1>2. /\ UNCHANGED <<driver, lru, cur, blockno, writing, idequeue, disk, drive>>
      /\ buf' = [buf EXCEPT ![c].pid = NoProc]
      /\ pc' \in [Procs -> Having \cup {"idle", "panic"}] /\ pc'[p] = "releasing"
      /\ \A q \in Procs \ {p} :
           IF pc[q] = "lockwait" /\ cur[q] = c THEN pc'[q] = "acquire" ELSE pc'[q] = pc[q]
  BY <1>1 DEF BufInv, BufTypes, brelse_unlock, releasesleep, Wakeup, Having
<1>3. /\ buf' \in [Bufs -> Buffer]
      /\ \A b \in Bufs \ {c} : buf'[b] = buf[b]
      /\ \A b \in Bufs : buf'[b].refcnt = buf[b].refcnt
      /\ SameContents
  BY <1>1, <1>2, SetPid, Zenon DEF BufInv, BufTypes, SameContents
<1> HIDE DEF c
<1>4. BufTypes' /\ RefInv'
  <2>1. BufTypes'
    BY <1>2, <1>3, Zenon DEF BufInv, BufTypes
  <2>2. RefInv'
    BY <1>2, <1>3, Zenon DEF BufInv, RefInv, Users
  <2>3. QED
    BY <2>1, <2>2
<1>5. CacheInv' /\ QueueInv'
  BY <1>1, <1>2, <1>3, ContentsStay DEF SameIO
<1>6. HeldInv'
  <2>1. HeldAt(p)'
    BY <1>1, <1>2, <1>3 DEF BufInv, HeldInv, HeldAt, SameContents, Having, Locking, c
  <2>2. ASSUME NEW q \in Procs \ {p} PROVE HeldAt(q)'
    BY <1>1, <1>2, <1>3 DEF BufInv, HeldInv, HeldAt, SameContents, Having, Locking, c
  <2>3. QED
    BY <2>1, <2>2 DEF HeldInv
<1>7. RequestInv'
  BY <1>1, <1>2, <1>3
    DEF BufInv, BufTypes, RequestInv, RequestAt, SameContents, InQueue, HeldInv, HeldAt, Having
<1>8. QED
  BY <1>4, <1>5, <1>6, <1>7 DEF BufInv


\* A process that had no buffer is one more user of c.
LEMMA UsersJoin ==
  ASSUME BufInv, NEW p \in Procs, NEW c \in Bufs, cur[p] = 0,
         cur' = [cur EXCEPT ![p] = c]
  PROVE  /\ Counts(buf[c].refcnt + 1, {q \in Procs : cur'[q] = c})
         /\ \A b \in Bufs \ {c} : Users(b)' = Users(b)
<1>1. 0 \notin Bufs
  BY DEF Bufs
<1>2. {q \in Procs : cur'[q] = c} = Users(c) \cup {p} /\ p \notin Users(c)
  BY <1>1 DEF BufInv, BufTypes, Users
<1>3. Counts(buf[c].refcnt + 1, Users(c) \cup {p})
  BY <1>2, CountMore, Zenon DEF BufInv, RefInv
<1>4. ASSUME NEW b \in Bufs \ {c} PROVE Users(b)' = Users(b)
  BY <1>1 DEF BufInv, BufTypes, Users
<1>5. QED
  BY <1>2, <1>3, <1>4

\* A process that drops its buffer is a user less.
LEMMA UsersLeave ==
  ASSUME BufInv, NEW p \in Procs, cur[p] \in Bufs, cur' = [cur EXCEPT ![p] = 0]
  PROVE  /\ Counts(buf[cur[p]].refcnt - 1, {q \in Procs : cur'[q] = cur[p]})
         /\ \A b \in Bufs \ {cur[p]} : Users(b)' = Users(b)
<1>1. 0 \notin Bufs
  BY DEF Bufs
<1>2. {q \in Procs : cur'[q] = cur[p]} = Users(cur[p]) \ {p} /\ p \in Users(cur[p])
  BY <1>1 DEF BufInv, BufTypes, Users
<1>3. Counts(buf[cur[p]].refcnt - 1, Users(cur[p]) \ {p})
  BY <1>2, CountLess DEF BufInv, RefInv
<1>4. ASSUME NEW b \in Bufs \ {cur[p]} PROVE Users(b)' = Users(b)
  BY <1>1 DEF BufInv, BufTypes, Users
<1>5. QED
  BY <1>2, <1>3, <1>4, Zenon

\* bget finds the block in the cache.
LEMMA HitInd ==
  ASSUME BufInv, NEW p \in Procs, NEW n \in Blocks, bget_hit(p, n) PROVE BufInv'
<1>1. PICK i \in DOMAIN lru :
        /\ buf[lru[i]].blockno = n
        /\ buf' = [buf EXCEPT ![lru[i]].refcnt = @ + 1]
        /\ cur' = [cur EXCEPT ![p] = lru[i]]
  BY Zenon DEF bget_hit
<1> DEFINE c == lru[i]
<1>2. c \in Bufs /\ buf[c].blockno = n /\ pc[p] = "idle" /\ cur[p] = 0 /\ buf[c].refcnt \in Int
  <2>1. c \in Bufs /\ buf[c].blockno = n /\ pc[p] = "idle"
    BY <1>1, Zenon DEF BufInv, BufTypes, bget_hit
  <2>2. cur[p] = 0
    BY <2>1 DEF BufInv, BufTypes, HeldInv, HeldAt, Having
  <2>3. buf[c].refcnt \in Int
    BY <2>1 DEF BufInv, BufTypes, Buffer
  <2>4. QED
    BY <2>1, <2>2, <2>3
<1>3. buf' = [buf EXCEPT ![c].refcnt = buf[c].refcnt + 1] /\ cur' = [cur EXCEPT ![p] = c]
  BY <1>1, <1>2 DEF BufInv, BufTypes, Buffer
<1> HIDE DEF c
<1>4. /\ UNCHANGED <<driver, lru, writing, idequeue, disk, drive>>
      /\ pc' \in [Procs -> Having \cup {"idle", "panic"}]
      /\ cur' \in [Procs -> Bufs \cup {0}] /\ blockno' \in [Procs -> Blocks \cup {NoBlock}]
      /\ pc'[p] = "acquire" /\ cur'[p] = c /\ blockno'[p] = n
      /\ \A q \in Procs \ {p} : pc'[q] = pc[q] /\ cur'[q] = cur[q] /\ blockno'[q] = blockno[q]
  BY <1>2, <1>3 DEF BufInv, BufTypes, bget_hit, Goto, Having
<1>5. /\ buf' \in [Bufs -> Buffer] /\ buf'[c].refcnt = buf[c].refcnt + 1
      /\ \A b \in Bufs \ {c} : buf'[b] = buf[b]
      /\ \A b \in Bufs : buf'[b].pid = buf[b].pid
      /\ SameContents
  <2> DEFINE x == buf[c].refcnt + 1
  <2>1. x \in Int /\ c \in Bufs /\ buf' = [buf EXCEPT ![c].refcnt = x]
    BY <1>2, <1>3, <1>4
  <2> HIDE DEF x
  <2>2. /\ buf' \in [Bufs -> Buffer] /\ buf'[c].refcnt = x
        /\ \A b \in Bufs \ {c} : buf'[b] = buf[b]
        /\ \A b \in Bufs :
             /\ buf'[b].blockno = buf[b].blockno /\ buf'[b].data = buf[b].data
             /\ buf'[b].valid = buf[b].valid /\ buf'[b].dirty = buf[b].dirty
             /\ buf'[b].pid = buf[b].pid
    BY <2>1, SetRefcnt, Zenon DEF BufInv, BufTypes
  <2>3. QED
    BY <2>2, <1>4, Zenon DEF SameContents, x
<1>6. BufTypes'
  BY <1>4, <1>5, Zenon DEF BufInv, BufTypes
<1>7. RefInv'
  <2>1. /\ Counts(buf[c].refcnt + 1, {q \in Procs : cur'[q] = c})
        /\ \A b \in Bufs \ {c} : Users(b)' = Users(b)
    BY <1>2, <1>3, UsersJoin, Zenon
  <2>2. ASSUME NEW b \in Bufs PROVE Counts(buf'[b].refcnt, Users(b)')
    <3>1. CASE b = c
      BY <2>1, <3>1, <1>5, Zenon DEF BufInv, RefInv, Users
    <3>2. CASE b # c
      BY <2>1, <3>2, <1>5, Zenon DEF BufInv, RefInv
    <3>3. QED
      BY <3>1, <3>2
  <2>3. QED
    BY <2>2 DEF RefInv
<1>8. CacheInv' /\ QueueInv'
  BY <1>2, <1>4, <1>5, ContentsStay, Zenon DEF SameIO
<1>9. HeldInv'
  BY <1>2, <1>4, <1>5 DEF BufInv, HeldInv, HeldAt, SameContents, Having, Locking
<1>10. RequestInv'
  BY <1>2, <1>4, <1>5
    DEF BufInv, BufTypes, RequestInv, RequestAt, SameContents, InQueue, HeldInv, HeldAt, Having
<1>11. QED
  BY <1>6, <1>7, <1>8, <1>9, <1>10 DEF BufInv

\* brelse drops the reference; the list keeps the same buffers.
LEMMA DropInd ==
  ASSUME BufInv, NEW p \in Procs, brelse_drop(p) PROVE BufInv'
<1> DEFINE c == cur[p]
<1>1. c \in Bufs /\ pc[p] = "releasing" /\ buf[c].refcnt \in Int
  BY DEF BufInv, BufTypes, Buffer, HeldInv, HeldAt, Having, brelse_drop
<1>2. buf' = [buf EXCEPT ![c].refcnt = buf[c].refcnt - 1] /\ cur' = [cur EXCEPT ![p] = 0]
  BY <1>1 DEF BufInv, BufTypes, Buffer, brelse_drop
<1>3. lru' \in [Bufs -> Bufs]
  <2>1. DOMAIN lru = Bufs /\ \A j \in Bufs : j # 1 => j - 1 \in Bufs
    BY CacheAssumption DEF BufInv, BufTypes, Bufs
  <2>2. ToFront(c) \in [Bufs -> Bufs]
    BY <1>1, <2>1, Zenon DEF BufInv, BufTypes, ToFront
  <2>3. QED
    BY <2>2 DEF BufInv, BufTypes, brelse_drop
<1> HIDE DEF c
<1>4. /\ UNCHANGED <<driver, writing, idequeue, disk, drive>>
      /\ pc' \in [Procs -> Having \cup {"idle", "panic"}]
      /\ cur' \in [Procs -> Bufs \cup {0}] /\ blockno' \in [Procs -> Blocks \cup {NoBlock}]
      /\ pc'[p] = "idle" /\ cur'[p] = 0 /\ blockno'[p] = NoBlock
      /\ \A q \in Procs \ {p} : pc'[q] = pc[q] /\ cur'[q] = cur[q] /\ blockno'[q] = blockno[q]
  BY <1>1, <1>2, Zenon DEF BufInv, BufTypes, brelse_drop, Goto, Having
<1>5. /\ buf' \in [Bufs -> Buffer] /\ buf'[c].refcnt = buf[c].refcnt - 1
      /\ \A b \in Bufs \ {c} : buf'[b] = buf[b]
      /\ \A b \in Bufs : buf'[b].pid = buf[b].pid
      /\ SameContents
  <2> DEFINE x == buf[c].refcnt - 1
  <2>1. x \in Int /\ c \in Bufs /\ buf' = [buf EXCEPT ![c].refcnt = x]
    BY <1>1, <1>2, <1>4
  <2> HIDE DEF x
  <2>2. /\ buf' \in [Bufs -> Buffer] /\ buf'[c].refcnt = x
        /\ \A b \in Bufs \ {c} : buf'[b] = buf[b]
        /\ \A b \in Bufs :
             /\ buf'[b].blockno = buf[b].blockno /\ buf'[b].data = buf[b].data
             /\ buf'[b].valid = buf[b].valid /\ buf'[b].dirty = buf[b].dirty
             /\ buf'[b].pid = buf[b].pid
    BY <2>1, SetRefcnt, Zenon DEF BufInv, BufTypes
  <2>3. QED
    BY <2>2, <1>4 DEF SameContents, x
<1>6. BufTypes'
  BY <1>3, <1>4, <1>5, Zenon DEF BufInv, BufTypes
<1>7. RefInv'
  <2>1. /\ Counts(buf[c].refcnt - 1, {q \in Procs : cur'[q] = c})
        /\ \A b \in Bufs \ {c} : Users(b)' = Users(b)
    BY <1>1, <1>2, UsersLeave, Zenon DEF c
  <2>2. ASSUME NEW b \in Bufs PROVE Counts(buf'[b].refcnt, Users(b)')
    <3>1. CASE b = c
      BY <2>1, <3>1, <1>5 DEF BufInv, RefInv, Users
    <3>2. CASE b # c
      BY <2>1, <3>2, <1>5, Zenon DEF BufInv, RefInv
    <3>3. QED
      BY <3>1, <3>2
  <2>3. QED
    BY <2>2 DEF RefInv
<1>8. CacheInv' /\ QueueInv'
  BY <1>1, <1>4, <1>5, ContentsStay, Zenon DEF SameIO
<1>9. HeldInv'
  <2>1. 0 \notin Bufs
    BY DEF Bufs
  <2>2. QED
    BY <2>1, <1>1, <1>4, <1>5 DEF BufInv, HeldInv, HeldAt, SameContents, Having, Locking
<1>10. RequestInv'
  BY <1>1, <1>4, <1>5
    DEF BufInv, BufTypes, RequestInv, RequestAt, SameContents, InQueue, HeldInv, HeldAt, Having
<1>11. QED
  BY <1>6, <1>7, <1>8, <1>9, <1>10 DEF BufInv


\* The queue and the drive depend on the buffers in the queue.
LEMMA QueueStays ==
  ASSUME BufInv, NEW c, ~InQueue(c), \A b \in Bufs \ {c} : buf'[b] = buf[b],
         UNCHANGED <<idequeue, drive>>, SameIO
  PROVE  QueueInv'
<1>1. ASSUME NEW b \in Bufs, InQueue(b)' PROVE (Asking(b) /\ (buf[b].valid => buf[b].dirty))'
  <2>1. InQueue(b) /\ b # c
    BY <1>1 DEF InQueue
  <2>2. QED
    BY <2>1 DEF BufInv, QueueInv, QueueAt, Asking, SameIO
<1>2. (drive = (IF idequeue = << >> THEN NoCommand ELSE idestart(buf, Head(idequeue))))'
  <2>1. CASE idequeue = << >>
    BY <2>1, Zenon DEF BufInv, QueueInv, NoCommand
  <2>2. CASE idequeue # << >>
    <3>1. Head(idequeue) \in Bufs /\ InQueue(Head(idequeue))
      BY <2>2 DEF BufInv, BufTypes, InQueue
    <3>2. QED
      BY <2>2, <3>1 DEF BufInv, QueueInv, idestart
  <2>3. QED
    BY <2>1, <2>2
<1>3. QED
  BY <1>1, <1>2 DEF BufInv, QueueInv, QueueAt

\* A buffer without users is not in the queue, nor is one that its holder has
\* outside iderw.
LEMMA NotAsked ==
  ASSUME BufInv, NEW c \in Bufs,
         Users(c) = {} \/ \E p \in Procs : pc[p] \in {"bread", "using"} /\ cur[p] = c
  PROVE  ~InQueue(c)
<1> SUFFICES ASSUME InQueue(c) PROVE FALSE
  OBVIOUS
<1>1. PICK q \in Procs : pc[q] \in {"iowait", "iotest"} /\ cur[q] = c
  BY DEF BufInv, QueueInv, QueueAt, Asking
<1>2. CASE Users(c) = {}
  BY <1>1, <1>2 DEF Users
<1>3. CASE \E p \in Procs : pc[p] \in {"bread", "using"} /\ cur[p] = c
  BY <1>1, <1>3 DEF BufInv, HeldInv, HeldAt, Locking
<1>4. QED
  BY <1>2, <1>3

\* bget recycles a buffer that nobody has for a block that is in none.
LEMMA MissInd ==
  ASSUME BufInv, NEW p \in Procs, NEW n \in Blocks, bget_miss(p, n) PROVE BufInv'
<1>1. PICK i \in DOMAIN lru :
        /\ Recyclable(lru[i])
        /\ buf' = [buf EXCEPT ![lru[i]] =
                     [@ EXCEPT !.blockno = n, !.valid = FALSE, !.dirty = FALSE,
                               !.refcnt = 1, !.data = NoData]]
        /\ cur' = [cur EXCEPT ![p] = lru[i]]
  BY Zenon DEF bget_miss
<1> DEFINE c == lru[i]
<1>2. /\ c \in Bufs /\ buf[c].refcnt = 0 /\ pc[p] = "idle" /\ cur[p] = 0
      /\ \A b \in Bufs : buf[b].blockno # n
  BY <1>1 DEF BufInv, BufTypes, HeldInv, HeldAt, Having, bget_miss, Recyclable
<1>3. /\ buf' \in [Bufs -> Buffer] /\ cur' = [cur EXCEPT ![p] = c]
      /\ \A b \in Bufs \ {c} : buf'[b] = buf[b]
      /\ buf'[c].blockno = n /\ ~buf'[c].valid /\ ~buf'[c].dirty /\ buf'[c].refcnt = 1
  <2> DEFINE k == 1
  <2>1. /\ k \in Int /\ c \in Bufs /\ buf \in [Bufs -> Buffer]
        /\ buf' = [buf EXCEPT ![c] = [@ EXCEPT !.blockno = n, !.valid = FALSE, !.dirty = FALSE,
                                               !.refcnt = k, !.data = NoData]]
    BY <1>1, <1>2 DEF BufInv, BufTypes
  <2> HIDE DEF k, c
  <2>2. /\ buf' \in [Bufs -> Buffer]
        /\ \A b \in Bufs \ {c} : buf'[b] = buf[b]
        /\ buf'[c].blockno = n /\ buf'[c].valid = FALSE /\ buf'[c].dirty = FALSE
        /\ buf'[c].refcnt = k
    BY <2>1, SetFresh, Zenon
  <2>3. QED
    BY <1>1, <2>2 DEF k, c
<1> HIDE DEF c
<1>4. /\ UNCHANGED <<driver, lru, writing, idequeue, disk, drive>>
      /\ pc' \in [Procs -> Having \cup {"idle", "panic"}]
      /\ cur' \in [Procs -> Bufs \cup {0}] /\ blockno' \in [Procs -> Blocks \cup {NoBlock}]
      /\ pc'[p] = "acquire" /\ cur'[p] = c /\ blockno'[p] = n
      /\ \A q \in Procs \ {p} : pc'[q] = pc[q] /\ cur'[q] = cur[q] /\ blockno'[q] = blockno[q]
  BY <1>2, <1>3 DEF BufInv, BufTypes, bget_miss, Goto, Having
<1>5. Users(c) = {} /\ \A q \in Procs : cur[q] # c
  <2>1. Counts(0, Users(c))
    BY <1>2, Zenon DEF BufInv, RefInv
  <2>2. Users(c) = {}
    BY <2>1, CountNone
  <2>3. QED
    BY <2>2 DEF Users
<1>6. BufTypes'
  BY <1>3, <1>4, Zenon DEF BufInv, BufTypes
<1>7. RefInv'
  <2>1. /\ Counts(buf[c].refcnt + 1, {q \in Procs : cur'[q] = c})
        /\ \A b \in Bufs \ {c} : Users(b)' = Users(b)
    BY <1>2, <1>3, UsersJoin, Zenon
  <2>2. ASSUME NEW b \in Bufs PROVE Counts(buf'[b].refcnt, Users(b)')
    <3>1. CASE b = c
      BY <2>1, <3>1, <1>2, <1>3 DEF BufInv, RefInv, Users
    <3>2. CASE b # c
      BY <2>1, <3>2, <1>3, Zenon DEF BufInv, RefInv
    <3>3. QED
      BY <3>1, <3>2
  <2>3. QED
    BY <2>2 DEF RefInv
<1>8. CacheInv'
  BY <1>2, <1>3, <1>4 DEF BufInv, CacheInv, CacheAt
<1>9. QueueInv'
  <2>1. ~InQueue(c)
    BY <1>2, <1>5, NotAsked
  <2>2. QED
    BY <2>1, <1>2, <1>3, <1>4, QueueStays, Zenon DEF SameIO
<1>10. HeldInv'
  <2>1. HeldAt(p)'
    BY <1>2, <1>3, <1>4, Zenon DEF HeldAt, Having, Locking
  <2>2. ASSUME NEW q \in Procs \ {p} PROVE HeldAt(q)'
    BY <1>3, <1>4, <1>5 DEF BufInv, HeldInv, HeldAt, Having, Locking
  <2>3. QED
    BY <2>1, <2>2, Zenon DEF HeldInv
<1>11. RequestInv'
  <2>1. RequestAt(p)'
    BY <1>2, <1>4, Zenon DEF BufInv, RequestInv, RequestAt
  <2>2. ASSUME NEW q \in Procs \ {p} PROVE RequestAt(q)'
    BY <1>3, <1>4, <1>5 DEF BufInv, BufTypes, RequestInv, RequestAt, InQueue, HeldInv, HeldAt, Having
  <2>3. QED
    BY <2>1, <2>2 DEF RequestInv
<1>12. QED
  BY <1>6, <1>7, <1>8, <1>9, <1>10, <1>11 DEF BufInv

\* log_write changes the buffer its user has and marks it.
LEMMA LogWriteInd ==
  ASSUME BufInv, NEW p \in Procs, NEW v \in Vals, log_write(p, v) PROVE BufInv'
<1> DEFINE c == cur[p]
<1>1. c \in Bufs /\ pc[p] = "using" /\ buf[c].valid /\ buf[c].pid = p
  BY DEF BufInv, BufTypes, HeldInv, HeldAt, RequestInv, RequestAt, Having, Locking, log_write
<1>2. UNCHANGED <<driver, lru, idequeue, drive, disk, pc, cur, blockno, writing>>
  BY Zenon DEF log_write
<1>3. /\ buf' \in [Bufs -> Buffer]
      /\ \A b \in Bufs \ {c} : buf'[b] = buf[b]
      /\ buf'[c].dirty /\ buf'[c].valid /\ buf'[c].blockno = buf[c].blockno
      /\ buf'[c].refcnt = buf[c].refcnt /\ buf'[c].pid = buf[c].pid
  <2>1. buf' = Put(c, v)
    BY DEF log_write, Put
  <2>2. buf \in [Bufs -> Buffer]
    BY DEF BufInv, BufTypes
  <2> HIDE DEF c
  <2>3. QED
    BY <1>1, <2>1, <2>2, SetDirty, Zenon
<1> HIDE DEF c
<1>4. BufTypes'
  BY <1>2, <1>3, Zenon DEF BufInv, BufTypes
<1>5. RefInv'
  BY <1>2, <1>3, Zenon DEF BufInv, RefInv, Users
<1>6. CacheInv'
  BY <1>1, <1>2, <1>3 DEF BufInv, CacheInv, CacheAt
<1>7. QueueInv'
  <2>1. ~InQueue(c)
    BY <1>1, NotAsked, Zenon DEF c
  <2>2. QED
    BY <2>1, <1>2, <1>3, QueueStays, Zenon DEF SameIO
<1>8. HeldInv'
  BY <1>2, <1>3 DEF BufInv, HeldInv, HeldAt, Having, Locking
<1>9. RequestInv'
  <2>1. RequestAt(p)'
    BY <1>1, <1>2, <1>3, Zenon DEF BufInv, RequestInv, RequestAt, c
  <2>2. ASSUME NEW q \in Procs \ {p} PROVE RequestAt(q)'
    BY <1>1, <1>2, <1>3 DEF BufInv, BufTypes, RequestInv, RequestAt, InQueue, HeldInv, HeldAt, Having, Locking
  <2>3. QED
    BY <2>1, <2>2, Zenon DEF RequestInv
<1>10. QED
  BY <1>4, <1>5, <1>6, <1>7, <1>8, <1>9, Zenon DEF BufInv


\* bread has the lock of a valid buffer.
LEMMA BreadValidInd ==
  ASSUME BufInv, NEW p \in Procs, bread(p), buf[cur[p]].valid PROVE BufInv'
<1>1. /\ UNCHANGED <<driver, buf, lru, idequeue, drive, disk, cur, blockno, writing>>
      /\ pc[p] = "bread" /\ pc' = [pc EXCEPT ![p] = "using"]
  BY Zenon DEF bread, My, Goto
<1>2. BufTypes' /\ RefInv' /\ CacheInv'
  BY <1>1, Zenon DEF BufInv, BufTypes, RefInv, Users, CacheInv, CacheAt, Having
<1>3. HeldInv'
  BY <1>1, Zenon DEF BufInv, BufTypes, HeldInv, HeldAt, Having, Locking
<1>4. RequestInv'
  BY <1>1, Zenon DEF BufInv, BufTypes, RequestInv, RequestAt, InQueue
<1>5. QueueInv'
  <2>1. SameContents /\ SameIO
    BY <1>1 DEF BufInv, BufTypes, SameContents, SameIO
  <2>2. QED
    BY <2>1, ContentsStay, Zenon
<1>6. QED
  BY <1>2, <1>3, <1>4, <1>5, Zenon DEF BufInv

\* The buffers Q with which p calls iderw: its own is either to be read, and
\* neither valid nor dirty, or to be written, and both.
Request(p, Q) ==
  /\ pc[p] \in {"bread", "using"}
  /\ Q \in [Bufs -> Buffer] /\ \A b \in Bufs \ {cur[p]} : Q[b] = buf[b]
  /\ Q[cur[p]].blockno = buf[cur[p]].blockno /\ Q[cur[p]].refcnt = buf[cur[p]].refcnt
  /\ Q[cur[p]].pid = buf[cur[p]].pid /\ Q[cur[p]].valid = buf[cur[p]].valid
  /\ Q[cur[p]].dirty = Q[cur[p]].valid
  /\ UNCHANGED <<driver, lru, cur, blockno>>

\* A request goes to the end of the queue.
LEMMA Enqueue ==
  ASSUME NEW s \in Seq(Bufs), NEW c \in Bufs
  PROVE  /\ Append(s, c) \in Seq(Bufs) /\ Append(s, c) # << >>
         /\ Len(Append(s, c)) = Len(s) + 1 /\ Len(s) \in Nat
         /\ Append(s, c)[Len(s) + 1] = c /\ \A i \in 1..Len(s) : Append(s, c)[i] = s[i]
         /\ Head(Append(s, c)) = IF s = << >> THEN c ELSE Head(s)
<1>1. /\ Append(s, c) \in Seq(Bufs) /\ Len(s) \in Nat
      /\ Len(Append(s, c)) = Len(s) + 1 /\ Append(s, c)[Len(s) + 1] = c
      /\ \A i \in 1..Len(s) : Append(s, c)[i] = s[i]
  OBVIOUS
<1>2. CASE s = << >>
  BY <1>1, <1>2
<1>3. CASE s # << >>
  <2>1. Len(s) >= 1 /\ Append(s, c)[1] = s[1]
    BY <1>1, <1>3
  <2>2. QED
    BY <1>1, <1>3, <2>1
<1>4. QED
  BY <1>2, <1>3

\* The drive is asked to read or write the buffer.
LEMMA AskInd ==
  ASSUME BufInv, NEW p \in Procs, NEW Q, Request(p, Q), iderw_ide(p, Q) PROVE BufInv'
<1> DEFINE c == cur[p]
<1>1. /\ c \in Bufs /\ pc[p] \in {"bread", "using"} /\ buf[c].pid = p /\ p \notin writing
      /\ blockno[p] \in Blocks /\ buf[c].blockno = blockno[p]
  BY Zenon DEF BufInv, BufTypes, HeldInv, HeldAt, RequestInv, RequestAt, Having, Locking, Request
<1>2. /\ UNCHANGED <<driver, lru, cur, blockno, disk>> /\ buf' = Q
      /\ idequeue' = Append(idequeue, c)
      /\ drive' = IF idequeue = << >> THEN idestart(Q, c) ELSE drive
      /\ pc' \in [Procs -> Having \cup {"idle", "panic"}] /\ pc'[p] = "iowait"
      /\ \A q \in Procs \ {p} : pc'[q] = pc[q] /\ (q \in writing' <=> q \in writing)
      /\ (p \in writing' <=> Q[c].dirty) /\ writing' \in SUBSET Procs
  BY <1>1, Zenon DEF BufInv, BufTypes, Request, iderw_ide, Goto, Having
<1>3. ~InQueue(c) /\ \A q \in Procs \ {p} : pc[q] \in Locking => cur[q] # c
  <2>1. ~InQueue(c)
    BY <1>1, NotAsked, Zenon
  <2>2. QED
    BY <1>1, <2>1 DEF BufInv, HeldInv, HeldAt
<1>4. /\ Q \in [Bufs -> Buffer] /\ \A b \in Bufs \ {c} : Q[b] = buf[b]
      /\ Q[c].blockno = buf[c].blockno /\ Q[c].refcnt = buf[c].refcnt
      /\ Q[c].pid = buf[c].pid /\ Q[c].valid = buf[c].valid /\ Q[c].dirty = Q[c].valid
  BY Zenon DEF Request
<1> HIDE DEF c
<1>5. BufTypes'
  BY <1>1, <1>2, <1>4, Enqueue DEF BufInv, BufTypes
<1>6. HeldInv'
  <2>1. HeldAt(p)'
    BY <1>1, <1>2, <1>4, Zenon DEF HeldAt, Having, Locking, c
  <2>2. ASSUME NEW q \in Procs \ {p} PROVE HeldAt(q)'
    BY <1>1, <1>2, <1>4 DEF BufInv, HeldInv, HeldAt, Having, Locking
  <2>3. QED
    BY <2>1, <2>2 DEF HeldInv
<1>7. RefInv'
  <2>1. ASSUME NEW b \in Bufs PROVE buf'[b].refcnt = buf[b].refcnt /\ Users(b)' = Users(b)
    BY <1>2, <1>4, Zenon DEF Users
  <2>2. QED
    BY <2>1, Zenon DEF BufInv, RefInv
<1>8. CacheInv'
  <2>1. \A b \in Bufs : buf'[b].blockno = buf[b].blockno /\ buf'[b].valid = buf[b].valid
    BY <1>2, <1>4, Zenon
  <2>2. ASSUME NEW b \in Bufs PROVE CacheAt(b)'
    <3>1. /\ \A d \in Bufs : b # d =>
               buf'[b].blockno = NoBlock \/ buf'[b].blockno # buf'[d].blockno
          /\ buf'[b].valid => buf'[b].blockno \in Blocks
      <4>1. /\ \A d \in Bufs : b # d =>
                 buf[b].blockno = NoBlock \/ buf[b].blockno # buf[d].blockno
            /\ buf[b].valid => buf[b].blockno \in Blocks
        BY Zenon DEF BufInv, CacheInv, CacheAt
      <4>2. QED
        BY <2>1, <4>1
    <3>2. (buf[b].dirty => buf[b].valid)'
          /\ (buf[b].valid /\ ~buf[b].dirty => buf[b].data = disk[buf[b].blockno])'
      <4>1. CASE b = c
        BY <4>1, <1>2, <1>4
      <4>2. CASE b # c
        BY <4>2, <1>2, <1>4, Zenon DEF BufInv, CacheInv, CacheAt
      <4>3. QED
        BY <4>1, <4>2
    <3>3. QED
      BY <3>1, <3>2, Zenon DEF CacheAt
  <2>3. QED
    BY <2>2 DEF CacheInv
<1>9. /\ Len(idequeue) \in Nat /\ Len(idequeue') = Len(idequeue) + 1
      /\ idequeue'[Len(idequeue) + 1] = c /\ \A i \in 1..Len(idequeue) : idequeue'[i] = idequeue[i]
      /\ Head(idequeue') = IF idequeue = << >> THEN c ELSE Head(idequeue)
      /\ idequeue' # << >>
  BY <1>1, <1>2, Enqueue DEF BufInv, BufTypes
<1>10. \A b \in Bufs : InQueue(b)' <=> InQueue(b) \/ b = c
  BY <1>9 DEF InQueue
<1>11. QueueInv'
  <2>1. ASSUME NEW b \in Bufs, InQueue(b)' PROVE (Asking(b) /\ (buf[b].valid => buf[b].dirty))'
    <3>1. CASE b = c
      BY <3>1, <1>2, <1>4, Zenon DEF Asking, c
    <3>2. CASE b # c
      <4>1. InQueue(b)
        BY <2>1, <3>2, <1>10, Zenon
      <4>2. PICK q \in Procs : pc[q] \in {"iowait", "iotest"} /\ cur[q] = b
        BY <4>1, Zenon DEF BufInv, QueueInv, QueueAt, Asking
      <4>3. pc'[q] \in {"iowait", "iotest"} /\ cur'[q] = b
        BY <4>2, <1>1, <1>2, Zenon
      <4>4. Asking(b)' /\ buf'[b] = buf[b]
        BY <4>3, <3>2, <1>2, <1>4, Zenon DEF Asking
      <4>5. buf[b].valid => buf[b].dirty
        BY <4>1, Zenon DEF BufInv, QueueInv, QueueAt
      <4>6. QED
        BY <4>4, <4>5
    <3>3. QED
      BY <3>1, <3>2, Zenon
  <2>2. \A i, j \in 1..Len(idequeue') : idequeue'[i] = idequeue'[j] => i = j
    <3>1. \A i \in 1..Len(idequeue) : idequeue'[i] # c
      BY <1>3, <1>9 DEF InQueue
    <3>2. \A i \in 1..Len(idequeue') : i \in 1..Len(idequeue) \/ i = Len(idequeue) + 1
      BY <1>9
    <3>3. QED
      BY <3>1, <3>2, <1>9, Zenon DEF BufInv, QueueInv
  <2>3. drive' = idestart(buf', Head(idequeue'))
    <3>1. CASE idequeue = << >>
      BY <3>1, <1>2, <1>9, Zenon
    <3>2. CASE idequeue # << >>
      <4>1. Head(idequeue) \in Bufs /\ InQueue(Head(idequeue))
        BY <3>2 DEF BufInv, BufTypes, InQueue
      <4>2. buf'[Head(idequeue)] = buf[Head(idequeue)]
        BY <4>1, <1>2, <1>3, <1>4, Zenon
      <4>3. drive = idestart(buf, Head(idequeue)) /\ drive' = drive /\ Head(idequeue') = Head(idequeue)
        BY <3>2, <1>2, <1>9 DEF BufInv, QueueInv
      <4>4. QED
        BY <4>2, <4>3, Zenon DEF idestart
    <3>3. QED
      BY <3>1, <3>2, Zenon
  <2>4. QED
    BY <2>1, <2>2, <2>3, <1>9, Zenon DEF QueueInv, QueueAt
<1>12. RequestInv'
  <2>1. RequestAt(p)'
    BY <1>1, <1>2, <1>4, <1>10, Zenon DEF RequestAt, c
  <2>2. ASSUME NEW q \in Procs \ {p} PROVE RequestAt(q)'
    <3>1. CASE pc[q] \in {"using", "iowait", "iotest"}
      <4>1. cur[q] \in Bufs \ {c} /\ buf'[cur[q]] = buf[cur[q]]
        BY <3>1, <1>2, <1>3, <1>4, Zenon DEF BufInv, HeldInv, HeldAt, Having, Locking
      <4>2. InQueue(cur[q]) => InQueue(cur[q])'
        BY <4>1, <1>9, <1>2 DEF InQueue
      <4>3. QED
        BY <4>1, <4>2, <1>2, Zenon DEF BufInv, RequestInv, RequestAt
    <3>2. CASE pc[q] \notin {"using", "iowait", "iotest"}
      BY <3>2, <1>2, Zenon DEF BufInv, RequestInv, RequestAt
    <3>3. QED
      BY <3>1, <3>2, Zenon
  <2>3. QED
    BY <2>1, <2>2 DEF RequestInv
<1>13. QED
  BY <1>5, <1>6, <1>7, <1>8, <1>11, <1>12, Zenon DEF BufInv


\* A request is executed: buffer c of the buffers Q has data d and is clean.
Finish(Q, c, d) == buf' = [Q EXCEPT ![c].data = d, ![c].valid = TRUE, ![c].dirty = FALSE]
Finished(Q, c, d) ==
  /\ buf' \in [Bufs -> Buffer] /\ \A b \in Bufs \ {c} : buf'[b] = Q[b]
  /\ buf'[c].valid = TRUE /\ buf'[c].dirty = FALSE /\ buf'[c].data = d
  /\ buf'[c].blockno = Q[c].blockno
  /\ buf'[c].refcnt = Q[c].refcnt /\ buf'[c].pid = Q[c].pid

\* What that leaves as it was.
LEMMA SetDone ==
  ASSUME NEW Q \in [Bufs -> Buffer], NEW c \in Bufs, NEW d \in Vals \cup {NoData},
         Finish(Q, c, d)
  PROVE  Finished(Q, c, d)
<1> DEFINE y == [Q[c] EXCEPT !.data = d, !.valid = TRUE, !.dirty = FALSE]
<1>1. Q[c] \in Buffer
  OBVIOUS
<1>2. /\ y \in Buffer /\ y.dirty = FALSE /\ y.valid = TRUE /\ y.data = d
      /\ y.blockno = Q[c].blockno /\ y.refcnt = Q[c].refcnt /\ y.pid = Q[c].pid
  BY <1>1, Zenon DEF Buffer
<1>3. buf' = [b \in Bufs |-> IF b = c THEN y ELSE Q[b]]
  BY Zenon DEF Finish
<1> HIDE DEF y
<1>4. buf'[c] = y /\ buf' \in [Bufs -> Buffer] /\ \A b \in Bufs \ {c} : buf'[b] = Q[b]
  BY <1>2, <1>3
<1>5. QED
  BY <1>2, <1>4 DEF Finished

\* What both drivers do to buffer c: it is valid and clean, with what is on
\* disk now, and the disk has changed at its block at most.
ServedFor(c) ==
  /\ buf' \in [Bufs -> Buffer] /\ disk' \in [Blocks -> Vals \cup {NoData}]
  /\ \A b \in Bufs \ {c} : buf'[b] = buf[b]
  /\ \A m \in Blocks : m # buf[c].blockno => disk'[m] = disk[m]
  /\ buf'[c].valid = TRUE /\ buf'[c].dirty = FALSE
  /\ buf'[c].data = disk'[buf[c].blockno] /\ buf'[c].blockno = buf[c].blockno
  /\ buf'[c].refcnt = buf[c].refcnt /\ buf'[c].pid = buf[c].pid

\* The cache stays one, since the block is in no other buffer.
LEMMA ServedCache ==
  ASSUME BufInv, NEW c \in Bufs, buf[c].blockno \in Blocks, ServedFor(c), cur' = cur
  PROVE  CacheInv' /\ RefInv'
<1>1. ASSUME NEW b \in Bufs PROVE CacheAt(b)'
  <2>1. CASE b = c
    BY <2>1 DEF BufInv, CacheInv, CacheAt, ServedFor
  <2>2. CASE b # c
    <3>1. buf[b].valid => buf[b].blockno \in Blocks /\ buf[b].blockno # buf[c].blockno
      BY <2>2, CacheAssumption, Zenon DEF BufInv, CacheInv, CacheAt
    <3>2. QED
      BY <2>2, <3>1 DEF BufInv, CacheInv, CacheAt, ServedFor
  <2>3. QED
    BY <2>1, <2>2, Zenon
<1>2. ASSUME NEW b \in Bufs PROVE buf'[b].refcnt = buf[b].refcnt /\ Users(b)' = Users(b)
  BY DEF ServedFor, Users
<1>3. QED
  BY <1>1, <1>2 DEF BufInv, CacheInv, RefInv

\* The disk in memory copies at once.
CopiesFor(p, c, Q) ==
  /\ c \in Bufs /\ pc[p] \in {"bread", "using"} /\ buf[c].pid = p /\ p \notin writing
  /\ buf[c].blockno \in Blocks /\ buf[c].blockno = blockno[p]
  /\ UNCHANGED <<driver, lru, cur, blockno, idequeue, drive, writing>>
  /\ pc' \in [Procs -> Having \cup {"idle", "panic"}] /\ pc'[p] = "using"
  /\ \A q \in Procs \ {p} : pc'[q] = pc[q]
  /\ ~InQueue(c) /\ \A q \in Procs \ {p} : pc[q] \in Locking => cur[q] # c
  /\ disk' = IF Q[c].dirty THEN [disk EXCEPT ![blockno[p]] = Q[c].data] ELSE disk
  /\ ServedFor(c)

\* What its iderw does, from any request.
LEMMA MemServes ==
  ASSUME BufInv, NEW p \in Procs, NEW Q, Request(p, Q), iderw_mem(p, Q)
  PROVE  CopiesFor(p, cur[p], Q)
<1> DEFINE c == cur[p]
<1> DEFINE n == buf[cur[p]].blockno
<1>1. /\ c \in Bufs /\ pc[p] \in {"bread", "using"} /\ buf[c].pid = p /\ p \notin writing
      /\ n \in Blocks /\ n = blockno[p]
  BY Zenon DEF BufInv, BufTypes, HeldInv, HeldAt, RequestInv, RequestAt, Having, Locking, Request
<1>2. /\ UNCHANGED <<driver, lru, cur, blockno, idequeue, drive, writing>>
      /\ pc' \in [Procs -> Having \cup {"idle", "panic"}] /\ pc'[p] = "using"
      /\ \A q \in Procs \ {p} : pc'[q] = pc[q]
  BY <1>1, Zenon DEF BufInv, BufTypes, Request, iderw_mem, Goto, Having
<1>3. ~InQueue(c) /\ \A q \in Procs \ {p} : pc[q] \in Locking => cur[q] # c
  <2>1. ~InQueue(c)
    BY <1>1, NotAsked, Zenon
  <2>2. QED
    BY <1>1, <2>1, Zenon DEF BufInv, HeldInv, HeldAt
<1>4. /\ Q \in [Bufs -> Buffer] /\ \A b \in Bufs \ {c} : Q[b] = buf[b]
      /\ Q[c].blockno = n /\ Q[c].refcnt = buf[c].refcnt
      /\ Q[c].pid = buf[c].pid
  BY Zenon DEF Request
<1>5. /\ disk' = IF Q[c].dirty THEN [disk EXCEPT ![n] = Q[c].data] ELSE disk
      /\ Finish(Q, c, disk'[n])
  BY Zenon DEF iderw_mem, Request, Finish
<1> HIDE DEF c, n
<1>6. /\ disk' \in [Blocks -> Vals \cup {NoData}] /\ disk'[n] \in Vals \cup {NoData}
      /\ \A m \in Blocks : m # n => disk'[m] = disk[m]
  <2>1. Q[c].data \in Vals \cup {NoData}
    BY <1>1, <1>4, Zenon DEF Buffer
  <2>2. QED
    BY <2>1, <1>1, <1>5, Zenon DEF BufInv, BufTypes
<1>7. ServedFor(c)
  <2> DEFINE d == disk'[n]
  <2>1. /\ Q \in [Bufs -> Buffer] /\ c \in Bufs /\ d \in Vals \cup {NoData}
        /\ Finish(Q, c, d)
    BY <1>1, <1>4, <1>5, <1>6, Zenon
  <2> HIDE DEF d
  <2>2. Finished(Q, c, d)
    BY <2>1, SetDone, Zenon
  <2>3. buf[c].blockno = n
    BY Zenon DEF c, n
  <2>4. QED
    BY <2>2, <2>3, <1>4, <1>6, Zenon DEF ServedFor, Finished, d
<1>8. n = buf[c].blockno
  BY DEF c, n
<1>9. CopiesFor(p, c, Q)
  BY <1>1, <1>2, <1>3, <1>5, <1>7, <1>8, Zenon DEF CopiesFor
<1>10. QED
  BY <1>9, Zenon DEF c

\* A copy keeps the invariant.
LEMMA MemInd ==
  ASSUME BufInv, NEW p \in Procs, NEW Q, Request(p, Q), iderw_mem(p, Q) PROVE BufInv'
<1> DEFINE c == cur[p]
<1> DEFINE n == buf[cur[p]].blockno
<1>1. CopiesFor(p, c, Q)
  BY MemServes, Zenon
<1>2. /\ c \in Bufs /\ pc[p] \in {"bread", "using"} /\ buf[c].pid = p /\ p \notin writing
      /\ n \in Blocks /\ n = blockno[p]
  BY <1>1, Zenon DEF CopiesFor
<1>3. /\ UNCHANGED <<driver, lru, cur, blockno, idequeue, drive, writing>>
      /\ pc' \in [Procs -> Having \cup {"idle", "panic"}] /\ pc'[p] = "using"
      /\ \A q \in Procs \ {p} : pc'[q] = pc[q]
  BY <1>1, Zenon DEF CopiesFor
<1>4. ~InQueue(c) /\ \A q \in Procs \ {p} : pc[q] \in Locking => cur[q] # c
  BY <1>1, Zenon DEF CopiesFor
<1>5. ServedFor(c)
  BY <1>1, Zenon DEF CopiesFor
<1> HIDE DEF c, n
<1>6. BufTypes'
  BY <1>3, <1>5 DEF BufInv, BufTypes, ServedFor
<1>7. CacheInv' /\ RefInv'
  BY <1>2, <1>3, <1>5, ServedCache, Zenon DEF c, n
<1>8. HeldInv'
  <2>1. HeldAt(p)'
    BY <1>2, <1>3, <1>5 DEF HeldAt, Having, Locking, ServedFor, c, n
  <2>2. ASSUME NEW q \in Procs \ {p} PROVE HeldAt(q)'
    BY <1>2, <1>3, <1>5 DEF BufInv, HeldInv, HeldAt, Having, Locking, ServedFor
  <2>3. QED
    BY <2>1, <2>2 DEF HeldInv
<1>9. QueueInv'
  BY <1>2, <1>3, <1>4, <1>5, QueueStays, Zenon DEF SameIO, ServedFor
<1>10. RequestInv'
  <2>1. RequestAt(p)'
    BY <1>2, <1>3, <1>5, Zenon DEF RequestAt, ServedFor, c
  <2>2. ASSUME NEW q \in Procs \ {p} PROVE RequestAt(q)'
    <3>1. CASE pc[q] \in {"using", "iowait", "iotest"}
      <4>1. cur[q] \in Bufs \ {c} /\ buf'[cur[q]] = buf[cur[q]]
        BY <3>1, <1>3, <1>4, <1>5 DEF BufInv, HeldInv, HeldAt, Having, Locking, ServedFor
      <4>2. QED
        BY <4>1, <1>3, Zenon DEF BufInv, RequestInv, RequestAt, InQueue
    <3>2. CASE pc[q] \notin {"using", "iowait", "iotest"}
      BY <3>2, <1>3 DEF BufInv, RequestInv, RequestAt
    <3>3. QED
      BY <3>1, <3>2
  <2>3. QED
    BY <2>1, <2>2 DEF RequestInv
<1>11. QED
  BY <1>6, <1>7, <1>8, <1>9, <1>10, Zenon DEF BufInv


\* The first request leaves the queue.
LEMMA Dequeue ==
  ASSUME NEW s \in Seq(Bufs), s # << >>
  PROVE  /\ Head(s) \in Bufs /\ Head(s) = s[1] /\ 1 \in 1..Len(s) /\ Len(s) \in Nat
         /\ Tail(s) \in Seq(Bufs) /\ Len(Tail(s)) = Len(s) - 1
         /\ \A i \in 1..(Len(s) - 1) : Tail(s)[i] = s[i + 1]
         /\ Tail(s) # << >> => Head(Tail(s)) = s[2] /\ 2 \in 1..Len(s)
<1>1. Len(s) >= 1
  OBVIOUS
<1>2. QED
  BY <1>1

\* The drive has executed its command: the first of the queue is served, the
\* next one is started, and its process is woken.
InterruptFor(p, c) ==
  /\ c \in Bufs /\ InQueue(c) /\ c = idequeue[1] /\ idequeue # << >> /\ idequeue \in Seq(Bufs)
  /\ pc[p] \in {"iowait", "iotest"} /\ cur[p] = c
  /\ buf[c].blockno \in Blocks /\ blockno[p] = buf[c].blockno /\ buf[c].pid = p
  /\ UNCHANGED <<driver, lru, cur, blockno, writing>>
  /\ idequeue' = Tail(idequeue)
  /\ disk' = IF buf[c].dirty THEN [disk EXCEPT ![blockno[p]] = buf[c].data] ELSE disk
  /\ drive' = IF idequeue' = << >> THEN NoCommand ELSE idestart(buf, Head(idequeue'))
  /\ pc' \in [Procs -> Having \cup {"idle", "panic"}]
  /\ \A q \in Procs : IF pc[q] = "iowait" /\ cur[q] = c THEN pc'[q] = "iotest" ELSE pc'[q] = pc[q]
  /\ ServedFor(c)

\* What the interrupt does, from the invariant.
LEMMA IntrServes ==
  ASSUME BufInv, ideintr PROVE \E p \in Procs : InterruptFor(p, Head(idequeue))
<1> DEFINE c == Head(idequeue)
<1> DEFINE n == buf[Head(idequeue)].blockno
<1>1. idequeue # << >> /\ idequeue \in Seq(Bufs) /\ drive = idestart(buf, c)
  BY Zenon DEF BufInv, BufTypes, QueueInv, ideintr
<1>2. c \in Bufs /\ InQueue(c) /\ c = idequeue[1]
  BY <1>1, Dequeue, Zenon DEF InQueue
<1>3. PICK p \in Procs : pc[p] \in {"iowait", "iotest"} /\ cur[p] = c
  BY <1>2, Zenon DEF BufInv, QueueInv, QueueAt, Asking
<1>4. /\ n \in Blocks /\ blockno[p] = n /\ buf[c].pid = p
      /\ \A q \in Procs \ {p} : pc[q] \in Locking => cur[q] # c
  BY <1>2, <1>3 DEF BufInv, HeldInv, HeldAt, Having, Locking
<1>5. /\ UNCHANGED <<driver, lru, cur, blockno, writing>>
      /\ idequeue' = Tail(idequeue)
      /\ disk' = IF buf[c].dirty THEN [disk EXCEPT ![n] = buf[c].data] ELSE disk
      /\ Finish(buf, c, IF buf[c].dirty THEN buf[c].data ELSE disk[n])
      /\ drive' = IF idequeue' = << >> THEN NoCommand ELSE idestart(buf, Head(idequeue'))
      /\ pc' = Wakeup(pc, "iowait", c, "iotest")
  <2>1. /\ drive.cmd = (IF buf[c].dirty THEN "write" ELSE "read")
        /\ drive.blockno = n /\ drive.data = buf[c].data
    BY <1>1, Zenon DEF idestart
  <2>2. buf' = [buf EXCEPT ![c].valid = TRUE, ![c].dirty = FALSE,
                           ![c].data = IF buf[c].dirty THEN @ ELSE disk[drive.blockno]]
    BY Zenon DEF ideintr
  <2>3. Finish(buf, c, IF buf[c].dirty THEN buf[c].data ELSE disk[n])
    BY <1>2, <2>1, <2>2, Zenon DEF Finish, BufInv, BufTypes, Buffer
  <2>4. QED
    BY <2>1, <2>3, Zenon DEF ideintr
<1>6. /\ pc' \in [Procs -> Having \cup {"idle", "panic"}]
      /\ \A q \in Procs : IF pc[q] = "iowait" /\ cur[q] = c THEN pc'[q] = "iotest" ELSE pc'[q] = pc[q]
  BY <1>5, Zenon DEF BufInv, BufTypes, Wakeup, Having
<1> HIDE DEF c, n
<1>7. /\ disk' \in [Blocks -> Vals \cup {NoData}]
      /\ \A m \in Blocks : m # n => disk'[m] = disk[m]
      /\ disk'[n] = IF buf[c].dirty THEN buf[c].data ELSE disk[n]
  <2>1. buf[c].data \in Vals \cup {NoData}
    BY <1>2 DEF BufInv, BufTypes, Buffer
  <2>2. QED
    BY <2>1, <1>4, <1>5, Zenon DEF BufInv, BufTypes
<1>8. ServedFor(c)
  <2> DEFINE d == disk'[n]
  <2>1. /\ buf \in [Bufs -> Buffer] /\ c \in Bufs /\ d \in Vals \cup {NoData}
        /\ Finish(buf, c, d)
    BY <1>2, <1>4, <1>5, <1>7, Zenon DEF BufInv, BufTypes
  <2> HIDE DEF d
  <2>2. Finished(buf, c, d)
    BY <2>1, SetDone
  <2>3. buf[c].blockno = n
    BY DEF c, n
  <2>4. QED
    BY <2>2, <2>3, <1>7, Zenon DEF ServedFor, Finished, d
<1>9. n = buf[c].blockno
  BY Zenon DEF c, n
<1>10. InterruptFor(p, c)
  BY <1>1, <1>2, <1>3, <1>4, <1>5, <1>6, <1>8, <1>9, Zenon DEF InterruptFor
<1>11. QED
  BY <1>10, Zenon DEF c

\* The interrupt keeps the invariant.
LEMMA IntrInd ==
  ASSUME BufInv, ideintr PROVE BufInv'
<1> DEFINE c == Head(idequeue)
<1> DEFINE n == buf[Head(idequeue)].blockno
<1>1. PICK p \in Procs : InterruptFor(p, c)
  BY IntrServes
<1>2. idequeue # << >> /\ idequeue \in Seq(Bufs)
  BY <1>1, Zenon DEF InterruptFor
<1>3. c \in Bufs /\ InQueue(c) /\ c = idequeue[1]
  BY <1>1, Zenon DEF InterruptFor
<1>4. n \in Blocks
  BY <1>1, Zenon DEF InterruptFor
<1>5. /\ UNCHANGED <<driver, lru, cur, blockno, writing>>
      /\ idequeue' = Tail(idequeue)
      /\ drive' = IF idequeue' = << >> THEN NoCommand ELSE idestart(buf, Head(idequeue'))
  BY <1>1, Zenon DEF InterruptFor
<1>6. /\ pc' \in [Procs -> Having \cup {"idle", "panic"}]
      /\ \A q \in Procs : IF pc[q] = "iowait" /\ cur[q] = c THEN pc'[q] = "iotest" ELSE pc'[q] = pc[q]
  BY <1>1, Zenon DEF InterruptFor
<1>7. ServedFor(c)
  BY <1>1, Zenon DEF InterruptFor
<1> HIDE DEF c, n
<1>8. BufTypes'
  BY <1>2, <1>5, <1>6, <1>7, Dequeue, Zenon DEF BufInv, BufTypes, ServedFor
<1>9. CacheInv' /\ RefInv'
  BY <1>3, <1>4, <1>5, <1>7, ServedCache, Zenon DEF c, n
<1>10. HeldInv'
  BY <1>3, <1>5, <1>6, <1>7 DEF BufInv, HeldInv, HeldAt, Having, Locking, ServedFor
<1>11. /\ Len(idequeue) \in Nat /\ Len(idequeue') = Len(idequeue) - 1 /\ 1 \in 1..Len(idequeue)
       /\ \A i \in 1..(Len(idequeue) - 1) : idequeue'[i] = idequeue[i + 1]
       /\ idequeue' # << >> => Head(idequeue') = idequeue[2] /\ 2 \in 1..Len(idequeue)
  BY <1>2, <1>5, Dequeue, Zenon
<1>12. \A b \in Bufs : InQueue(b)' <=> InQueue(b) /\ b # c
  <2> SUFFICES ASSUME NEW b \in Bufs PROVE InQueue(b)' <=> InQueue(b) /\ b # c
    BY Zenon
  <2>1. ASSUME InQueue(b)' PROVE InQueue(b) /\ b # c
    <3>1. PICK i \in 1..Len(idequeue') : idequeue'[i] = b
      BY <2>1, Zenon DEF InQueue
    <3>2. i + 1 \in 1..Len(idequeue) /\ idequeue[i + 1] = b /\ i + 1 # 1
      BY <3>1, <1>11
    <3>3. QED
      BY <3>2, <1>3, <1>11, Zenon DEF InQueue, BufInv, QueueInv
  <2>2. ASSUME InQueue(b), b # c PROVE InQueue(b)'
    <3>1. PICK i \in 1..Len(idequeue) : idequeue[i] = b
      BY <2>2, Zenon DEF InQueue
    <3>2. i # 1
      BY <3>1, <2>2, <1>3, Zenon
    <3>3. i - 1 \in 1..Len(idequeue') /\ idequeue'[i - 1] = b
      BY <3>1, <3>2, <1>11
    <3>4. QED
      BY <3>3, Zenon DEF InQueue
  <2>3. QED
    BY <2>1, <2>2, Zenon
<1>13. QueueInv'
  <2>1. ASSUME NEW b \in Bufs, InQueue(b)' PROVE (Asking(b) /\ (buf[b].valid => buf[b].dirty))'
    <3>1. InQueue(b) /\ b # c
      BY <2>1, <1>12, Zenon
    <3>2. PICK q \in Procs : pc[q] \in {"iowait", "iotest"} /\ cur[q] = b
      BY <3>1, Zenon DEF BufInv, QueueInv, QueueAt, Asking
    <3>3. pc'[q] \in {"iowait", "iotest"} /\ cur'[q] = b
      BY <3>2, <1>5, <1>6, Zenon
    <3>4. QED
      BY <3>1, <3>3, <1>7 DEF BufInv, QueueInv, QueueAt, Asking, ServedFor
  <2>2. \A i, j \in 1..Len(idequeue') : idequeue'[i] = idequeue'[j] => i = j
    <3> SUFFICES ASSUME NEW i \in 1..Len(idequeue'), NEW j \in 1..Len(idequeue'),
                        idequeue'[i] = idequeue'[j]
                 PROVE  i = j
      BY Zenon
    <3>1. i + 1 \in 1..Len(idequeue) /\ j + 1 \in 1..Len(idequeue) /\ idequeue[i + 1] = idequeue[j + 1]
      BY <1>11
    <3>2. i + 1 = j + 1
      BY <3>1, Zenon DEF BufInv, QueueInv
    <3>3. QED
      BY <3>2, <1>11
  <2>3. idequeue' # << >> => drive' = idestart(buf', Head(idequeue'))
    <3> SUFFICES ASSUME idequeue' # << >> PROVE drive' = idestart(buf', Head(idequeue'))
      BY Zenon
    <3>1. Head(idequeue') \in Bufs \ {c}
      BY <1>2, <1>3, <1>11 DEF BufInv, QueueInv
    <3>2. buf'[Head(idequeue')] = buf[Head(idequeue')]
      BY <3>1, <1>7, Zenon DEF ServedFor
    <3>3. QED
      BY <3>2, <1>5, Zenon DEF idestart
  <2>4. QED
    BY <2>1, <2>2, <2>3, <1>5, Zenon DEF QueueInv, QueueAt, NoCommand
<1>14. RequestInv'
  <2> SUFFICES ASSUME NEW q \in Procs PROVE RequestAt(q)'
    BY DEF RequestInv
  <2>1. CASE cur[q] = c
    <3>1. /\ cur'[q] = c /\ buf'[c].valid /\ ~buf'[c].dirty /\ pc'[q] # "iowait"
          /\ pc'[q] = "using" => pc[q] = "using"
          /\ pc[q] \in {"iowait", "iotest"} => pc'[q] = "iotest"
          /\ q \in writing' <=> q \in writing
      BY <2>1, <1>3, <1>5, <1>6, <1>7, Zenon DEF ServedFor
    <3>2. q \in writing => pc[q] \in {"iowait", "iotest"}
      BY Zenon DEF BufInv, RequestInv, RequestAt
    <3>3. QED
      BY <3>1, <3>2, Zenon DEF RequestAt
  <2>2. CASE cur[q] # c /\ pc[q] \in {"using", "iowait", "iotest"}
    <3>1. cur[q] \in Bufs /\ buf'[cur[q]] = buf[cur[q]] /\ pc'[q] = pc[q]
      BY <2>2, <1>6, <1>7, Zenon DEF BufInv, HeldInv, HeldAt, Having, ServedFor
    <3>2. InQueue(cur[q]) => InQueue(cur[q])'
      <4>1. cur'[q] = cur[q]
        BY <1>5, Zenon
      <4>2. QED
        BY <2>2, <3>1, <4>1, <1>12, Zenon DEF InQueue
    <3>3. QED
      BY <3>1, <3>2, <1>5, Zenon DEF BufInv, RequestInv, RequestAt
  <2>3. CASE pc[q] \notin {"using", "iowait", "iotest"}
    BY <2>3, <1>5, <1>6, Zenon DEF BufInv, RequestInv, RequestAt
  <2>4. QED
    BY <2>1, <2>2, <2>3
<1>15. QED
  BY <1>8, <1>9, <1>10, <1>13, <1>14 DEF BufInv


\* bread of a buffer that is not valid asks for a read.
LEMMA BreadInd ==
  ASSUME BufInv, NEW p \in Procs, bread(p), ~buf[cur[p]].valid
  PROVE  Request(p, buf) /\ iderw(p, buf) /\ BufInv'
<1>1. Request(p, buf) /\ iderw(p, buf)
  <2>1. cur[p] \in Bufs
    BY Zenon DEF BufInv, HeldInv, HeldAt, Having, bread
  <2>2. buf[cur[p]].dirty = FALSE /\ buf[cur[p]].valid = FALSE
    BY <2>1 DEF BufInv, BufTypes, Buffer, CacheInv, CacheAt
  <2>3. QED
    BY <2>2, Zenon DEF BufInv, BufTypes, Request, bread, My
<1>2. QED
  BY <1>1, AskInd, MemInd DEF iderw

\* bwrite asks for a write.
LEMMA BwriteInd ==
  ASSUME BufInv, NEW p \in Procs, NEW v \in Vals, bwrite(p, v)
  PROVE  Request(p, Put(cur[p], v)) /\ iderw(p, Put(cur[p], v)) /\ BufInv'
<1>1. iderw(p, Put(cur[p], v)) /\ UNCHANGED <<driver, lru, cur, blockno>>
  BY Zenon DEF bwrite, Put
<1>2. Request(p, Put(cur[p], v))
  <2> DEFINE c == cur[p]
  <2>1. c \in Bufs /\ pc[p] = "using" /\ buf[c].valid = TRUE /\ buf \in [Bufs -> Buffer]
    BY Zenon DEF BufInv, BufTypes, Buffer, HeldInv, HeldAt, RequestInv, RequestAt, Having, bwrite
  <2> HIDE DEF c
  <2>2. /\ Put(c, v) \in [Bufs -> Buffer]
        /\ \A b \in Bufs \ {c} : Put(c, v)[b] = buf[b]
        /\ Put(c, v)[c].dirty = TRUE /\ Put(c, v)[c].valid = buf[c].valid
        /\ Put(c, v)[c].blockno = buf[c].blockno
        /\ Put(c, v)[c].refcnt = buf[c].refcnt /\ Put(c, v)[c].pid = buf[c].pid
    BY <2>1, SetDirty, Zenon
  <2>3. QED
    BY <1>1, <2>1, <2>2, Zenon DEF Request, c
<1>3. QED
  BY <1>1, <1>2, AskInd, MemInd DEF iderw

\* Every step of the cache and its driver keeps the invariant.
LEMMA BufNext ==
  BufInv /\ Next => BufInv'
<1> SUFFICES ASSUME BufInv PROVE Next => BufInv'
  OBVIOUS
<1>1. ASSUME ideintr PROVE BufInv'
  BY <1>1, IntrInd
<1>2. ASSUME NEW p \in Procs, Step(p) PROVE BufInv'
  <2>1. ASSUME acquiresleep(p) PROVE BufInv'
    BY <2>1, AcquireInd, Zenon
  <2>2. ASSUME iderw_test(p) PROVE BufInv'
    BY <2>2, QuietInd, Zenon
  <2>3. ASSUME bread(p) PROVE BufInv'
    BY <2>3, BreadValidInd, BreadInd, Zenon
  <2>4. ASSUME brelse_unlock(p) PROVE BufInv'
    BY <2>4, UnlockInd
  <2>5. ASSUME brelse_drop(p) PROVE BufInv'
    BY <2>5, DropInd
  <2>6. ASSUME NEW n \in Blocks, bget_hit(p, n) \/ bget_miss(p, n) \/ bget_panic(p, n)
        PROVE  BufInv'
    BY <2>6, HitInd, MissInd, QuietInd, Zenon
  <2>7. ASSUME NEW v \in Vals, bwrite(p, v) \/ log_write(p, v) PROVE BufInv'
    BY <2>7, BwriteInd, LogWriteInd, Zenon
  <2>8. QED
    BY <1>2, <2>1, <2>2, <2>3, <2>4, <2>5, <2>6, <2>7 DEF Step
<1>3. ASSUME NEW p \in Procs, kill(p) PROVE BufInv'
  BY <1>3, QuietInd
<1>4. QED
  BY <1>1, <1>2, <1>3, Zenon DEF Next

-----------------------------------------------------------------------------
(* The cache implements the store: what the store's variables stand for.   *)

ValidFor(n) == {b \in Bufs : buf[b].blockno = n /\ buf[b].valid}
StoreAt(n) == IF ValidFor(n) = {} THEN disk[n] ELSE buf[CHOOSE b \in ValidFor(n) : TRUE].data
Store == [n \in Blocks |-> StoreAt(n)]
UsesAt(p) ==
  IF pc[p] \in {"using", "iowait", "iotest"} /\ ~Reading(p) THEN blockno[p] ELSE NoBlock
Uses == [p \in Procs |-> UsesAt(p)]
StoreSteps == BS!Next \/ UNCHANGED BS!vars

\* A step that changes none of them is no step of the store.
LEMMA StoreStutters ==
  ASSUME UNCHANGED <<Store, disk, Uses, writing>> PROVE StoreSteps
BY Zenon DEF StoreSteps, BS!vars, Store, StoreAt, ValidFor, Uses, UsesAt

\* The steps of the store, on what its variables stand for.
LEMMA StoreOpens ==
  ASSUME NEW p \in Procs, NEW n \in Blocks, Uses[p] = NoBlock, \A q \in Procs : Uses[q] # n,
         Uses' = [Uses EXCEPT ![p] = n], UNCHANGED <<Store, disk, writing>>
  PROVE  StoreSteps
<1>1. BS!Open(p, n)
  BY Zenon DEF BS!Open, Store, StoreAt, ValidFor, Uses, UsesAt
<1>2. QED
  BY <1>1, Zenon DEF StoreSteps, BS!Next

\* A user changes its block.
LEMMA StoreModifies ==
  ASSUME NEW p \in Procs, NEW v \in Vals, Uses[p] # NoBlock, p \notin writing,
         Store' = [Store EXCEPT ![Uses[p]] = v], UNCHANGED <<disk, Uses, writing>>
  PROVE  StoreSteps
<1>1. BS!Modify(p, v)
  BY Zenon DEF BS!Modify, Store, StoreAt, ValidFor, Uses, UsesAt
<1>2. QED
  BY <1>1, Zenon DEF StoreSteps, BS!Next

\* bwrite begins.
LEMMA StoreSyncs ==
  ASSUME NEW p \in Procs, NEW v \in Vals, Uses[p] # NoBlock, p \notin writing,
         Store' = [Store EXCEPT ![Uses[p]] = v], writing' = writing \cup {p},
         UNCHANGED <<disk, Uses>>
  PROVE  StoreSteps
<1>1. BS!Sync(p, v)
  BY Zenon DEF BS!Sync, Store, StoreAt, ValidFor, Uses, UsesAt
<1>2. QED
  BY <1>1, Zenon DEF StoreSteps, BS!Next

\* The block of a bwrite reaches the disk.
LEMMA StoreFlushes ==
  ASSUME NEW p \in Procs, p \in writing, disk' = [disk EXCEPT ![Uses[p]] = Store[Uses[p]]],
         UNCHANGED <<Store, Uses, writing>>
  PROVE  StoreSteps
<1>1. BS!Flush(p)
  BY Zenon DEF BS!Flush, Store, StoreAt, ValidFor, Uses, UsesAt
<1>2. QED
  BY <1>1, Zenon DEF StoreSteps, BS!Next

\* bwrite returns.
LEMMA StoreEndsSync ==
  ASSUME NEW p \in Procs, p \in writing, disk[Uses[p]] = Store[Uses[p]],
         writing' = writing \ {p}, UNCHANGED <<Store, disk, Uses>>
  PROVE  StoreSteps
<1>1. BS!EndSync(p)
  BY Zenon DEF BS!EndSync, Store, StoreAt, ValidFor, Uses, UsesAt
<1>2. QED
  BY <1>1, Zenon DEF StoreSteps, BS!Next

\* bwrite on the disk in memory.
LEMMA StoreSyncsNow ==
  ASSUME NEW p \in Procs, NEW v \in Vals, Uses[p] # NoBlock, p \notin writing,
         Store' = [Store EXCEPT ![Uses[p]] = v], disk' = [disk EXCEPT ![Uses[p]] = v],
         UNCHANGED <<Uses, writing>>
  PROVE  StoreSteps
<1>1. BS!SyncNow(p, v)
  BY Zenon DEF BS!SyncNow, Store, StoreAt, ValidFor, Uses, UsesAt
<1>2. QED
  BY <1>1, Zenon DEF StoreSteps, BS!Next

\* A user releases its block.
LEMMA StoreCloses ==
  ASSUME NEW p \in Procs, Uses[p] # NoBlock, p \notin writing,
         Uses' = [Uses EXCEPT ![p] = NoBlock], UNCHANGED <<Store, disk, writing>>
  PROVE  StoreSteps
<1>1. BS!Close(p)
  BY Zenon DEF BS!Close, Store, StoreAt, ValidFor, Uses, UsesAt
<1>2. QED
  BY <1>1, Zenon DEF StoreSteps, BS!Next


\* A valid buffer has what the store has for its block, and so has the disk
\* for a block that no valid buffer has: a block is in one buffer at most.
StoreReads ==
  \A n \in Blocks :
    /\ \A b \in Bufs : buf[b].valid /\ buf[b].blockno = n => Store[n] = buf[b].data
    /\ (\A b \in Bufs : ~(buf[b].valid /\ buf[b].blockno = n)) => Store[n] = disk[n]

\* It follows from the invariant.
LEMMA StoreValue == BufInv => StoreReads
<1> SUFFICES ASSUME BufInv, NEW n \in Blocks
             PROVE  /\ \A b \in Bufs : buf[b].valid /\ buf[b].blockno = n => Store[n] = buf[b].data
                    /\ (\A b \in Bufs : ~(buf[b].valid /\ buf[b].blockno = n)) =>
                         Store[n] = disk[n]
  BY Zenon DEF StoreReads
<1>1. Store[n] = StoreAt(n)
  BY Zenon DEF Store
<1>2. ASSUME NEW b \in Bufs, buf[b].valid, buf[b].blockno = n PROVE StoreAt(n) = buf[b].data
  <2>1. \A a \in ValidFor(n) : a = b
    BY <1>2, CacheAssumption, Zenon DEF ValidFor, BufInv, CacheInv, CacheAt
  <2>2. b \in ValidFor(n)
    BY <1>2, Zenon DEF ValidFor
  <2>3. (CHOOSE a \in ValidFor(n) : TRUE) \in ValidFor(n)
    BY <2>2, Zenon
  <2>4. (CHOOSE a \in ValidFor(n) : TRUE) = b
    BY <2>1, <2>3, Zenon
  <2>5. ValidFor(n) # {}
    BY <2>2, Zenon
  <2>6. QED
    BY <2>4, <2>5, Zenon DEF StoreAt
<1>3. ASSUME \A b \in Bufs : ~(buf[b].valid /\ buf[b].blockno = n) PROVE StoreAt(n) = disk[n]
  <2>1. ValidFor(n) = {}
    BY <1>3, Zenon DEF ValidFor
  <2>2. QED
    BY <2>1, Zenon DEF StoreAt
<1>4. QED
  BY <1>1, <1>2, <1>3, Zenon

\* Locks and lists are not part of the store.
LEMMA StoreStays ==
  ASSUME SameContents PROVE Store' = Store
<1> SUFFICES ASSUME NEW n \in Blocks PROVE StoreAt(n)' = StoreAt(n)
  BY Zenon DEF Store
<1>1. ValidFor(n)' = ValidFor(n)
  BY Zenon DEF ValidFor, SameContents
<1>2. CASE ValidFor(n) = {}
  BY <1>1, <1>2, Zenon DEF StoreAt, SameContents
<1>3. CASE ValidFor(n) # {}
  <2> DEFINE b == CHOOSE b \in ValidFor(n) : TRUE
  <2>1. b \in Bufs
    BY <1>3, Zenon DEF ValidFor
  <2> HIDE DEF b
  <2>2. buf'[b].data = buf[b].data
    BY <2>1, Zenon DEF SameContents
  <2>3. StoreAt(n) = buf[b].data
    BY <1>3, Zenon DEF StoreAt, b
  <2>4. StoreAt(n)' = buf'[b].data
    BY <1>1, <1>3, Zenon DEF StoreAt, b
  <2>5. QED
    BY <2>2, <2>3, <2>4, Zenon
<1>4. QED
  BY <1>2, <1>3, Zenon

\* A step that changes buffer c leaves the other blocks alone.
LEMMA StoreElsewhere ==
  ASSUME BufInv, BufInv', NEW c \in Bufs, \A b \in Bufs \ {c} : buf'[b] = buf[b],
         NEW n \in Blocks, disk'[n] = disk[n],
         buf[c].valid => buf[c].blockno # n, buf'[c].valid => buf'[c].blockno # n
  PROVE  Store'[n] = Store[n]
<1>1. StoreReads'
  BY StoreValue, PTL
<1>2. StoreReads
  BY StoreValue, Zenon
<1>3. CASE \E b \in Bufs : buf[b].valid /\ buf[b].blockno = n
  <2>1. PICK b \in Bufs : buf[b].valid /\ buf[b].blockno = n
    BY <1>3, Zenon
  <2>2. b # c /\ buf'[b] = buf[b]
    BY <2>1, Zenon
  <2>3. Store[n] = buf[b].data
    BY <1>2, <2>1, Zenon DEF StoreReads
  <2>4. Store'[n] = buf'[b].data
    BY <1>1, <2>1, <2>2, Zenon DEF StoreReads
  <2>5. QED
    BY <2>2, <2>3, <2>4, Zenon
<1>4. CASE \A b \in Bufs : ~(buf[b].valid /\ buf[b].blockno = n)
  <2>1. \A b \in Bufs : ~(buf'[b].valid /\ buf'[b].blockno = n)
    BY <1>4, Zenon
  <2>2. Store[n] = disk[n]
    BY <1>2, <1>4, Zenon DEF StoreReads
  <2>3. Store'[n] = disk'[n]
    BY <1>1, <2>1, Zenon DEF StoreReads
  <2>4. QED
    BY <2>2, <2>3, Zenon
<1>5. QED
  BY <1>3, <1>4, Zenon


\* A process that changes its own state alone changes its own use alone.
LEMMA UsesOne ==
  ASSUME NEW p \in Procs, NEW n, UsesAt(p)' = n,
         \A q \in Procs \ {p} : UsesAt(q)' = UsesAt(q)
  PROVE  Uses' = [Uses EXCEPT ![p] = n]
BY Zenon DEF Uses

\* Whoever has the lock of a block and does not use it yet is alone with it.
LEMMA OnlyUser ==
  ASSUME BufInv, NEW p \in Procs, pc[p] \in Locking, UsesAt(p) = NoBlock
  PROVE  Uses[p] = NoBlock /\ blockno[p] \in Blocks /\ \A q \in Procs : Uses[q] # blockno[p]
<1>1. blockno[p] \in Blocks /\ cur[p] \in Bufs /\ buf[cur[p]].blockno = blockno[p] /\ buf[cur[p]].pid = p
  BY Zenon DEF BufInv, HeldInv, HeldAt, Having, Locking
<1>2. ASSUME NEW q \in Procs, UsesAt(q) = blockno[p] PROVE FALSE
  <2>1. pc[q] \in Locking /\ blockno[q] = blockno[p]
    BY <1>1, <1>2, CacheAssumption, Zenon DEF UsesAt, Locking
  <2>2. cur[q] \in Bufs /\ buf[cur[q]].blockno = blockno[p] /\ buf[cur[q]].pid = q
    BY <2>1, Zenon DEF BufInv, HeldInv, HeldAt, Having, Locking
  <2>3. cur[q] = cur[p]
    BY <1>1, <2>2, CacheAssumption DEF BufInv, CacheInv, CacheAt
  <2>4. QED
    BY <1>1, <1>2, <2>2, <2>3, CacheAssumption, Zenon
<1>3. QED
  BY <1>1, <1>2, Zenon DEF Uses

\* A step of p on locks, references and the list.
LockStep(p) ==
  /\ SameContents /\ UNCHANGED writing
  /\ \A q \in Procs \ {p} : pc'[q] = pc[q] /\ blockno'[q] = blockno[q]
  /\ \/ pc[p] \notin {"using", "iowait", "iotest"} /\ pc'[p] \notin {"using", "iowait", "iotest"}
     \/ pc[p] = "iowait" /\ pc'[p] = "iotest" /\ blockno' = blockno

\* Nothing happens to the store in one.
LEMMA LockSteps ==
  ASSUME BufInv, NEW p \in Procs,
         \/ acquiresleep(p) \/ brelse_drop(p) \/ kill(p)
         \/ \E n \in Blocks : bget_hit(p, n) \/ bget_panic(p, n)
  PROVE  StoreSteps
<1>1. LockStep(p)
  <2>1. CASE acquiresleep(p)
    <3>1. cur[p] \in Bufs
      BY <2>1, Zenon DEF BufInv, HeldInv, HeldAt, Having, acquiresleep
    <3>2. SameContents
      <4>1. UNCHANGED <<disk, idequeue, drive>> /\ (buf' = buf \/ buf' = [buf EXCEPT ![cur[p]].pid = p])
        BY <2>1, Zenon DEF acquiresleep
      <4>2. QED
        BY <3>1, <4>1, SetPid, Zenon DEF SameContents, BufInv, BufTypes
    <3>3. QED
      BY <2>1, <3>2, Zenon DEF LockStep, BufInv, BufTypes, acquiresleep, Goto
  <2>2. CASE brelse_drop(p)
    <3> DEFINE c == cur[p]
    <3> DEFINE x == buf[c].refcnt - 1
    <3>1. c \in Bufs /\ x \in Int /\ buf' = [buf EXCEPT ![c].refcnt = x]
      BY <2>2 DEF BufInv, BufTypes, Buffer, HeldInv, HeldAt, Having, brelse_drop
    <3> HIDE DEF c, x
    <3>2. SameContents
      BY <2>2, <3>1, SetRefcnt, Zenon DEF SameContents, BufInv, BufTypes, brelse_drop
    <3>3. QED
      BY <2>2, <3>2, Zenon DEF LockStep, BufInv, BufTypes, brelse_drop, Goto
  <2>3. CASE kill(p)
    BY <2>3, Zenon DEF LockStep, BufInv, BufTypes, SameContents, kill, Goto
  <2>4. ASSUME NEW n \in Blocks, bget_hit(p, n) PROVE LockStep(p)
    <3>1. PICK i \in DOMAIN lru : buf' = [buf EXCEPT ![lru[i]].refcnt = @ + 1]
      BY <2>4, Zenon DEF bget_hit
    <3> DEFINE c == lru[i]
    <3> DEFINE x == buf[c].refcnt + 1
    <3>2. c \in Bufs /\ x \in Int /\ buf' = [buf EXCEPT ![c].refcnt = x]
      BY <3>1 DEF BufInv, BufTypes, Buffer
    <3> HIDE DEF c, x
    <3>3. SameContents
      BY <2>4, <3>2, SetRefcnt, Zenon DEF SameContents, BufInv, BufTypes, bget_hit
    <3>4. QED
      BY <2>4, <3>3, Zenon DEF LockStep, BufInv, BufTypes, bget_hit, Goto
  <2>5. ASSUME NEW n \in Blocks, bget_panic(p, n) PROVE LockStep(p)
    BY <2>5, Zenon DEF LockStep, BufInv, BufTypes, SameContents, bget_panic, Goto
  <2>6. QED
    BY <2>1, <2>2, <2>3, <2>4, <2>5, Zenon
<1>2. Store' = Store /\ UNCHANGED <<disk, writing>>
  BY <1>1, StoreStays, Zenon DEF LockStep, SameContents
<1>3. \A q \in Procs : UsesAt(q)' = UsesAt(q)
  BY <1>1, Zenon DEF LockStep, UsesAt, Reading
<1>4. Uses' = Uses
  BY <1>3, Zenon DEF Uses
<1>5. QED
  BY <1>2, <1>4, StoreStutters, Zenon

\* iderw finds its request served, or sleeps again.
LEMMA TestSteps ==
  ASSUME BufInv, NEW p \in Procs, iderw_test(p) PROVE StoreSteps
<1>1. /\ SameContents /\ UNCHANGED <<cur, blockno>> /\ pc[p] = "iotest"
      /\ \A q \in Procs \ {p} : pc'[q] = pc[q] /\ (q \in writing' <=> q \in writing)
      /\ \/ /\ pc'[p] = "using" /\ writing' = writing \ {p}
            /\ buf[cur[p]].valid /\ ~buf[cur[p]].dirty
         \/ pc'[p] = "iowait" /\ writing' = writing
  BY Zenon DEF BufInv, BufTypes, SameContents, iderw_test, My, Goto
<1>2. Store' = Store /\ disk' = disk
  BY <1>1, StoreStays, Zenon DEF SameContents
<1>3. \A q \in Procs \ {p} : UsesAt(q)' = UsesAt(q)
  BY <1>1, Zenon DEF UsesAt, Reading
<1>4. CASE pc'[p] = "iowait" /\ writing' = writing
  <2>1. UsesAt(p)' = UsesAt(p)
    BY <1>1, <1>4, Zenon DEF UsesAt, Reading
  <2>2. Uses' = Uses
    BY <1>3, <2>1, Zenon DEF Uses
  <2>3. QED
    BY <1>2, <1>4, <2>2, StoreStutters, Zenon
<1>5. CASE /\ pc'[p] = "using" /\ writing' = writing \ {p} /\ p \in writing
           /\ buf[cur[p]].valid /\ ~buf[cur[p]].dirty
  <2>1. UsesAt(p)' = UsesAt(p) /\ UsesAt(p) = blockno[p]
    BY <1>1, <1>5, Zenon DEF UsesAt, Reading
  <2>2. Uses' = Uses /\ Uses[p] = blockno[p]
    BY <1>3, <2>1, Zenon DEF Uses
  <2>3. cur[p] \in Bufs /\ buf[cur[p]].blockno = blockno[p] /\ blockno[p] \in Blocks
    BY <1>1, Zenon DEF BufInv, HeldInv, HeldAt, Having
  <2>4. Store[blockno[p]] = buf[cur[p]].data
    BY <1>5, <2>3, StoreValue, Zenon DEF StoreReads
  <2>5. disk[blockno[p]] = Store[blockno[p]]
    BY <1>5, <2>3, <2>4, Zenon DEF BufInv, CacheInv, CacheAt
  <2>6. QED
    BY <1>2, <1>5, <2>2, <2>5, StoreEndsSync, Zenon
<1>6. CASE pc'[p] = "using" /\ writing' = writing \ {p} /\ p \notin writing
  <2>1. UsesAt(p)' = blockno[p] /\ UsesAt(p) = NoBlock
    BY <1>1, <1>6, Zenon DEF UsesAt, Reading
  <2>2. Uses' = [Uses EXCEPT ![p] = blockno[p]]
    BY <1>3, <2>1, UsesOne, Zenon
  <2>3. Uses[p] = NoBlock /\ blockno[p] \in Blocks /\ \A q \in Procs : Uses[q] # blockno[p]
    BY <1>1, <2>1, OnlyUser, Zenon DEF Locking
  <2>4. writing' = writing
    BY <1>6, Zenon
  <2>5. QED
    BY <1>2, <2>2, <2>3, <2>4, StoreOpens, Zenon
<1>7. QED
  BY <1>1, <1>4, <1>5, <1>6, Zenon


\* A buffer is recycled only if the disk has what it had.
LEMMA MissSteps ==
  ASSUME BufInv, BufInv', NEW p \in Procs, NEW n \in Blocks, bget_miss(p, n) PROVE StoreSteps
<1>1. PICK i \in DOMAIN lru :
        /\ Recyclable(lru[i])
        /\ buf' = [buf EXCEPT ![lru[i]] =
                     [@ EXCEPT !.blockno = n, !.valid = FALSE, !.dirty = FALSE,
                               !.refcnt = 1, !.data = NoData]]
  BY Zenon DEF bget_miss
<1> DEFINE c == lru[i]
<1>2. c \in Bufs /\ ~buf[c].dirty
  BY <1>1, Zenon DEF BufInv, BufTypes, Recyclable
<1>3. /\ UNCHANGED <<disk, writing>> /\ pc[p] = "idle" /\ pc'[p] = "acquire"
      /\ \A q \in Procs \ {p} : pc'[q] = pc[q] /\ blockno'[q] = blockno[q]
      /\ \A b \in Bufs \ {c} : buf'[b] = buf[b]
      /\ ~buf'[c].valid
  <2>1. /\ \A b \in Bufs \ {c} : buf'[b] = buf[b]
        /\ buf'[c].valid = FALSE
    BY <1>1, <1>2 DEF BufInv, BufTypes, Buffer
  <2>2. QED
    BY <2>1, Zenon DEF BufInv, BufTypes, bget_miss, Goto
<1> HIDE DEF c
<1>4. ASSUME NEW m \in Blocks PROVE Store'[m] = Store[m]
  <2>1. CASE buf[c].valid /\ buf[c].blockno = m
    <3>1. Store[m] = buf[c].data /\ buf[c].data = disk[m]
      BY <2>1, <1>2, StoreValue, Zenon DEF StoreReads, BufInv, CacheInv, CacheAt
    <3>2. \A b \in Bufs : ~(buf'[b].valid /\ buf'[b].blockno = m)
      BY <2>1, <1>2, <1>3, CacheAssumption DEF BufInv, CacheInv, CacheAt
    <3>3. StoreReads'
      BY StoreValue, PTL
    <3>4. Store'[m] = disk'[m]
      BY <3>2, <3>3, Zenon DEF StoreReads
    <3>5. QED
      BY <3>1, <3>4, <1>3, Zenon
  <2>2. CASE buf[c].valid => buf[c].blockno # m
    BY <2>2, <1>2, <1>3, StoreElsewhere, Zenon
  <2>3. QED
    BY <2>1, <2>2, Zenon
<1>5. Store' = Store
  BY <1>4, Zenon DEF Store
<1>6. \A q \in Procs : UsesAt(q)' = UsesAt(q)
  BY <1>3, Zenon DEF UsesAt, Reading
<1>7. Uses' = Uses
  BY <1>6, Zenon DEF Uses
<1>8. QED
  BY <1>3, <1>5, <1>7, StoreStutters, Zenon

\* A buffer that its user has changed and marked is a changed block.
LEMMA PutChanges ==
  ASSUME BufInv, BufInv', NEW p \in Procs, NEW v \in Vals, pc[p] = "using",
         buf' = Put(cur[p], v), disk' = disk
  PROVE  Store' = [Store EXCEPT ![blockno[p]] = v]
<1> DEFINE c == cur[p]
<1> DEFINE n == blockno[p]
<1>1. c \in Bufs /\ buf[c].blockno = n /\ n \in Blocks /\ buf[c].valid /\ buf \in [Bufs -> Buffer]
  BY Zenon DEF BufInv, BufTypes, HeldInv, HeldAt, Having, RequestInv, RequestAt
<1> HIDE DEF c, n
<1>2. /\ \A b \in Bufs \ {c} : buf'[b] = buf[b]
      /\ buf'[c].valid = buf[c].valid /\ buf'[c].blockno = buf[c].blockno /\ buf'[c].data = v
  <2>1. buf' = Put(c, v)
    BY Zenon DEF c
  <2>2. /\ \A b \in Bufs \ {c} : Put(c, v)[b] = buf[b]
        /\ Put(c, v)[c].valid = buf[c].valid /\ Put(c, v)[c].blockno = buf[c].blockno
        /\ Put(c, v)[c].data = v
    BY <1>1, SetDirty, Zenon
  <2>3. QED
    BY <2>1, <2>2, Zenon
<1>3. StoreReads'
  BY StoreValue, PTL
<1>4. Store'[n] = v
  BY <1>1, <1>2, <1>3, Zenon DEF StoreReads
<1>5. ASSUME NEW m \in Blocks, m # n PROVE Store'[m] = Store[m]
  BY <1>1, <1>2, <1>5, StoreElsewhere, Zenon
<1>6. Store' = [Store EXCEPT ![n] = v]
  BY <1>1, <1>4, <1>5, Zenon DEF Store
<1>7. QED
  BY <1>6, Zenon DEF n

\* The use of a process that has its block.
LEMMA Using ==
  ASSUME BufInv, NEW p \in Procs, pc[p] = "using"
  PROVE  Uses[p] = blockno[p] /\ Uses[p] # NoBlock /\ blockno[p] \in Blocks /\ p \notin writing
<1>1. blockno[p] \in Blocks /\ p \notin writing
  BY Zenon DEF BufInv, HeldInv, HeldAt, Having, RequestInv, RequestAt
<1>2. UsesAt(p) = blockno[p]
  BY Zenon DEF UsesAt, Reading
<1>3. QED
  BY <1>1, <1>2, CacheAssumption, Zenon DEF Uses

\* log_write is a change of the block.
LEMMA LogWriteSteps ==
  ASSUME BufInv, BufInv', NEW p \in Procs, NEW v \in Vals, log_write(p, v) PROVE StoreSteps
<1>1. /\ pc[p] = "using" /\ buf' = Put(cur[p], v)
      /\ UNCHANGED <<disk, pc, cur, blockno, writing>>
  BY Zenon DEF log_write, Put
<1>2. Store' = [Store EXCEPT ![blockno[p]] = v]
  BY <1>1, PutChanges, Zenon
<1>3. Uses' = Uses
  BY <1>1, Zenon DEF Uses, UsesAt, Reading
<1>4. QED
  BY <1>1, <1>2, <1>3, Using, StoreModifies, Zenon

\* brelse ends the use.
LEMMA UnlockSteps ==
  ASSUME BufInv, NEW p \in Procs, brelse_unlock(p) PROVE StoreSteps
<1> DEFINE c == cur[p]
<1>1. c \in Bufs /\ pc[p] = "using"
  BY Zenon DEF BufInv, HeldInv, HeldAt, Having, brelse_unlock
<1>2. /\ UNCHANGED <<blockno, writing, idequeue, disk, drive>>
      /\ buf' = [buf EXCEPT ![c].pid = NoProc] /\ pc'[p] = "releasing"
      /\ \A q \in Procs \ {p} :
           IF pc[q] = "lockwait" /\ cur[q] = c THEN pc'[q] = "acquire" ELSE pc'[q] = pc[q]
  BY <1>1, Zenon DEF BufInv, BufTypes, brelse_unlock, releasesleep, Wakeup
<1> HIDE DEF c
<1>3. SameContents
  BY <1>1, <1>2, SetPid, Zenon DEF BufInv, BufTypes, SameContents
<1>4. Store' = Store
  BY <1>3, StoreStays, Zenon
<1>5. UsesAt(p)' = NoBlock /\ \A q \in Procs \ {p} : UsesAt(q)' = UsesAt(q)
  BY <1>2, Zenon DEF UsesAt, Reading
<1>6. Uses' = [Uses EXCEPT ![p] = NoBlock]
  BY <1>5, UsesOne, Zenon
<1>7. QED
  BY <1>1, <1>2, <1>4, <1>6, Using, StoreCloses, Zenon


\* A block that is read into a buffer stays what it was.
LEMMA ReadServed ==
  ASSUME BufInv, BufInv', NEW c \in Bufs, buf[c].blockno \in Blocks, ServedFor(c),
         ~buf[c].valid, disk' = disk
  PROVE  Store' = Store
<1>1. ASSUME NEW n \in Blocks PROVE Store'[n] = Store[n]
  <2>1. CASE n = buf[c].blockno
    <3>1. \A b \in Bufs : ~(buf[b].valid /\ buf[b].blockno = n)
      BY <2>1, CacheAssumption, Zenon DEF BufInv, CacheInv, CacheAt
    <3>2. Store[n] = disk[n]
      BY <3>1, StoreValue, Zenon DEF StoreReads
    <3>3. StoreReads'
      BY StoreValue, PTL
    <3>4. Store'[n] = buf'[c].data
      BY <2>1, <3>3, Zenon DEF StoreReads, ServedFor
    <3>5. QED
      BY <2>1, <3>2, <3>4, Zenon DEF ServedFor
  <2>2. CASE n # buf[c].blockno
    BY <2>2, StoreElsewhere, Zenon DEF ServedFor
  <2>3. QED
    BY <2>1, <2>2, Zenon
<1>2. QED
  BY <1>1, Zenon DEF Store

\* A block that is written from a valid buffer is what is on disk then.
LEMMA WriteServed ==
  ASSUME BufInv, BufInv', NEW c \in Bufs, buf[c].blockno \in Blocks, ServedFor(c),
         NEW v, disk' = [disk EXCEPT ![buf[c].blockno] = v]
  PROVE  Store' = [Store EXCEPT ![buf[c].blockno] = v]
<1>1. ASSUME NEW n \in Blocks, n # buf[c].blockno PROVE Store'[n] = Store[n]
  BY <1>1, StoreElsewhere, Zenon DEF ServedFor
<1>2. Store'[buf[c].blockno] = v
  <2>1. StoreReads'
    BY StoreValue, PTL
  <2>2. disk'[buf[c].blockno] = v
    BY Zenon DEF BufInv, BufTypes
  <2>3. QED
    BY <2>1, <2>2, Zenon DEF StoreReads, ServedFor
<1>3. QED
  BY <1>1, <1>2, Zenon DEF Store

\* bread opens the block, or asks for it.
LEMMA BreadSteps ==
  ASSUME BufInv, BufInv', NEW p \in Procs, bread(p) PROVE StoreSteps
<1>1. pc[p] = "bread" /\ UNCHANGED <<cur, blockno>> /\ p \notin writing
  BY Zenon DEF BufInv, RequestInv, RequestAt, bread
<1>2. UsesAt(p) = NoBlock
  BY <1>1, Zenon DEF UsesAt
<1>3. Uses[p] = NoBlock /\ blockno[p] \in Blocks /\ \A q \in Procs : Uses[q] # blockno[p]
  BY <1>1, <1>2, OnlyUser, Zenon DEF Locking
<1>4. ASSUME Store' = Store, disk' = disk, writing' = writing, pc'[p] = "using",
             \A q \in Procs \ {p} : pc'[q] = pc[q]
      PROVE  StoreSteps
  <2>1. UsesAt(p)' = blockno[p] /\ \A q \in Procs \ {p} : UsesAt(q)' = UsesAt(q)
    BY <1>1, <1>4, Zenon DEF UsesAt, Reading
  <2>2. Uses' = [Uses EXCEPT ![p] = blockno[p]]
    BY <2>1, UsesOne, Zenon
  <2>3. QED
    BY <1>3, <1>4, <2>2, StoreOpens, Zenon
<1>5. CASE buf[cur[p]].valid
  <2>1. /\ UNCHANGED <<buf, disk, idequeue, drive, writing>> /\ pc'[p] = "using"
        /\ \A q \in Procs \ {p} : pc'[q] = pc[q]
    BY <1>5, Zenon DEF BufInv, BufTypes, bread, My, Goto
  <2>2. Store' = Store
    BY <2>1 DEF Store, StoreAt, ValidFor
  <2>3. QED
    BY <1>4, <2>1, <2>2, Zenon
<1>6. CASE ~buf[cur[p]].valid /\ driver = "ide"
  <2>1. iderw_ide(p, buf) /\ ~buf[cur[p]].dirty
    BY <1>1, <1>6, BreadInd, Zenon DEF iderw, BufInv, CacheInv, CacheAt, HeldInv, HeldAt, Having
  <2>2. /\ UNCHANGED <<buf, disk, writing>> /\ pc'[p] = "iowait"
        /\ \A q \in Procs \ {p} : pc'[q] = pc[q]
    BY <2>1, Zenon DEF BufInv, BufTypes, iderw_ide, Goto
  <2>3. Store' = Store
    BY <2>2 DEF Store, StoreAt, ValidFor
  <2>4. \A q \in Procs : UsesAt(q)' = UsesAt(q)
    BY <1>1, <2>2, Zenon DEF UsesAt, Reading
  <2>5. Uses' = Uses
    BY <2>4, Zenon DEF Uses
  <2>6. QED
    BY <2>2, <2>3, <2>5, StoreStutters, Zenon
<1>7. CASE ~buf[cur[p]].valid /\ driver # "ide"
  <2>1. CopiesFor(p, cur[p], buf) /\ ~buf[cur[p]].dirty
    BY <1>1, <1>7, BreadInd, MemServes, Zenon DEF iderw, BufInv, CacheInv, CacheAt, HeldInv, HeldAt, Having
  <2>2. disk' = disk
    BY <2>1, Zenon DEF CopiesFor
  <2>3. Store' = Store
    BY <1>7, <2>1, <2>2, ReadServed, Zenon DEF CopiesFor
  <2>4. QED
    BY <1>4, <2>1, <2>2, <2>3, Zenon DEF CopiesFor
<1>8. QED
  BY <1>5, <1>6, <1>7, Zenon

\* bwrite changes the block; on the disk in memory it is there at once.
LEMMA BwriteSteps ==
  ASSUME BufInv, BufInv', NEW p \in Procs, NEW v \in Vals, bwrite(p, v) PROVE StoreSteps
<1> DEFINE Q == Put(cur[p], v)
<1>1. pc[p] = "using" /\ UNCHANGED <<cur, blockno>>
  BY Zenon DEF bwrite
<1>2. cur[p] \in Bufs /\ buf[cur[p]].blockno = blockno[p] /\ buf \in [Bufs -> Buffer]
  BY <1>1, Zenon DEF BufInv, BufTypes, HeldInv, HeldAt, Having
<1>3. Q[cur[p]].dirty = TRUE /\ Q[cur[p]].data = v /\ Request(p, Q) /\ iderw(p, Q)
  BY <1>2, SetDirty, BwriteInd, Zenon
<1> HIDE DEF Q
<1>4. CASE driver = "ide"
  <2>1. /\ buf' = Q /\ disk' = disk /\ writing' = writing \cup {p} /\ pc'[p] = "iowait"
        /\ \A q \in Procs \ {p} : pc'[q] = pc[q]
    BY <1>3, <1>4, Zenon DEF BufInv, BufTypes, iderw, iderw_ide, Goto
  <2>2. Store' = [Store EXCEPT ![blockno[p]] = v]
    BY <1>1, <2>1, PutChanges, Zenon DEF Q
  <2>3. \A q \in Procs : UsesAt(q)' = UsesAt(q)
    BY <1>1, <2>1, Zenon DEF UsesAt, Reading
  <2>4. Uses' = Uses
    BY <2>3, Zenon DEF Uses
  <2>5. QED
    BY <1>1, <2>1, <2>2, <2>4, Using, StoreSyncs, Zenon
<1>5. CASE driver # "ide"
  <2>1. CopiesFor(p, cur[p], Q)
    BY <1>3, <1>5, MemServes, Zenon DEF iderw
  <2>2. disk' = [disk EXCEPT ![blockno[p]] = v]
    BY <1>3, <2>1, Zenon DEF CopiesFor
  <2>3. Store' = [Store EXCEPT ![blockno[p]] = v]
    <3> DEFINE c == cur[p]
    <3>1. /\ c \in Bufs /\ buf[c].blockno \in Blocks /\ ServedFor(c) /\ buf[c].blockno = blockno[p]
          /\ disk' = [disk EXCEPT ![buf[c].blockno] = v]
      BY <1>2, <2>1, <2>2, Zenon DEF CopiesFor
    <3> HIDE DEF c
    <3>2. Store' = [Store EXCEPT ![buf[c].blockno] = v]
      BY <3>1, WriteServed, Zenon
    <3>3. QED
      BY <3>1, <3>2, Zenon
  <2>4. \A q \in Procs : UsesAt(q)' = UsesAt(q)
    BY <1>1, <2>1, Zenon DEF UsesAt, Reading, CopiesFor
  <2>5. Uses' = Uses /\ writing' = writing
    BY <2>1, <2>4, Zenon DEF Uses, CopiesFor
  <2>6. QED
    BY <1>1, <2>2, <2>3, <2>5, Using, StoreSyncsNow, Zenon
<1>6. QED
  BY <1>4, <1>5, Zenon

\* The interrupt ends a read, or brings a bwrite's block to the disk.
LEMMA IntrSteps ==
  ASSUME BufInv, BufInv', ideintr PROVE StoreSteps
<1> DEFINE c == Head(idequeue)
<1>1. PICK p \in Procs : InterruptFor(p, c)
  BY IntrServes, Zenon
<1> HIDE DEF c
<1>2. /\ c \in Bufs /\ buf[c].blockno \in Blocks /\ ServedFor(c) /\ buf[c].blockno = blockno[p]
      /\ UNCHANGED <<blockno, writing>> /\ cur[p] = c
  BY <1>1, Zenon DEF InterruptFor
<1>3. \A q \in Procs : UsesAt(q)' = UsesAt(q)
  BY <1>1, Zenon DEF UsesAt, Reading, InterruptFor
<1>4. Uses' = Uses
  BY <1>3, Zenon DEF Uses
<1>5. CASE ~buf[c].dirty
  <2>1. disk' = disk /\ ~buf[c].valid
    BY <1>1, <1>5, Zenon DEF InterruptFor, BufInv, QueueInv, QueueAt
  <2>2. Store' = Store
    BY <1>2, <2>1, ReadServed, Zenon
  <2>3. QED
    BY <1>2, <1>4, <2>1, <2>2, StoreStutters, Zenon
<1>6. CASE buf[c].dirty
  <2>1. disk' = [disk EXCEPT ![blockno[p]] = buf[c].data] /\ buf[c].valid /\ p \in writing
    BY <1>1, <1>2, <1>6, Zenon DEF InterruptFor, BufInv, CacheInv, CacheAt, RequestInv, RequestAt
  <2>2. Store[blockno[p]] = buf[c].data
    BY <1>2, <2>1, StoreValue, Zenon DEF StoreReads
  <2>3. Store' = [Store EXCEPT ![blockno[p]] = buf[c].data]
    <3> DEFINE x == buf[c].data
    <3>1. disk' = [disk EXCEPT ![buf[c].blockno] = x]
      BY <1>2, <2>1, Zenon
    <3> HIDE DEF x
    <3>2. Store' = [Store EXCEPT ![buf[c].blockno] = x]
      BY <1>2, <3>1, WriteServed, Zenon
    <3>3. QED
      BY <1>2, <3>2, Zenon DEF x
  <2>4. Store' = Store
    BY <2>2, <2>3, Zenon DEF Store
  <2>5. UsesAt(p) = blockno[p]
    BY <1>1, <2>1, Zenon DEF UsesAt, Reading, InterruptFor
  <2>6. Uses[p] = blockno[p]
    BY <2>5, Zenon DEF Uses
  <2>7. QED
    BY <1>2, <1>4, <2>1, <2>2, <2>4, <2>6, StoreFlushes, Zenon
<1>7. QED
  BY <1>5, <1>6, Zenon


\* Every step of the cache is a step of the store or none.
LEMMA StoreNext ==
  BufInv /\ BufInv' /\ Next => StoreSteps
<1> SUFFICES ASSUME BufInv, BufInv' PROVE Next => StoreSteps
  BY Zenon
<1>1. ASSUME ideintr PROVE StoreSteps
  BY <1>1, IntrSteps, Zenon
<1>2. ASSUME NEW p \in Procs, Step(p) PROVE StoreSteps
  <2>1. ASSUME acquiresleep(p) \/ brelse_drop(p) PROVE StoreSteps
    BY <2>1, LockSteps, Zenon
  <2>2. ASSUME iderw_test(p) PROVE StoreSteps
    BY <2>2, TestSteps, Zenon
  <2>3. ASSUME bread(p) PROVE StoreSteps
    BY <2>3, BreadSteps, Zenon
  <2>4. ASSUME brelse_unlock(p) PROVE StoreSteps
    BY <2>4, UnlockSteps, Zenon
  <2>5. ASSUME NEW n \in Blocks, bget_hit(p, n) \/ bget_panic(p, n) PROVE StoreSteps
    BY <2>5, LockSteps, Zenon
  <2>6. ASSUME NEW n \in Blocks, bget_miss(p, n) PROVE StoreSteps
    BY <2>6, MissSteps, Zenon
  <2>7. ASSUME NEW v \in Vals, bwrite(p, v) \/ log_write(p, v) PROVE StoreSteps
    BY <2>7, BwriteSteps, LogWriteSteps, Zenon
  <2>8. QED
    BY <1>2, <2>1, <2>2, <2>3, <2>4, <2>5, <2>6, <2>7, Zenon DEF Step
<1>3. ASSUME NEW p \in Procs, kill(p) PROVE StoreSteps
  BY <1>3, LockSteps, Zenon
<1>4. QED
  BY <1>1, <1>2, <1>3, Zenon DEF Next

\* At boot the store is the disk and nobody uses a block.
LEMMA StoreStarts ==
  ASSUME Init PROVE BS!Init
<1>1. PICK v \in Vals : disk = [n \in Blocks |-> v]
  BY Zenon DEF Init
<1>2. \A n \in Blocks : StoreAt(n) = v
  <2> SUFFICES ASSUME NEW n \in Blocks PROVE StoreAt(n) = v
    BY Zenon
  <2>1. ValidFor(n) = {}
    BY Zenon DEF ValidFor, Init
  <2>2. QED
    BY <1>1, <2>1, Zenon DEF StoreAt
<1>3. Store \in [Blocks -> Vals] /\ disk = Store
  BY <1>1, <1>2, Zenon DEF Store
<1>4. Uses = [p \in Procs |-> NoBlock] /\ writing = {}
  BY Zenon DEF Uses, UsesAt, Init
<1>5. QED
  BY <1>3, <1>4, Zenon DEF BS!Init, Store, StoreAt, ValidFor, Uses, UsesAt
=============================================================================
