------------------------- MODULE Xv6LogDataProofs --------------------------
(***************************************************************************)
(* Why log.c implements AtomicDisk: what the disk, the log area and the    *)
(* buffers hold at every step, given who may be where (PhaseInv), and the  *)
(* step of AtomicDisk that each step of log.c is.                          *)
(***************************************************************************)
EXTENDS Xv6Log, TLAPS

\* Who may be where: calls and commits exclude each other, and both exclude
\* recovery, which one process runs.
PhaseInv ==
  /\ Len(dhead) <= LOGSIZE
  /\ \A p \in Procs : pc[p] \in {"write_log", "install"} => tail[p] < Len(lh)
  /\ \A p \in Procs : pc[p] \in {"write_log", "write_head", "end_commit"} => committing = 1
  /\ \A p \in Procs : pc[p] \in {"install", "clear"} => committing = 1 \/ sys = "recovering"
  /\ \A p \in Procs : pc[p] = "read_head" => sys = "recovering"
  /\ \A p, q \in Procs :
       InCommit(p) \/ pc[p] = "read_head" =>
         /\ pc[q] \notin {"op", "log_write"}
         /\ InCommit(q) \/ pc[q] = "read_head" => p = q
  /\ \A p \in Procs : pc[p] \in {"write_head", "read_head"} => tail[p] = 0
  /\ \A p \in Procs : pc[p] = "write_head" => lh # << >>
  /\ \A p \in Procs : pc[p] = "end_commit" => lh = << >>
  /\ committing = 1 => sys # "recovering" /\ \A p \in Procs : pc[p] \notin {"op", "log_write"}
  /\ sys = "recovering" =>
       /\ committing = 0
       /\ \A p \in Procs : pc[p] \in {"idle", "read_head", "install", "clear"}

-----------------------------------------------------------------------------
(* The log implements AtomicDisk: what the disk and the buffers hold.      *)

Distinct(s) == \A i, j \in 1..Len(s) : s[i] = s[j] => i = j
Listed(s) == {s[i] : i \in 1..Len(s)}
Installing(p) == pc[p] \in {"install", "clear"}

\* A clean buffer has what the disk has, a dirty one is not recycled.
HomeInv ==
  /\ \A b \in Blocks : b \notin dirty => cache[b] \in {NoBuf, disk[b]}
  /\ \A b \in dirty : cache[b] # NoBuf

\* The log area has what calls read.
Copied == \A i \in 1..Len(lh) : dlog[i - 1] = Bread(lh[i])

\* What a commit or a recovery has done at each of its lines.
CommitAt(p) ==
  /\ pc[p] = "write_log" => \A i \in 1..tail[p] : dlog[i - 1] = Bread(lh[i])
  /\ pc[p] = "write_head" => Copied
  /\ pc[p] = "install" =>
       /\ \A i \in 1..tail[p] : dlog[i - 1] = disk[lh[i]]
       /\ dirty \subseteq {lh[i] : i \in (tail[p] + 1)..Len(lh)}
  /\ pc[p] = "clear" => dirty = {} /\ \A i \in 1..Len(lh) : dlog[i - 1] = disk[lh[i]]
  /\ pc[p] = "read_head" => lh = << >>
  /\ Installing(p) => lh = dhead /\ (sys # "recovering" => Copied)
CommitInv == \A p \in Procs : CommitAt(p)

\* Before the commit point the header on disk is empty and the dirty buffers
\* are the blocks of the log.
BeforeInv ==
  (\A p \in Procs : ~Installing(p)) =>
    dirty = Listed(lh) /\ (sys # "recovering" => dhead = << >>)

AtomInv == HomeInv /\ Distinct(lh) /\ Distinct(dhead) /\ CommitInv /\ BeforeInv

\* What the reservation argument leaves for this one.
LogState ==
  /\ TypeOK /\ PhaseInv /\ Len(lh) <= LOGSIZE
  /\ \A p \in Procs : pc[p] \in {"op", "log_write"} => outstanding > 0
  /\ \A p \in Procs : pc[p] = "log_write" => held[p] \in Blocks

\* What bread returns.
LEMMA BreadValue ==
  ASSUME TypeOK, HomeInv, NEW b \in Blocks
  PROVE  /\ Bread(b) \in Vals
         /\ Bread(b) = IF b \in dirty THEN cache[b] ELSE disk[b]
BY LogAssumption DEF TypeOK, HomeInv, Bread

\* After boot the log is empty and nothing is cached.
LEMMA AtomStarts == ASSUME Init PROVE AtomInv
<1>1. HomeInv /\ Distinct(lh) /\ Distinct(dhead) /\ BeforeInv
  BY DEF Init, HomeInv, Distinct, BeforeInv, Listed
<1>2. CommitInv
  BY DEF Init, CommitInv, CommitAt, Installing
<1> QED  BY Zenon, <1>1, <1>2 DEF AtomInv

\* Appending a block to a sequence that does not have it.
LEMMA Listing ==
  ASSUME NEW s \in Seq(Blocks), NEW b \in Blocks
  PROVE  /\ Listed(Append(s, b)) = Listed(s) \cup {b}
         /\ Distinct(s) /\ b \notin Listed(s) => Distinct(Append(s, b))
         /\ Listed(s) \subseteq Blocks
<1>1. /\ Len(s) \in Nat /\ Len(Append(s, b)) = Len(s) + 1 /\ Append(s, b)[Len(s) + 1] = b
      /\ \A i \in 1..Len(s) : Append(s, b)[i] = s[i] /\ s[i] \in Blocks
  OBVIOUS
<1>2. \A i \in 1..(Len(s) + 1) : i \in 1..Len(s) \/ i = Len(s) + 1
  BY <1>1
<1>3. 1..Len(s) \subseteq 1..(Len(s) + 1) /\ Len(s) + 1 \in 1..(Len(s) + 1)
  BY <1>1
<1>4. Listed(Append(s, b)) = Listed(s) \cup {b}
  BY Zenon, <1>1, <1>2, <1>3 DEF Listed
<1>5. ASSUME Distinct(s), b \notin Listed(s) PROVE Distinct(Append(s, b))
  BY Zenon, <1>1, <1>2, <1>5 DEF Distinct, Listed
<1> QED  BY Zenon, <1>1, <1>4, <1>5 DEF Listed

\* A step that leaves the disk, the log and what bread returns as they are.
LEMMA AtomFrame ==
  ASSUME AtomInv, LogState, UNCHANGED <<disk, dlog, dhead, dirty, lh>>, HomeInv',
         \A b \in Blocks : Bread(b)' = Bread(b),
         sys' = "recovering" <=> sys = "recovering",
         \A p \in Procs : Installing(p)' <=> Installing(p),
         \A p \in Procs :
           pc'[p] \in {"write_log", "write_head", "install", "clear", "read_head"} =>
             \/ pc'[p] = pc[p] /\ tail'[p] = tail[p]
             \/ pc'[p] = "write_log" /\ tail'[p] = 0
  PROVE  AtomInv'
<1>1. Distinct(lh)' /\ Distinct(dhead)'
  BY Zenon DEF AtomInv, Distinct
<1>2. BeforeInv'
  BY Zenon DEF AtomInv, BeforeInv, Listed
<1>3. ASSUME NEW p \in Procs PROVE CommitAt(p)'
  <2>1. \A i \in 1..Len(lh) : lh[i] \in Blocks
    BY DEF LogState, TypeOK
  <2>2. Copied => Copied'
    BY Zenon, <2>1 DEF Copied
  <2>3. CommitAt(p) /\ (pc[p] = "write_log" => \A i \in 1..tail[p] : i \in 1..Len(lh))
    BY DEF LogState, TypeOK, PhaseInv, AtomInv, CommitInv
  <2>4. CASE pc'[p] = pc[p] /\ tail'[p] = tail[p]
    <3>1. pc[p] = "write_log" => \A i \in 1..tail[p] : dlog[i - 1] = Bread(lh[i])'
      BY Zenon, <2>1, <2>3 DEF CommitAt
    <3> QED  BY <2>2, <2>3, <2>4, <3>1 DEF CommitAt, Installing
  <2>5. CASE pc'[p] = "write_log" /\ tail'[p] = 0
    BY <2>5 DEF CommitAt, Installing
  <2>6. CASE pc'[p] \notin {"write_log", "write_head", "install", "clear", "read_head"}
    BY Zenon, <2>6 DEF CommitAt, Installing
  <2> QED  BY <2>4, <2>5, <2>6
<1> QED  BY Zenon, <1>1, <1>2, <1>3 DEF AtomInv, CommitInv

\* While one process commits or recovers, the others are at no such line.
LEMMA OneCommitter ==
  ASSUME LogState, NEW p \in Procs, InCommit(p) \/ pc[p] = "read_head"
  PROVE  \A q \in Procs \ {p} :
           pc[q] \notin {"write_log", "write_head", "install", "clear", "read_head"}
BY Zenon DEF LogState, PhaseInv, InCommit

\* After a step of the committer only its own line has something to say.
LEMMA CommitStep ==
  ASSUME LogState, NEW p \in Procs, InCommit(p) \/ pc[p] = "read_head",
         \A q \in Procs \ {p} : pc'[q] = pc[q], CommitAt(p)'
  PROVE  /\ CommitInv'
         /\ \A q \in Procs \ {p} : ~Installing(q) /\ ~Installing(q)'
<1>1. ASSUME NEW q \in Procs, q # p
      PROVE  pc'[q] \notin {"write_log", "write_head", "install", "clear", "read_head"}
  BY Zenon, <1>1, OneCommitter
<1>2. ASSUME NEW q \in Procs, q # p PROVE CommitAt(q)'
  BY Zenon, <1>1, <1>2 DEF CommitAt, Installing
<1> QED  BY Zenon, <1>1, <1>2, OneCommitter DEF CommitInv, Installing

\* While a call is between begin_op and end_op nobody commits or recovers.
LEMMA CallsAlone ==
  ASSUME LogState, NEW p \in Procs, pc[p] \in {"op", "log_write"}
  PROVE  /\ sys # "recovering"
         /\ \A q \in Procs :
              pc[q] \notin {"write_log", "write_head", "install", "clear", "read_head"}
BY Zenon DEF LogState, PhaseInv, InCommit

\* Before the commit point the recovered disk is the disk.
LEMMA BeforeCommit ==
  ASSUME LogState, AtomInv, NEW p \in Procs,
         pc[p] \in {"op", "log_write", "write_log", "write_head", "end_commit"}
  PROVE  sys # "recovering" /\ dirty = Listed(lh) /\ dhead = << >>
<1>1. pc[p] \in {"op", "log_write"} \/ (InCommit(p) /\ committing = 1)
  BY Zenon DEF InCommit, LogState, PhaseInv
<1>2. sys # "recovering"
  BY Zenon, <1>1 DEF LogState, PhaseInv
<1>3. \A q \in Procs : ~Installing(q)
  BY Zenon, <1>1, CallsAlone, OneCommitter DEF Installing
<1> QED  BY Zenon, <1>2, <1>3 DEF AtomInv, BeforeInv

\* begin_op, end_op and their panics move no data.
LEMMA StillAtom ==
  ASSUME LogState, AtomInv, UNCHANGED <<disk, dlog, dhead, cache, dirty, lh>>,
         sys' = "recovering" <=> sys = "recovering",
         \A p \in Procs : Installing(p)' <=> Installing(p),
         \A p \in Procs :
           pc'[p] \in {"write_log", "write_head", "install", "clear", "read_head"} =>
             \/ pc'[p] = pc[p] /\ tail'[p] = tail[p]
             \/ pc'[p] = "write_log" /\ tail'[p] = 0
  PROVE  AtomInv'
<1>1. HomeInv'
  BY Zenon DEF AtomInv, HomeInv
<1>2. \A b \in Blocks : Bread(b)' = Bread(b)
  BY Zenon DEF Bread
<1> QED  BY Zenon, <1>1, <1>2, AtomFrame

\* A panic writes nothing.
LEMMA PanicAtom ==
  ASSUME LogState, AtomInv, Panic, sys # "recovering" PROVE AtomInv'
<1>1. \A p \in Procs : (Installing(p)' <=> Installing(p)) /\ pc'[p] = pc[p] /\ tail'[p] = tail[p]
  BY Zenon DEF Panic, Installing
<1> QED  BY Zenon, <1>1, StillAtom DEF Panic

\* begin_op counts the call or goes to sleep; no block is touched.
LEMMA BeginOpAtom ==
  ASSUME LogState, AtomInv, NEW p \in Procs, BeginOp(p) PROVE AtomInv'
<1>1. \A q \in Procs : pc'[q] = pc[q] \/ (q = p /\ pc'[q] \in {"asleep", "op"})
  BY DEF BeginOp, LogState, TypeOK
<1>2. pc[p] \in {"idle", "begin"} /\ tail' = tail
  BY Zenon DEF BeginOp
<1>3. \A q \in Procs : Installing(q)' <=> Installing(q)
  BY <1>1, <1>2 DEF Installing
<1>4. \A q \in Procs :
        pc'[q] \in {"write_log", "write_head", "install", "clear", "read_head"} =>
          pc'[q] = pc[q] /\ tail'[q] = tail[q]
  BY <1>1, <1>2
<1> QED  BY Zenon, <1>3, <1>4, StillAtom DEF BeginOp

\* end_op: the last call out starts a commit with everything still in buffers.
LEMMA EndOpAtom ==
  ASSUME LogState, AtomInv, NEW p \in Procs, EndOp(p) PROVE AtomInv'
<1>1. pc[p] = "op" /\ sys # "recovering"
  BY Zenon, CallsAlone DEF EndOp
<1>2. CASE Panic
  BY Zenon, <1>1, <1>2, PanicAtom
<1>3. CASE ~Panic
  <2>1. /\ UNCHANGED <<disk, dlog, dhead, cache, dirty, lh, sys>>
        /\ tail' = [tail EXCEPT ![p] = 0]
        /\ pc' = [pc EXCEPT ![p] = CommitEntry] \/ pc' = WakeupLog([pc EXCEPT ![p] = "idle"])
    BY Zenon, <1>3 DEF EndOp
  <2>2. /\ tail'[p] = 0
        /\ pc'[p] \in {"end_commit", "write_log", "idle"}
        /\ \A q \in Procs \ {p} : pc'[q] = pc[q] \/ pc'[q] = "begin"
    BY <2>1 DEF LogState, TypeOK, CommitEntry, WakeupLog
  <2>3. \A q \in Procs \ {p} : pc'[q] \notin {"write_log", "write_head", "install", "clear", "read_head"}
    BY Zenon, <1>1, <2>2, CallsAlone
  <2>4. \A q \in Procs : ~Installing(q) /\ ~Installing(q)'
    BY Zenon, <1>1, <2>2, <2>3, CallsAlone DEF Installing
  <2>5. pc'[p] \notin {"write_head", "install", "clear", "read_head"}
    BY <2>2
  <2> QED  BY Zenon, <2>1, <2>2, <2>3, <2>4, <2>5, StillAtom
<1> QED  BY Zenon, <1>2, <1>3

\* The end of a commit touches no block and leaves nobody inside one.
LEMMA EndCommitAtom ==
  ASSUME LogState, AtomInv, NEW p \in Procs, EndCommit(p) PROVE AtomInv'
<1>1. /\ pc[p] = "end_commit" /\ pc'[p] = "idle" /\ tail' = tail
      /\ \A q \in Procs \ {p} : pc'[q] = pc[q] \/ pc'[q] = "begin"
  BY DEF EndCommit, LogState, TypeOK, WakeupLog
<1>2. \A q \in Procs : pc'[q] \notin {"write_log", "write_head", "install", "clear", "read_head"}
  BY <1>1, OneCommitter DEF InCommit
<1>3. \A q \in Procs : ~Installing(q) /\ ~Installing(q)'
  BY <1>1, <1>2, OneCommitter DEF InCommit, Installing
<1> QED  BY Zenon, <1>2, <1>3, StillAtom DEF EndCommit

\* A call reads a block into its buffer.
LEMMA LogWriteCheckAtom ==
  ASSUME LogState, AtomInv, NEW p \in Procs, NEW b \in Blocks, LogWriteCheck(p, b)
  PROVE  AtomInv'
<1>1. pc[p] = "op" /\ sys # "recovering"
  BY Zenon, CallsAlone DEF LogWriteCheck
<1>2. CASE Panic
  BY Zenon, <1>1, <1>2, PanicAtom
<1>3. CASE ~Panic
  <2>1. /\ UNCHANGED <<disk, dlog, dhead, dirty, lh, tail, sys>>
        /\ pc' = [pc EXCEPT ![p] = "log_write"] /\ cache' = [cache EXCEPT ![b] = Bread(b)]
    BY Zenon, <1>3 DEF LogWriteCheck
  <2>2. \A q \in Procs : pc'[q] = IF q = p THEN "log_write" ELSE pc[q]
    BY <2>1 DEF LogState, TypeOK
  <2>3. \A q \in Procs : pc'[q] \notin {"write_log", "write_head", "install", "clear", "read_head"}
    BY <1>1, <2>2, CallsAlone
  <2>4. \A q \in Procs : ~Installing(q) /\ ~Installing(q)'
    BY Zenon, <1>1, <2>3, CallsAlone DEF Installing
  <2>5. \A c \in Blocks : cache'[c] = IF c = b THEN Bread(b) ELSE cache[c]
    BY <2>1 DEF LogState, TypeOK
  <2>6. /\ TypeOK /\ HomeInv /\ Bread(b) \in Vals
        /\ b \notin dirty => Bread(b) = disk[b]
    BY Zenon, BreadValue DEF LogState, AtomInv
  <2>7. HomeInv'
    BY <2>1, <2>5, <2>6, LogAssumption DEF HomeInv, TypeOK
  <2>8. \A c \in Blocks : Bread(c)' = Bread(c)
    BY <2>1, <2>5, <2>6, LogAssumption DEF Bread
  <2> QED  BY Zenon, <2>1, <2>3, <2>4, <2>7, <2>8, AtomFrame
<1> QED  BY Zenon, <1>2, <1>3

\* Recycling a clean buffer loses nothing.
LEMMA EvictAtom ==
  ASSUME LogState, AtomInv, NEW b \in Blocks, Evict(b) PROVE AtomInv'
<1>1. UNCHANGED <<disk, dlog, dhead, dirty, lh, pc, tail, sys>> /\ b \notin dirty
  BY Zenon DEF Evict, Pinned
<1>2. \A c \in Blocks : cache'[c] = IF c = b THEN NoBuf ELSE cache[c]
  BY DEF Evict, LogState, TypeOK
<1>3. HomeInv
  BY Zenon DEF AtomInv
<1>4. HomeInv' /\ \A c \in Blocks : Bread(c)' = Bread(c)
  BY <1>1, <1>2, <1>3 DEF HomeInv, Bread, LogState, TypeOK
<1>5. \A p \in Procs : (Installing(p)' <=> Installing(p)) /\ pc'[p] = pc[p] /\ tail'[p] = tail[p]
  BY Zenon, <1>1 DEF Installing
<1> QED  BY Zenon, <1>1, <1>4, <1>5, AtomFrame

\* log_write puts the block in the log and pins its buffer.
LEMMA LogWriteAtom ==
  ASSUME LogState, AtomInv, NEW p \in Procs, NEW v \in Vals, LogWrite(p, v)
  PROVE  AtomInv'
<1> DEFINE b == held[p]
<1>1. pc[p] = "log_write" /\ UNCHANGED <<disk, dlog, dhead, sys>>
  BY Zenon DEF LogWrite
<1>2. b \in Blocks /\ dirty = Listed(lh) /\ dhead = << >> /\ dirty' = dirty \cup {b}
  BY Zenon, <1>1, BeforeCommit DEF LogWrite, LogState
<1>3. /\ \A q \in Procs : pc'[q] = IF q = p THEN "op" ELSE pc[q]
      /\ \A c \in Blocks : cache'[c] = IF c = b THEN v ELSE cache[c]
  BY <1>2 DEF LogWrite, LogState, TypeOK
<1>4. \A q \in Procs : pc'[q] \notin {"write_log", "write_head", "install", "clear", "read_head"}
  BY <1>1, <1>3, CallsAlone
<1>5. CommitInv'
  BY Zenon, <1>4 DEF CommitInv, CommitAt, Installing
<1>6. lh \in Seq(Blocks) /\ (InLog(b) <=> b \in Listed(lh)) /\ Distinct(lh)
  BY Zenon DEF InLog, Listed, LogState, TypeOK, AtomInv
<1>7. lh' = IF InLog(b) THEN lh ELSE Append(lh, b)
  BY Zenon DEF LogWrite
<1> HIDE DEF b
<1>8. Distinct(lh') /\ Listed(lh') = Listed(lh) \cup {b}
  <2>1. CASE InLog(b)
    BY Zenon, <1>6, <1>7, <2>1
  <2>2. CASE ~InLog(b)
    BY Zenon, <1>2, <1>6, <1>7, <2>2, Listing
  <2> QED  BY Zenon, <2>1, <2>2
<1>9. Distinct(lh)' /\ Distinct(dhead)'
  BY Zenon, <1>1, <1>8 DEF Distinct, AtomInv
<1>10. dirty' = Listed(lh)' /\ dhead' = << >>
  BY Zenon, <1>1, <1>2, <1>8 DEF Listed
<1>11. BeforeInv'
  BY Zenon, <1>10 DEF BeforeInv
<1>12. HomeInv'
  BY <1>1, <1>2, <1>3, LogAssumption DEF HomeInv, AtomInv, LogState, TypeOK
<1> QED  BY Zenon, <1>5, <1>9, <1>11, <1>12 DEF AtomInv

\* write_log copies one more block to the log area.
LEMMA WriteLogAtom ==
  ASSUME LogState, AtomInv, NEW p \in Procs, WriteLog(p) PROVE AtomInv'
<1>1. pc[p] = "write_log" /\ InCommit(p) /\ sys # "recovering" /\ dhead = << >>
  BY Zenon, BeforeCommit DEF WriteLog, InCommit
<1>2. CASE Panic
  BY Zenon, <1>1, <1>2, PanicAtom
<1>3. CASE ~Panic
  <2> DEFINE t == tail[p]
             c == Bread(lh[t + 1])
  <2>1. UNCHANGED <<disk, dhead, cache, dirty, lh, sys>> /\ dlog' = [dlog EXCEPT ![t] = c]
    BY Zenon, <1>3 DEF WriteLog
  <2>2. t \in Nat /\ t < Len(lh) /\ Len(lh) \in Nat /\ Len(lh) <= LOGSIZE
    BY <1>1 DEF LogState, TypeOK, PhaseInv
  <2>3. \A i \in 1..(t + 1) : dlog'[i - 1] = IF i = t + 1 THEN c ELSE dlog[i - 1]
    BY <2>1, <2>2, LogAssumption DEF LogState, TypeOK
  <2>4. \A i \in 1..t : dlog[i - 1] = Bread(lh[i])
    BY Zenon, <1>1 DEF AtomInv, CommitInv, CommitAt
  <2> HIDE DEF t
  <2>5. \A i \in 1..(t + 1) : dlog'[i - 1] = Bread(lh[i])
    BY <2>2, <2>3, <2>4
  <2>6. \A i \in 1..(t + 1) : dlog'[i - 1] = Bread(lh[i])'
    BY Zenon, <2>1, <2>5 DEF Bread
  <2>7. \A q \in Procs \ {p} : pc'[q] = pc[q]
    BY <1>3 DEF WriteLog, LogState, TypeOK
  <2>8. CommitAt(p)'
    <3>1. CASE t + 1 < Len(lh)
      <4>1. tail'[p] = t + 1 /\ pc'[p] = "write_log"
        BY <1>3, <3>1 DEF WriteLog, LogState, TypeOK, t
      <4> QED  BY <2>6, <4>1 DEF CommitAt, Installing
    <3>2. CASE ~(t + 1 < Len(lh))
      <4>1. t + 1 = Len(lh) /\ lh' = lh
        BY <2>1, <2>2, <3>2
      <4>2. pc'[p] = "write_head"
        BY <1>3, <3>2 DEF WriteLog, LogState, TypeOK, t
      <4>3. Copied'
        BY Zenon, <2>6, <4>1 DEF Copied
      <4> QED  BY Zenon, <4>2, <4>3 DEF CommitAt, Installing
    <3> QED  BY Zenon, <3>1, <3>2
  <2>9. CommitInv'
    BY Zenon, <1>1, <2>7, <2>8, CommitStep
  <2>10. HomeInv' /\ Distinct(lh)' /\ Distinct(dhead)'
    BY Zenon, <2>1 DEF HomeInv, Distinct, AtomInv
  <2>11. BeforeInv'
    BY Zenon, <1>1, <2>1, BeforeCommit DEF BeforeInv, Listed
  <2> QED  BY Zenon, <2>9, <2>10, <2>11 DEF AtomInv
<1> QED  BY Zenon, <1>2, <1>3

\* write_head: the log on disk has all that calls read of the transaction.
LEMMA WriteHeadAtom ==
  ASSUME LogState, AtomInv, NEW p \in Procs, WriteHead(p) PROVE AtomInv'
<1>1. /\ pc[p] = "write_head" /\ InCommit(p) /\ dhead' = lh
      /\ UNCHANGED <<disk, dlog, cache, dirty, lh, tail, sys>>
  BY Zenon DEF WriteHead, InCommit
<1>2. dirty = Listed(lh) /\ tail[p] = 0 /\ Copied
  BY Zenon, <1>1, BeforeCommit DEF LogState, PhaseInv, AtomInv, CommitInv, CommitAt
<1>3. pc'[p] = "install" /\ \A q \in Procs \ {p} : pc'[q] = pc[q]
  BY DEF WriteHead, LogState, TypeOK
<1>4. Copied'
  BY Zenon, <1>1, <1>2 DEF Copied, Bread
<1>5. /\ \A i \in 1..tail'[p] : dlog'[i - 1] = disk'[lh'[i]]
      /\ dirty' \subseteq {lh'[i] : i \in (tail'[p] + 1)..Len(lh')}
  BY <1>1, <1>2 DEF Listed
<1>6. CommitAt(p)'
  BY Zenon, <1>1, <1>3, <1>4, <1>5 DEF CommitAt, Installing
<1>7. CommitInv' /\ Installing(p)'
  BY Zenon, <1>1, <1>3, <1>6, CommitStep DEF Installing
<1>8. BeforeInv'
  BY Zenon, <1>7 DEF BeforeInv
<1>9. HomeInv' /\ Distinct(lh)' /\ Distinct(dhead)'
  BY Zenon, <1>1 DEF HomeInv, Distinct, AtomInv
<1> QED  BY Zenon, <1>7, <1>8, <1>9 DEF AtomInv

\* The block install_trans is at, and what it finds and leaves.
Home(p) == lh[tail[p] + 1]

\* What one step of install_trans writes: block lh[tail] gets its copy in the
\* log area, the other blocks keep what they have.
LEMMA InstallFacts ==
  ASSUME LogState, AtomInv, NEW p \in Procs, InstallTrans(p)
  PROVE  /\ pc[p] = "install" /\ InCommit(p) /\ lh = dhead
         /\ tail[p] \in Nat /\ Len(lh) \in Nat /\ tail[p] + 1 \in 1..Len(lh)
         /\ Home(p) \in Blocks /\ dlog[tail[p]] \in Vals
         /\ UNCHANGED <<dlog, dhead, lh, sys>> /\ dirty' = dirty \ {Home(p)}
         /\ \A c \in Blocks :
              /\ disk'[c] = IF c = Home(p) THEN dlog[tail[p]] ELSE disk[c]
              /\ cache'[c] = IF c = Home(p) THEN dlog[tail[p]] ELSE cache[c]
         /\ sys # "recovering" => Copied /\ Bread(Home(p)) = dlog[tail[p]]
<1>1. /\ pc[p] = "install" /\ InCommit(p) /\ UNCHANGED <<dlog, dhead, lh, sys>>
      /\ dirty' = dirty \ {Home(p)}
  BY Zenon DEF InstallTrans, InCommit, Home
<1>2. /\ tail[p] \in Nat /\ Len(lh) \in Nat /\ tail[p] + 1 \in 1..Len(lh)
      /\ Home(p) \in Blocks
  BY <1>1 DEF LogState, TypeOK, PhaseInv, Home
<1>3. \A c \in Blocks :
        /\ disk'[c] = IF c = Home(p) THEN dlog[tail[p]] ELSE disk[c]
        /\ cache'[c] = IF c = Home(p) THEN dlog[tail[p]] ELSE cache[c]
  BY <1>2 DEF InstallTrans, LogState, TypeOK, Home
<1>4. dlog[tail[p]] \in Vals
  BY <1>2, LogAssumption DEF LogState, TypeOK
<1>5. lh = dhead /\ (sys # "recovering" => Copied)
  BY Zenon, <1>1 DEF AtomInv, CommitInv, CommitAt, Installing
<1>6. Copied => dlog[(tail[p] + 1) - 1] = Bread(Home(p))
  BY Zenon, <1>2 DEF Copied, Home
<1>7. (tail[p] + 1) - 1 = tail[p]
  BY <1>2
<1> QED  BY Zenon, <1>1, <1>2, <1>3, <1>4, <1>5, <1>6, <1>7

\* install_trans brings one more block home.
LEMMA InstallTransAtom ==
  ASSUME LogState, AtomInv, NEW p \in Procs, InstallTrans(p) PROVE AtomInv'
<1> DEFINE t == tail[p]
           b == Home(p)
           v == dlog[tail[p]]
<1>1. /\ pc[p] = "install" /\ InCommit(p) /\ lh = dhead
      /\ t \in Nat /\ Len(lh) \in Nat /\ t + 1 \in 1..Len(lh)
      /\ b \in Blocks /\ v \in Vals /\ v = dlog[t] /\ lh[t + 1] = b
      /\ UNCHANGED <<dlog, dhead, lh, sys>> /\ dirty' = dirty \ {b}
      /\ \A c \in Blocks : /\ disk'[c] = IF c = b THEN v ELSE disk[c]
                           /\ cache'[c] = IF c = b THEN v ELSE cache[c]
      /\ sys # "recovering" => Copied
  BY Zenon, InstallFacts DEF Home
<1>2. HomeInv'
  BY <1>1, LogAssumption DEF HomeInv, AtomInv, LogState, TypeOK
<1>3. /\ \A i \in 1..Len(lh) : lh[i] \in Blocks
      /\ \A i \in 1..Len(lh) : lh[i] = b => i = t + 1
  <2>1. \A i \in 1..Len(lh) : lh[i] \in Blocks
    BY DEF LogState, TypeOK
  <2> QED  BY Zenon, <1>1, <2>1 DEF AtomInv, Distinct
<1>4. /\ \A i \in 1..t : dlog[i - 1] = disk[lh[i]]
      /\ dirty \subseteq {lh[i] : i \in (t + 1)..Len(lh)}
  BY Zenon, <1>1 DEF AtomInv, CommitInv, CommitAt
<1>5. v # NoBuf /\ cache'[b] = v
  BY Zenon, <1>1, LogAssumption
<1>6. \A q \in Procs \ {p} : pc'[q] = pc[q]
  BY DEF InstallTrans, LogState, TypeOK
<1>7. /\ t + 1 < Len(lh) => pc'[p] = "install" /\ tail'[p] = t + 1
      /\ ~(t + 1 < Len(lh)) => pc'[p] = "clear"
  BY <1>1 DEF InstallTrans, LogState, TypeOK
<1> HIDE DEF t, b, v
<1>8. sys # "recovering" => Copied'
  <2> SUFFICES ASSUME Copied, NEW i \in 1..Len(lh)
               PROVE  dlog[i - 1] = IF cache'[lh[i]] = NoBuf THEN disk'[lh[i]] ELSE cache'[lh[i]]
    BY Zenon, <1>1 DEF Copied, Bread
  <2>1. CASE i = t + 1
    <3>1. i - 1 = t /\ lh[i] = b
      BY <1>1, <2>1
    <3> QED  BY Zenon, <1>1, <1>5, <3>1
  <2>2. CASE i # t + 1
    <3>1. lh[i] \in Blocks /\ lh[i] # b
      BY Zenon, <1>3, <2>2
    <3>2. disk'[lh[i]] = disk[lh[i]] /\ cache'[lh[i]] = cache[lh[i]]
      BY Zenon, <1>1, <3>1
    <3> QED  BY Zenon, <3>2 DEF Copied, Bread
  <2> QED  BY Zenon, <2>1, <2>2
<1>9. \A i \in 1..(t + 1) : dlog'[i - 1] = disk'[lh[i]]
  <2>1. \A i \in 1..t : i \in 1..Len(lh) /\ i # t + 1
    BY <1>1
  <2>2. \A i \in 1..(t + 1) : i \in 1..t \/ (i = t + 1 /\ i - 1 = t)
    BY <1>1
  <2>3. \A i \in 1..t : dlog'[i - 1] = disk'[lh[i]]
    BY Zenon, <1>1, <1>3, <1>4, <2>1
  <2>4. dlog'[t] = disk'[lh[t + 1]]
    BY Zenon, <1>1
  <2> QED  BY Zenon, <2>2, <2>3, <2>4
<1>10. dirty' \subseteq {lh[i] : i \in (t + 2)..Len(lh)}
  <2>1. \A i \in (t + 1)..Len(lh) : i = t + 1 \/ i \in (t + 2)..Len(lh)
    BY <1>1
  <2>2. lh[t + 1] = b /\ dirty' = dirty \ {b}
    BY Zenon, <1>1
  <2>3. ASSUME NEW c \in dirty, c # b PROVE c \in {lh[i] : i \in (t + 2)..Len(lh)}
    <3>1. PICK i \in (t + 1)..Len(lh) : c = lh[i]
      BY Zenon, <1>4
    <3>2. i \in (t + 2)..Len(lh)
      BY Zenon, <2>1, <2>2, <2>3, <3>1
    <3> QED  BY Zenon, <3>1, <3>2
  <2> QED  BY Zenon, <2>2, <2>3
<1>11. CommitAt(p)'
  <2>1. CASE t + 1 < Len(lh)
    <3>1. (t + 1) + 1 = t + 2 /\ lh' = lh /\ sys' = sys /\ lh' = dhead'
      BY <1>1
    <3>2. /\ pc'[p] = "install"
          /\ \A i \in 1..tail'[p] : dlog'[i - 1] = disk'[lh'[i]]
          /\ dirty' \subseteq {lh'[i] : i \in (tail'[p] + 1)..Len(lh')}
      BY <1>7, <1>9, <1>10, <2>1, <3>1
    <3> QED  BY Zenon, <1>8, <3>1, <3>2 DEF CommitAt, Installing
  <2>2. CASE ~(t + 1 < Len(lh))
    <3>1. t + 1 = Len(lh) /\ (t + 2)..Len(lh) = {}
      BY <1>1, <2>2
    <3>2. lh' = lh /\ sys' = sys /\ lh' = dhead'
      BY Zenon, <1>1
    <3>3. dirty' = {}
      BY Zenon, <1>10, <3>1
    <3>4. pc'[p] = "clear" /\ \A i \in 1..Len(lh') : dlog'[i - 1] = disk'[lh'[i]]
      BY Zenon, <1>7, <1>9, <2>2, <3>1, <3>2
    <3> QED  BY Zenon, <1>8, <3>2, <3>3, <3>4 DEF CommitAt, Installing
  <2> QED  BY Zenon, <2>1, <2>2
<1>12. CommitInv'
  BY Zenon, <1>1, <1>6, <1>11, CommitStep
<1>13. BeforeInv'
  BY <1>7 DEF BeforeInv, Installing
<1>14. Distinct(lh)' /\ Distinct(dhead)'
  <2>1. lh' = lh /\ dhead' = dhead
    BY Zenon, <1>1
  <2> QED  BY Zenon, <2>1 DEF Distinct, AtomInv
<1> QED  BY Zenon, <1>2, <1>12, <1>13, <1>14 DEF AtomInv

\* The end of a commit or of recovery: every block is home.
LEMMA ClearHeadAtom ==
  ASSUME LogState, AtomInv, NEW p \in Procs, ClearHead(p) PROVE AtomInv'
<1>1. /\ pc[p] = "clear" /\ InCommit(p) /\ lh' = << >> /\ dhead' = << >>
      /\ UNCHANGED <<disk, dlog, cache, dirty, tail>>
  BY Zenon DEF ClearHead, InCommit
<1>2. dirty = {}
  BY Zenon, <1>1 DEF AtomInv, CommitInv, CommitAt
<1>3. pc'[p] \in {"end_commit", "idle"} /\ \A q \in Procs \ {p} : pc'[q] = pc[q]
  BY DEF ClearHead, LogState, TypeOK
<1>4. CommitAt(p)'
  BY <1>3 DEF CommitAt, Installing
<1>5. CommitInv'
  BY Zenon, <1>1, <1>3, <1>4, CommitStep
<1>6. HomeInv'
  BY Zenon, <1>1 DEF AtomInv, HomeInv
<1>7. Distinct(lh)' /\ Distinct(dhead)' /\ BeforeInv'
  BY <1>1, <1>2 DEF Distinct, BeforeInv, Listed
<1> QED  BY Zenon, <1>5, <1>6, <1>7 DEF AtomInv

\* Recovery starts from the header on disk, with nothing cached dirty.
LEMMA ReadHeadAtom ==
  ASSUME LogState, AtomInv, NEW p \in Procs, ReadHead(p) PROVE AtomInv'
<1>1. /\ pc[p] = "read_head" /\ lh' = dhead /\ sys = "recovering"
      /\ UNCHANGED <<disk, dlog, dhead, cache, dirty, tail, sys>>
  BY Zenon DEF ReadHead, LogState, PhaseInv
<1>2. \A q \in Procs : ~Installing(q)
  BY Zenon, <1>1, OneCommitter DEF Installing
<1>3. dirty = Listed(lh) /\ lh = << >> /\ tail[p] = 0
  BY Zenon, <1>1, <1>2 DEF AtomInv, BeforeInv, CommitInv, CommitAt, LogState, PhaseInv
<1>4. dirty = {} /\ 1..tail[p] = {}
  BY <1>3 DEF Listed
<1>5. /\ pc'[p] = IF dhead = << >> THEN "clear" ELSE "install"
      /\ \A q \in Procs \ {p} : pc'[q] = pc[q]
  BY DEF ReadHead, LogState, TypeOK
<1>6. pc'[p] = "clear" => 1..Len(lh') = {}
  BY <1>1, <1>5
<1>7. pc'[p] = "install" \/ pc'[p] = "clear"
  BY Zenon, <1>5
<1>8. CommitAt(p)'
  <2>1. CASE pc'[p] = "install"
    BY Zenon, <1>1, <1>4, <2>1 DEF CommitAt, Installing
  <2>2. CASE pc'[p] = "clear"
    BY Zenon, <1>1, <1>4, <1>6, <2>2 DEF CommitAt, Installing
  <2> QED  BY Zenon, <1>7, <2>1, <2>2
<1>9. CommitInv' /\ Installing(p)'
  BY Zenon, <1>1, <1>5, <1>7, <1>8, CommitStep DEF Installing
<1>10. BeforeInv'
  BY Zenon, <1>9 DEF BeforeInv
<1>11. HomeInv' /\ Distinct(lh)' /\ Distinct(dhead)'
  BY Zenon, <1>1 DEF HomeInv, Distinct, AtomInv
<1> QED  BY Zenon, <1>9, <1>10, <1>11 DEF AtomInv

\* A crash leaves the disk, and no memory that could disagree with it.
LEMMA CrashAtom ==
  ASSUME LogState, AtomInv, NEW p \in Procs, Crash(p) PROVE AtomInv'
<1>1. /\ dirty' = {} /\ lh' = << >> /\ sys' = "recovering" /\ dhead' = dhead
      /\ \A b \in Blocks : cache'[b] = NoBuf
      /\ \A q \in Procs : pc'[q] \in {"read_head", "idle"}
  BY DEF Crash, diskVars
<1>2. HomeInv' /\ Distinct(lh)' /\ BeforeInv'
  BY <1>1 DEF HomeInv, Distinct, BeforeInv, Listed
<1>3. Distinct(dhead)'
  BY Zenon, <1>1 DEF AtomInv, Distinct
<1>4. ASSUME NEW q \in Procs PROVE CommitAt(q)'
  BY <1>1 DEF CommitAt, Installing
<1> QED  BY Zenon, <1>2, <1>3, <1>4 DEF AtomInv, CommitInv

\* AtomInv is preserved by every step.
LEMMA AtomNext == LogState /\ AtomInv /\ [Next]_vars => AtomInv'
<1> SUFFICES ASSUME LogState, AtomInv, [Next]_vars PROVE AtomInv'
  OBVIOUS
<1>1. ASSUME NEW p \in Procs, Step(p) PROVE AtomInv'
  BY Zenon, <1>1, BeginOpAtom, LogWriteCheckAtom, LogWriteAtom, EndOpAtom, WriteLogAtom,
     WriteHeadAtom, InstallTransAtom, ClearHeadAtom, EndCommitAtom, ReadHeadAtom DEF Step
<1>2. CASE UNCHANGED vars
  <2>1. \A p \in Procs : (Installing(p)' <=> Installing(p)) /\ pc'[p] = pc[p] /\ tail'[p] = tail[p]
    BY Zenon, <1>2 DEF vars, Installing
  <2> QED  BY Zenon, <1>2, <2>1, StillAtom DEF vars
<1> QED  BY Zenon, <1>1, <1>2, EvictAtom, CrashAtom DEF Next

-----------------------------------------------------------------------------
(* The steps of the log as steps of AtomicDisk.                            *)

\* What Recovered and Current are, block by block.
Views ==
  /\ Recovered \in [Blocks -> Vals]
  /\ \A i \in 1..Len(dhead) : Recovered[dhead[i]] = dlog[i - 1]
  /\ \A b \in Blocks : b \notin Listed(dhead) => Recovered[b] = disk[b]
  /\ Current \in [Blocks -> Vals]
  /\ sys = "recovering" => Current = Recovered
  /\ sys # "recovering" => \A b \in Blocks : Current[b] = Bread(b)

\* Recovery takes a logged block from its slot, the others from their home.
LEMMA ViewsHold == LogState /\ AtomInv => Views
<1> SUFFICES ASSUME LogState, AtomInv PROVE Views
  OBVIOUS
<1> DEFINE at(b) == CHOOSE i \in 1..Len(dhead) : dhead[i] = b
<1>1. /\ dhead \in Seq(Blocks) /\ Len(dhead) \in Nat /\ Len(dhead) <= LOGSIZE
      /\ dlog \in [0..LOGSIZE-1 -> Vals] /\ disk \in [Blocks -> Vals]
  BY DEF LogState, TypeOK, PhaseInv
<1>2. \A i \in 1..Len(dhead) : dhead[i] \in Blocks /\ dlog[i - 1] \in Vals
  BY <1>1, LogAssumption
<1>3. \A b : (\E i \in 1..Len(dhead) : dhead[i] = b) => at(b) \in 1..Len(dhead) /\ dhead[at(b)] = b
  OBVIOUS
<1>4. \A i \in 1..Len(dhead) : at(dhead[i]) = i
  BY Zenon, <1>3 DEF AtomInv, Distinct
<1>5. Recovered = [b \in Blocks |-> IF \E i \in 1..Len(dhead) : dhead[i] = b
                                    THEN dlog[at(b) - 1] ELSE disk[b]]
  BY Zenon DEF Recovered
<1> HIDE DEF at
<1>6. \A b \in Blocks : Recovered[b] = IF \E i \in 1..Len(dhead) : dhead[i] = b
                                       THEN dlog[at(b) - 1] ELSE disk[b]
  BY Zenon, <1>5
<1>7. \A b \in Blocks : disk[b] \in Vals
  BY Zenon, <1>1
<1>8. \A b \in Blocks : Recovered[b] \in Vals
  BY Zenon, <1>2, <1>3, <1>6, <1>7
<1>9. Recovered \in [Blocks -> Vals]
  BY Zenon, <1>5, <1>8
<1>10. \A i \in 1..Len(dhead) : Recovered[dhead[i]] = dlog[i - 1]
  BY Zenon, <1>2, <1>4, <1>6
<1>11. \A b \in Blocks : b \notin Listed(dhead) => Recovered[b] = disk[b]
  BY Zenon, <1>6 DEF Listed
<1>12. TypeOK /\ HomeInv
  BY Zenon DEF LogState, AtomInv
<1>13. [b \in Blocks |-> Bread(b)] \in [Blocks -> Vals]
  BY Zenon, <1>12, BreadValue
<1> QED  BY Zenon, <1>9, <1>10, <1>11, <1>13 DEF Views, Current

\* Functions on the blocks are equal when they agree on every block.
LEMMA SameBlocks ==
  ASSUME NEW f \in [Blocks -> Vals], NEW g \in [Blocks -> Vals],
         \A b \in Blocks : f[b] = g[b]
  PROVE  f = g
OBVIOUS

AtomSteps == AD!Next \/ UNCHANGED AD!vars

\* A step that changes neither the disk nor what bread returns.
LEMMA ViewsKept ==
  ASSUME UNCHANGED <<disk, dlog, dhead>>, sys' = "recovering" <=> sys = "recovering",
         \A b \in Blocks : Bread(b)' = Bread(b)
  PROVE  Recovered' = Recovered /\ Current' = Current
<1>1. Recovered' = Recovered
  BY Zenon DEF Recovered
<1>2. [b \in Blocks |-> Bread(b)]' = [b \in Blocks |-> Bread(b)]
  BY Zenon
<1> QED  BY Zenon, <1>1, <1>2 DEF Current

\* While disk, log and buffers stand still, so does what AtomicDisk sees of them.
LEMMA CacheKept ==
  ASSUME UNCHANGED <<disk, dlog, dhead, cache>>, sys' = "recovering" <=> sys = "recovering"
  PROVE  Recovered' = Recovered /\ Current' = Current
<1>1. \A b \in Blocks : Bread(b)' = Bread(b)
  BY Zenon DEF Bread
<1> QED  BY Zenon, <1>1, ViewsKept

\* A step that keeps what AtomicDisk sees is one of its stuttering steps.
LEMMA AtomStutters ==
  ASSUME UNCHANGED <<Recovered, Current, outstanding, committing>> PROVE AtomSteps
BY Zenon DEF AtomSteps, AD!vars

\* A panic is seen by AtomicDisk as nothing at all.
LEMMA PanicMaps == ASSUME Panic, sys # "recovering" PROVE AtomSteps
<1>1. Recovered' = Recovered /\ Current' = Current
  BY Zenon, CacheKept DEF Panic
<1> QED  BY Zenon, <1>1, AtomStutters DEF Panic

\* begin_op begins a call, or sleeps.
LEMMA BeginOpMaps ==
  ASSUME LogState, NEW p \in Procs, BeginOp(p) PROVE AtomSteps
<1>1. Recovered' = Recovered /\ Current' = Current /\ committing' = committing
  BY Zenon, CacheKept DEF BeginOp
<1>2. CASE MustWait
  BY Zenon, <1>1, <1>2, AtomStutters DEF BeginOp
<1>3. CASE ~MustWait
  <2>1. ~(committing = 1) /\ outstanding' = outstanding + 1
    BY Zenon, <1>3 DEF BeginOp, MustWait
  <2>2. AD!Begin
    BY Zenon, <1>1, <2>1 DEF AD!Begin
  <2> QED  BY Zenon, <2>2 DEF AtomSteps, AD!Next
<1> QED  BY Zenon, <1>2, <1>3

\* end_op ends a call; the last one starts to commit.
LEMMA EndOpMaps ==
  ASSUME LogState, NEW p \in Procs, EndOp(p) PROVE AtomSteps
<1>1. pc[p] = "op" /\ sys # "recovering" /\ outstanding > 0
  BY Zenon, CallsAlone DEF EndOp, LogState
<1>2. CASE committing = 1
  BY Zenon, <1>1, <1>2, PanicMaps DEF EndOp
<1>3. CASE committing # 1
  <2>1. /\ UNCHANGED <<disk, dlog, dhead, cache, sys>> /\ outstanding' = outstanding - 1
        /\ committing' = IF outstanding = 1 THEN 1 ELSE committing
    BY Zenon, <1>3 DEF EndOp
  <2>2. Recovered' = Recovered /\ Current' = Current
    BY Zenon, <2>1, CacheKept
  <2>3. (committing' = 1) = (outstanding = 1)
    BY Zenon, <1>3, <2>1
  <2>4. AD!End
    BY Zenon, <1>1, <2>1, <2>2, <2>3 DEF AD!End
  <2> QED  BY Zenon, <2>4 DEF AtomSteps, AD!Next
<1> QED  BY Zenon, <1>2, <1>3

\* log_write tests, reads a block into its buffer, or panics.
LEMMA LogWriteCheckMaps ==
  ASSUME LogState, AtomInv, NEW p \in Procs, NEW b \in Blocks, LogWriteCheck(p, b)
  PROVE  AtomSteps
<1>1. pc[p] = "op" /\ sys # "recovering"
  BY Zenon, CallsAlone DEF LogWriteCheck
<1>2. CASE Panic
  BY Zenon, <1>1, <1>2, PanicMaps
<1>3. CASE ~Panic
  <2>1. /\ UNCHANGED <<disk, dlog, dhead, sys, outstanding, committing>>
        /\ cache' = [cache EXCEPT ![b] = Bread(b)]
    BY Zenon, <1>3 DEF LogWriteCheck
  <2>2. TypeOK /\ HomeInv /\ Bread(b) \in Vals
    BY Zenon, BreadValue DEF LogState, AtomInv
  <2>3. \A c \in Blocks : cache'[c] = IF c = b THEN Bread(b) ELSE cache[c]
    BY <2>1, <2>2 DEF TypeOK
  <2>4. \A c \in Blocks : Bread(c)' = Bread(c)
    BY <2>1, <2>2, <2>3, LogAssumption DEF Bread
  <2>5. Recovered' = Recovered /\ Current' = Current
    BY Zenon, <2>1, <2>4, ViewsKept
  <2> QED  BY Zenon, <2>1, <2>5, AtomStutters
<1> QED  BY Zenon, <1>2, <1>3

\* Recycling a clean buffer.
LEMMA EvictMaps ==
  ASSUME LogState, AtomInv, NEW b \in Blocks, Evict(b) PROVE AtomSteps
<1>1. UNCHANGED <<disk, dlog, dhead, dirty, sys, outstanding, committing>> /\ b \notin dirty
  BY Zenon DEF Evict, Pinned
<1>2. \A c \in Blocks : cache'[c] = IF c = b THEN NoBuf ELSE cache[c]
  BY DEF Evict, LogState, TypeOK
<1>3. HomeInv
  BY Zenon DEF AtomInv
<1>4. \A c \in Blocks : Bread(c)' = Bread(c)
  BY <1>1, <1>2, <1>3 DEF HomeInv, Bread
<1>5. Recovered' = Recovered /\ Current' = Current
  BY Zenon, <1>1, <1>4, ViewsKept
<1> QED  BY Zenon, <1>1, <1>5, AtomStutters

\* log_write changes what calls read of one block, and nothing durable.
LEMMA LogWriteMaps ==
  ASSUME LogState, AtomInv, Views, Views', NEW p \in Procs, NEW v \in Vals, LogWrite(p, v)
  PROVE  AtomSteps
<1> DEFINE b == held[p]
<1>1. pc[p] = "log_write" /\ UNCHANGED <<disk, dlog, dhead, sys, outstanding, committing>>
  BY Zenon DEF LogWrite
<1>2. b \in Blocks /\ sys # "recovering" /\ outstanding > 0
  BY Zenon, <1>1, CallsAlone DEF LogState
<1>3. \A c \in Blocks : cache'[c] = IF c = b THEN v ELSE cache[c]
  BY <1>2 DEF LogWrite, LogState, TypeOK
<1> HIDE DEF b
<1>4. \A c \in Blocks : Bread(c)' = IF c = b THEN v ELSE Bread(c)
  BY <1>1, <1>2, <1>3, LogAssumption DEF Bread
<1>5. /\ Current \in [Blocks -> Vals] /\ Current' \in [Blocks -> Vals]
      /\ \A c \in Blocks : Current[c] = Bread(c) /\ Current'[c] = Bread(c)'
  BY Zenon, <1>1, <1>2 DEF Views
<1>6. \A c \in Blocks : Current'[c] = IF c = b THEN v ELSE Current[c]
  BY Zenon, <1>4, <1>5
<1>7. Current' = [Current EXCEPT ![b] = v]
  BY <1>2, <1>5, <1>6
<1>8. Recovered' = Recovered
  BY Zenon, <1>1 DEF Recovered
<1>9. AD!Write
  BY Zenon, <1>1, <1>2, <1>7, <1>8 DEF AD!Write
<1> QED  BY Zenon, <1>9 DEF AtomSteps, AD!Next

\* write_log writes to the log area, which the empty header does not name.
LEMMA WriteLogMaps ==
  ASSUME LogState, AtomInv, Views, Views', NEW p \in Procs, WriteLog(p) PROVE AtomSteps
<1>1. sys # "recovering" /\ dhead = << >>
  BY Zenon, BeforeCommit DEF WriteLog
<1>2. CASE Panic
  BY Zenon, <1>1, <1>2, PanicMaps
<1>3. CASE ~Panic
  <2>1. UNCHANGED <<disk, dhead, cache, sys, outstanding, committing>>
    BY Zenon, <1>3 DEF WriteLog
  <2>2. Listed(dhead) = {} /\ Listed(dhead)' = {}
    BY <1>1, <2>1 DEF Listed
  <2>3. \A b \in Blocks : Recovered[b] = disk[b] /\ Recovered'[b] = disk[b]
    BY Zenon, <2>1, <2>2 DEF Views
  <2>4. Recovered' = Recovered
    <3>1. Recovered \in [Blocks -> Vals] /\ Recovered' \in [Blocks -> Vals]
      BY Zenon DEF Views
    <3> QED  BY Zenon, <2>3, <3>1, SameBlocks
  <2>5. Current' = Current
    BY Zenon, <1>1, <2>1 DEF Current, Bread
  <2> QED  BY Zenon, <2>1, <2>4, <2>5, AtomStutters
<1> QED  BY Zenon, <1>2, <1>3

\* write_head is the commit point: all that calls read becomes durable at once.
LEMMA WriteHeadMaps ==
  ASSUME LogState, AtomInv, Views, Views', NEW p \in Procs, WriteHead(p) PROVE AtomSteps
<1>1. /\ pc[p] = "write_head" /\ dhead' = lh
      /\ UNCHANGED <<disk, dlog, cache, sys, outstanding, committing>>
  BY Zenon DEF WriteHead
<1>2. /\ sys # "recovering" /\ dirty = Listed(lh) /\ committing = 1
      /\ Copied /\ TypeOK /\ HomeInv
  BY Zenon, <1>1, BeforeCommit DEF LogState, PhaseInv, AtomInv, CommitInv, CommitAt
<1>3. ASSUME NEW b \in Blocks PROVE Recovered'[b] = Bread(b)
  <2>1. CASE b \in Listed(lh)
    <3>1. PICK i \in 1..Len(lh) : b = lh[i]
      BY Zenon, <2>1 DEF Listed
    <3> QED  BY Zenon, <1>1, <1>2, <3>1 DEF Views, Copied
  <2>2. CASE b \notin Listed(lh)
    <3>1. Bread(b) = disk[b]
      BY Zenon, <1>2, <2>2, BreadValue
    <3>2. b \notin Listed(dhead)'
      BY Zenon, <1>1, <2>2 DEF Listed
    <3> QED  BY Zenon, <1>1, <3>1, <3>2 DEF Views
  <2> QED  BY Zenon, <2>1, <2>2
<1>4. Current' = Current
  BY Zenon, <1>1, <1>2 DEF Current, Bread
<1>5. Recovered' = Current
  <2>1. /\ Recovered' \in [Blocks -> Vals] /\ Current \in [Blocks -> Vals]
        /\ \A b \in Blocks : Current[b] = Bread(b)
    BY Zenon, <1>2 DEF Views
  <2> QED  BY Zenon, <1>3, <2>1, SameBlocks
<1>6. AD!Commit
  BY Zenon, <1>1, <1>2, <1>4, <1>5 DEF AD!Commit
<1> QED  BY Zenon, <1>6 DEF AtomSteps, AD!Next

\* install_trans writes home what recovery would take from the log.
LEMMA InstallTransMaps ==
  ASSUME LogState, AtomInv, Views, Views', NEW p \in Procs, InstallTrans(p)
  PROVE  AtomSteps
<1> DEFINE b == Home(p)
<1>1. /\ lh = dhead /\ tail[p] + 1 \in 1..Len(lh) /\ b = lh[tail[p] + 1]
      /\ b \in Blocks /\ dlog[tail[p]] \in Vals
      /\ UNCHANGED <<dlog, dhead, sys>>
      /\ \A c \in Blocks : /\ disk'[c] = IF c = b THEN dlog[tail[p]] ELSE disk[c]
                           /\ cache'[c] = IF c = b THEN dlog[tail[p]] ELSE cache[c]
      /\ sys # "recovering" => Bread(b) = dlog[tail[p]]
  BY Zenon, InstallFacts DEF Home
<1>2. UNCHANGED <<outstanding, committing>>
  BY Zenon DEF InstallTrans
<1> HIDE DEF b
<1>3. ASSUME NEW c \in Blocks PROVE Recovered'[c] = Recovered[c]
  <2>1. CASE c \in Listed(dhead)
    <3>1. PICK i \in 1..Len(dhead) : c = dhead[i]
      BY Zenon, <2>1 DEF Listed
    <3>2. Recovered[dhead[i]] = dlog[i - 1] /\ Recovered'[dhead'[i]] = dlog'[i - 1]
      BY Zenon, <1>1 DEF Views
    <3> QED  BY Zenon, <1>1, <3>1, <3>2
  <2>2. CASE c \notin Listed(dhead)
    <3>1. c # b /\ c \notin Listed(dhead)'
      BY Zenon, <1>1, <2>2 DEF Listed
    <3>2. disk'[c] = disk[c]
      BY Zenon, <1>1, <3>1
    <3> QED  BY Zenon, <2>2, <3>1, <3>2 DEF Views
  <2> QED  BY Zenon, <2>1, <2>2
<1>4. Recovered' = Recovered
  BY Zenon, <1>3, SameBlocks DEF Views
<1>5. Current' = Current
  <2>1. CASE sys = "recovering"
    BY Zenon, <1>1, <1>4, <2>1 DEF Views
  <2>2. CASE sys # "recovering"
    <3>1. dlog[tail[p]] # NoBuf
      BY Zenon, <1>1, LogAssumption
    <3>2. \A c \in Blocks : Bread(c)' = Bread(c)
      BY <1>1, <2>2, <3>1 DEF Bread
    <3>3. /\ Current \in [Blocks -> Vals] /\ Current' \in [Blocks -> Vals]
          /\ \A c \in Blocks : Current[c] = Bread(c) /\ Current'[c] = Bread(c)'
      BY Zenon, <1>1, <2>2 DEF Views
    <3>4. \A c \in Blocks : Current'[c] = Current[c]
      BY Zenon, <3>2, <3>3
    <3> QED  BY Zenon, <3>3, <3>4, SameBlocks
  <2> QED  BY Zenon, <2>1, <2>2
<1> QED  BY Zenon, <1>2, <1>4, <1>5, AtomStutters

\* Clearing the header gives up a log whose blocks are all home.
LEMMA ClearHeadMaps ==
  ASSUME LogState, AtomInv, Views, Views', NEW p \in Procs, ClearHead(p) PROVE AtomSteps
<1>1. /\ pc[p] = "clear" /\ dhead' = << >> /\ sys' = "running"
      /\ UNCHANGED <<disk, dlog, cache, outstanding, committing>>
  BY Zenon DEF ClearHead
<1>2. /\ dirty = {} /\ lh = dhead /\ TypeOK /\ HomeInv
      /\ \A i \in 1..Len(lh) : dlog[i - 1] = disk[lh[i]]
  BY Zenon, <1>1 DEF AtomInv, LogState, CommitInv, CommitAt, Installing
<1>3. Listed(dhead)' = {}
  BY <1>1 DEF Listed
<1>4. \A b \in Blocks : Recovered[b] = disk[b]
  <2>1. /\ \A i \in 1..Len(dhead) : Recovered[dhead[i]] = dlog[i - 1]
        /\ \A b \in Blocks : b \notin Listed(dhead) => Recovered[b] = disk[b]
    BY Zenon DEF Views
  <2>2. \A i \in 1..Len(dhead) : dlog[i - 1] = disk[dhead[i]]
    BY Zenon, <1>2
  <2>3. ASSUME NEW i \in 1..Len(dhead) PROVE Recovered[dhead[i]] = disk[dhead[i]]
    <3>1. Recovered[dhead[i]] = dlog[i - 1] /\ dlog[i - 1] = disk[dhead[i]]
      BY Zenon, <2>1, <2>2
    <3> QED  BY Zenon, <3>1
  <2> QED  BY Zenon, <2>1, <2>3 DEF Listed
<1>5. Recovered' = Recovered
  <2>1. /\ Recovered \in [Blocks -> Vals] /\ Recovered' \in [Blocks -> Vals]
        /\ \A b \in Blocks : Recovered'[b] = disk[b]
    BY Zenon, <1>1, <1>3 DEF Views
  <2> QED  BY Zenon, <1>4, <2>1, SameBlocks
<1>6. \A b \in Blocks : Bread(b) = disk[b] /\ Bread(b)' = disk[b]
  <2>1. \A b \in Blocks : Bread(b) = disk[b]
    BY Zenon, <1>2, BreadValue
  <2> QED  BY Zenon, <1>1, <2>1 DEF Bread
<1>7. sys' # "recovering"
  BY <1>1
<1>8. \A b \in Blocks : Current'[b] = disk[b] /\ Current[b] = disk[b]
  BY Zenon, <1>4, <1>6, <1>7 DEF Views
<1>9. Current' = Current
  <2>1. Current \in [Blocks -> Vals] /\ Current' \in [Blocks -> Vals]
    BY Zenon DEF Views
  <2> QED  BY Zenon, <1>8, <2>1, SameBlocks
<1> QED  BY Zenon, <1>1, <1>5, <1>9, AtomStutters

\* The committing end_op returns with every update durable.
LEMMA EndCommitMaps ==
  ASSUME LogState, AtomInv, Views, NEW p \in Procs, EndCommit(p) PROVE AtomSteps
<1>1. /\ pc[p] = "end_commit" /\ committing = 1 /\ lh = << >> /\ committing' = 0
      /\ UNCHANGED <<disk, dlog, dhead, cache, sys, outstanding>>
  BY Zenon DEF EndCommit, LogState, PhaseInv
<1>2. sys # "recovering" /\ dirty = Listed(lh) /\ dhead = << >> /\ TypeOK /\ HomeInv
  BY Zenon, <1>1, BeforeCommit DEF LogState, AtomInv
<1>3. dirty = {} /\ Listed(dhead) = {} /\ ~(committing' = 1)
  BY <1>1, <1>2 DEF Listed
<1>4. \A b \in Blocks : Recovered[b] = Current[b]
  BY Zenon, <1>2, <1>3, BreadValue DEF Views
<1>5. Recovered = Current
  BY Zenon, <1>4, SameBlocks DEF Views
<1>6. Recovered' = Recovered /\ Current' = Current
  BY Zenon, <1>1, CacheKept
<1>7. AD!Return
  BY Zenon, <1>1, <1>3, <1>5, <1>6 DEF AD!Return
<1> QED  BY Zenon, <1>7 DEF AtomSteps, AD!Next

\* read_head only reads.
LEMMA ReadHeadMaps == ASSUME NEW p \in Procs, ReadHead(p) PROVE AtomSteps
<1>1. Recovered' = Recovered /\ Current' = Current
  BY Zenon, CacheKept DEF ReadHead
<1> QED  BY Zenon, <1>1, AtomStutters DEF ReadHead

\* A crash goes back to the last commit.
LEMMA CrashMaps == ASSUME NEW p \in Procs, Crash(p) PROVE AtomSteps
<1>1. /\ UNCHANGED <<disk, dlog, dhead>> /\ sys' = "recovering"
      /\ outstanding' = 0 /\ committing' = 0
  BY Zenon DEF Crash, diskVars
<1>2. Recovered' = Recovered
  BY Zenon, <1>1 DEF Recovered
<1>3. Current' = Recovered
  BY Zenon, <1>1, <1>2 DEF Current
<1>4. ~(committing' = 1)
  BY <1>1
<1>5. AD!Crash
  BY Zenon, <1>1, <1>2, <1>3, <1>4 DEF AD!Crash
<1> QED  BY Zenon, <1>5 DEF AtomSteps, AD!Next

\* Every step of the log is a step of AtomicDisk or changes nothing of it.
LEMMA AtomMaps ==
  LogState /\ AtomInv /\ Views /\ Views' /\ [Next]_vars => [AD!Next]_(AD!vars)
<1> SUFFICES ASSUME LogState, AtomInv, Views, Views', [Next]_vars PROVE AtomSteps
  BY Zenon DEF AtomSteps
<1>1. ASSUME NEW p \in Procs, Step(p) PROVE AtomSteps
  BY Zenon, <1>1, BeginOpMaps, LogWriteCheckMaps, LogWriteMaps, EndOpMaps, WriteLogMaps,
     WriteHeadMaps, InstallTransMaps, ClearHeadMaps, EndCommitMaps, ReadHeadMaps DEF Step
<1>2. CASE UNCHANGED vars
  BY Zenon, <1>2, CacheKept, AtomStutters DEF vars
<1> QED  BY Zenon, <1>1, <1>2, EvictMaps, CrashMaps DEF Next

\* After boot nothing is logged: both views are the disk.
LEMMA AtomInit == Init /\ LogState /\ AtomInv => AD!Init
<1> SUFFICES ASSUME Init, Views PROVE AD!Init
  BY Zenon, ViewsHold
<1>1. Listed(dhead) = {} /\ sys # "recovering" /\ ~(committing = 1)
  BY DEF Init, Listed
<1>2. \A b \in Blocks : Bread(b) = disk[b]
  BY DEF Init, Bread
<1>3. Current = Recovered
  BY Zenon, <1>1, <1>2, SameBlocks DEF Views
<1> QED  BY Zenon, <1>1, <1>3 DEF Views, AD!Init, Init
=============================================================================
