---------------------------- MODULE Xv6LogProofs ----------------------------
(***************************************************************************)
(* Proofs about Xv6Log for every number of processes, blocks and sizes.    *)
(***************************************************************************)
EXTENDS Xv6LogDataProofs, FiniteSetTheorems, TLAPS

\* Calls between begin_op and end_op.
Active == {p \in Procs : pc[p] \in {"op", "log_write"}}

\* Log slots the active calls have reserved and not yet used, one pair each.
Tokens == {t \in Procs \X (1..MAXOPBLOCKS) :
             t[1] \in Active /\ t[2] > Cardinality(wrote[t[1]])}

\* log.outstanding counts the active calls.
CountInv == outstanding = Cardinality(Active)

\* What a call has logged is in the log, and stays within its reservation.
WroteInv ==
  \A p \in Procs :
    /\ p \in Active => /\ \A b \in wrote[p] : InLog(b)
                       /\ Cardinality(wrote[p]) <= OpBlocks
    /\ pc[p] = "log_write" => /\ held[p] \in Blocks
                              /\ Cardinality(wrote[p] \cup {held[p]}) <= OpBlocks

\* The log and the unused reservations fit together.
ReserveInv == Len(lh) + Cardinality(Tokens) <= LOGSIZE

\* Outside a commit a log with entries belongs to active calls.
SleepInv ==
  /\ sys # "recovering" /\ committing = 0 /\ Active = {} => lh = << >>
  /\ NoLostWakeup

IndInv == TypeOK /\ CountInv /\ WroteInv /\ ReserveInv /\ PhaseInv /\ SleepInv

-----------------------------------------------------------------------------
\* Cardinality facts about the sets the reservation argument counts.
LEMMA Finiteness ==
  ASSUME TypeOK
  PROVE  /\ IsFiniteSet(Active) /\ Cardinality(Active) \in Nat
         /\ IsFiniteSet(Tokens) /\ Cardinality(Tokens) \in Nat
         /\ \A S \in SUBSET Blocks : IsFiniteSet(S) /\ Cardinality(S) \in Nat
<1>1. IsFiniteSet(1..MAXOPBLOCKS)
  BY FS_Interval, LogAssumption
<1>2. IsFiniteSet(Procs \X (1..MAXOPBLOCKS))
  BY SMTT(30), <1>1, FS_Product, LogAssumption
<1>3. Active \subseteq Procs /\ Tokens \subseteq Procs \X (1..MAXOPBLOCKS)
  BY Zenon DEF Active, Tokens
<1>4. IsFiniteSet(Active) /\ IsFiniteSet(Tokens)
  BY Zenon, <1>2, <1>3, FS_Subset, LogAssumption
<1>5. \A S \in SUBSET Blocks : IsFiniteSet(S)
  BY Zenon, FS_Subset, LogAssumption
<1> QED  BY Zenon, <1>4, <1>5, FS_CardinalityType

\* Unused reservations are at most MAXOPBLOCKS per active call.
LEMMA TokensBound ==
  ASSUME NEW A \in SUBSET Procs, NEW T \in SUBSET (A \X (1..MAXOPBLOCKS))
  PROVE  /\ Cardinality(A) \in Nat /\ IsFiniteSet(T) /\ Cardinality(T) \in Nat
         /\ Cardinality(T) <= Cardinality(A) * MAXOPBLOCKS
<1>1. IsFiniteSet(1..MAXOPBLOCKS) /\ Cardinality(1..MAXOPBLOCKS) = MAXOPBLOCKS
  BY FS_Interval, LogAssumption
<1>2. IsFiniteSet(A)
  BY Zenon, FS_Subset, LogAssumption
<1>3. /\ IsFiniteSet(A \X (1..MAXOPBLOCKS))
      /\ Cardinality(A \X (1..MAXOPBLOCKS)) = Cardinality(A) * MAXOPBLOCKS
  BY Zenon, <1>1, <1>2, FS_Product
<1>4. IsFiniteSet(T) /\ Cardinality(T) <= Cardinality(A) * MAXOPBLOCKS
  BY Zenon, <1>3, FS_Subset
<1> QED  BY Zenon, <1>2, <1>4, FS_CardinalityType

\* A larger set of logged blocks leaves fewer reservations.
LEMMA WroteGrows ==
  ASSUME NEW S \in SUBSET Blocks, NEW b \in Blocks
  PROVE  /\ IsFiniteSet(S) /\ Cardinality(S) \in Nat
         /\ Cardinality(S \cup {b}) = IF b \in S THEN Cardinality(S)
                                                ELSE Cardinality(S) + 1
         /\ Cardinality(S \cup {b}) \in Nat
<1>1. IsFiniteSet(S)
  BY Zenon, FS_Subset, LogAssumption
<1> QED  BY Zenon, <1>1, FS_AddElement, FS_CardinalityType

-----------------------------------------------------------------------------
\* The initial state of log.c satisfies the inductive invariant.
THEOREM InitInd == Init => IndInv
<1> SUFFICES ASSUME Init PROVE IndInv
  OBVIOUS
<1>1. TypeOK
  BY LogAssumption DEF Init, TypeOK, PCs
<1>2. Active = {} /\ Tokens = {}
  BY Zenon DEF Init, Active, Tokens
<1>3. Cardinality(Active) = 0 /\ Cardinality(Tokens) = 0
  BY Zenon, <1>2, FS_EmptySet
<1>4. CountInv /\ ReserveInv
  BY <1>3, LogAssumption DEF Init, CountInv, ReserveInv
<1>5. WroteInv
  BY Zenon, <1>2 DEF Init, WroteInv
<1>6. PhaseInv
  BY LogAssumption DEF Init, PhaseInv, InCommit
<1>7. SleepInv
  BY Zenon DEF Init, SleepInv, NoLostWakeup
<1> QED  BY Zenon, <1>1, <1>4, <1>5, <1>6, <1>7 DEF IndInv

\* Every step keeps the types.
LEMMA TypeStep ==
  ASSUME IndInv, [Next]_vars
  PROVE  TypeOK'
<1> USE LogAssumption DEF IndInv, TypeOK, PCs
<1>1. ASSUME NEW p \in Procs, BeginOp(p) PROVE TypeOK'
  <2>1. CASE MustWait
    BY Zenon, <1>1, <2>1 DEF BeginOp
  <2>2. CASE ~MustWait
    <3>1. pc' \in [Procs -> PCs]
      BY ZenonT(60), <1>1, <2>2 DEF BeginOp
    <3>2. wrote' \in [Procs -> SUBSET Blocks]
      BY Zenon, <1>1, <2>2 DEF BeginOp
    <3>3. outstanding' \in Nat
      BY <1>1, <2>2 DEF BeginOp
    <3> QED  BY Zenon, <1>1, <3>1, <3>2, <3>3 DEF BeginOp
  <2> QED  BY SMTT(60), <2>1, <2>2
<1>2. ASSUME NEW p \in Procs, NEW b \in Blocks, LogWriteCheck(p, b) PROVE TypeOK'
  <2>1. CASE Panic
    BY Zenon, <2>1 DEF Panic
  <2>2. CASE ~Panic
    <3>1. Bread(b) \in Vals
      BY Zenon DEF Bread
    <3>2. TypeOK'
      <4>1. pc' \in [Procs -> PCs]
        BY Zenon, <1>2, <2>2, <3>1 DEF LogWriteCheck
      <4>2. held' \in [Procs -> Blocks \cup {NoBlock}]
        BY ZenonT(60), <1>2, <2>2, <3>1 DEF LogWriteCheck
      <4>3. cache' \in [Blocks -> Vals \cup {NoBuf}]
        BY Zenon, <1>2, <2>2, <3>1 DEF LogWriteCheck
      <4> QED  BY Zenon, <4>1, <4>2, <4>3, <1>2, <2>2, <3>1 DEF LogWriteCheck
    <3> QED  BY Zenon, <3>2
  <2> QED  BY Zenon, <2>1, <2>2
<1>3. ASSUME NEW p \in Procs, NEW v \in Vals, LogWrite(p, v) PROVE TypeOK'
  <2>1. held[p] \in Blocks
    BY Zenon, <1>3 DEF LogWrite, WroteInv
  <2> QED  BY <1>3, <2>1 DEF LogWrite
<1>4. ASSUME NEW p \in Procs, EndOp(p) PROVE TypeOK'
  <2>1. p \in Active /\ IsFiniteSet(Active)
    BY Zenon, <1>4, Finiteness DEF EndOp, Active
  <2>2. outstanding # 0
    BY Zenon, <2>1, FS_EmptySet DEF CountInv
  <2>3. CASE Panic
    BY Zenon, <2>3 DEF Panic
  <2>4. CASE outstanding = 1 /\ ~Panic
    <3>4. pc' = [pc EXCEPT ![p] = CommitEntry] /\ tail' = [tail EXCEPT ![p] = 0]
      BY Zenon, <1>4, <2>4 DEF EndOp
    <3>5. CommitEntry \in PCs
      BY Zenon DEF CommitEntry
    <3>1. pc' \in [Procs -> PCs]
      BY Zenon, <3>4, <3>5
    <3>2. tail' \in [Procs -> Nat]
      BY Zenon, <3>4
    <3>3. wrote' \in [Procs -> SUBSET Blocks]
      BY Zenon, <1>4, <2>2, <2>4 DEF EndOp
    <3> QED  BY <3>1, <3>2, <3>3, <1>4, <2>2, <2>4 DEF EndOp
  <2>5. CASE outstanding # 1 /\ ~Panic
    <3>1. pc' \in [Procs -> PCs]
      BY <1>4, <2>2, <2>5 DEF EndOp, WakeupLog
    <3>2. tail' \in [Procs -> Nat]
      BY <1>4, <2>2, <2>5 DEF EndOp, WakeupLog
    <3>3. wrote' \in [Procs -> SUBSET Blocks]
      BY Zenon, <1>4, <2>2, <2>5 DEF EndOp, WakeupLog
    <3> QED  BY <3>1, <3>2, <3>3, <1>4, <2>2, <2>5 DEF EndOp, WakeupLog
  <2> QED  BY SMTT(60), <2>3, <2>4, <2>5
<1>5. ASSUME NEW p \in Procs, WriteLog(p) PROVE TypeOK'
  <2>1. tail[p] + 1 \in 1..Len(lh)
    BY <1>5 DEF WriteLog, PhaseInv
  <2>2. Bread(lh[tail[p] + 1]) \in Vals
    BY <2>1 DEF Bread
  <2>3. CASE Panic
    BY Zenon, <2>3 DEF Panic
  <2>4. CASE tail[p] + 1 < Len(lh) /\ ~Panic
    <3>1. dlog' \in [0..LOGSIZE-1 -> Vals]
      BY Zenon, <1>5, <2>2, <2>4 DEF WriteLog
    <3>2. tail' \in [Procs -> Nat]
      BY <1>5, <2>2, <2>4 DEF WriteLog
    <3> QED  BY Zenon, <3>1, <3>2, <1>5, <2>2, <2>4 DEF WriteLog
  <2>5. CASE ~(tail[p] + 1 < Len(lh)) /\ ~Panic
    <3>1. dlog' \in [0..LOGSIZE-1 -> Vals]
      BY Zenon, <1>5, <2>2, <2>5 DEF WriteLog
    <3>2. tail' \in [Procs -> Nat]
      BY <1>5, <2>2, <2>5 DEF WriteLog
    <3>3. pc' \in [Procs -> PCs]
      BY Zenon, <1>5, <2>2, <2>5 DEF WriteLog
    <3> QED  BY Zenon, <3>1, <3>2, <3>3, <1>5, <2>2, <2>5 DEF WriteLog
  <2> QED  BY Zenon, <2>3, <2>4, <2>5
<1>6. ASSUME NEW p \in Procs, WriteHead(p) PROVE TypeOK'
  BY Zenon, <1>6 DEF WriteHead
<1>7. ASSUME NEW p \in Procs, InstallTrans(p) PROVE TypeOK'
  <2>1. tail[p] + 1 \in 1..Len(lh)
    BY <1>7 DEF InstallTrans, PhaseInv
  <2>2. Len(lh) <= LOGSIZE
    BY Finiteness DEF ReserveInv
  <2>3. lh[tail[p] + 1] \in Blocks /\ dlog[tail[p]] \in Vals
    BY <2>1, <2>2
  <2>4. /\ disk' = [disk EXCEPT ![lh[tail[p] + 1]] = dlog[tail[p]]]
        /\ cache' = [cache EXCEPT ![lh[tail[p] + 1]] = dlog[tail[p]]]
        /\ dirty' = dirty \ {lh[tail[p] + 1]}
        /\ tail' = [tail EXCEPT ![p] = @ + 1] \/ tail' = [tail EXCEPT ![p] = 0]
        /\ pc' = pc \/ pc' = [pc EXCEPT ![p] = "clear"]
        /\ UNCHANGED <<dlog, dhead, lh, outstanding, committing, wrote, held, sys>>
    BY Zenon, <1>7 DEF InstallTrans
  <2>5. disk' \in [Blocks -> Vals]
    BY Zenon, <2>3, <2>4
  <2>6. cache' \in [Blocks -> Vals \cup {NoBuf}] /\ dirty' \in SUBSET Blocks
    BY Zenon, <2>3, <2>4
  <2>7. tail' \in [Procs -> Nat]
    BY <2>4
  <2>8. pc' \in [Procs -> PCs]
    BY Zenon, <2>4
  <2> QED  BY Zenon, <2>4, <2>5, <2>6, <2>7, <2>8
<1>8. ASSUME NEW p \in Procs, ClearHead(p) PROVE TypeOK'
  BY <1>8 DEF ClearHead
<1>9. ASSUME NEW p \in Procs, EndCommit(p) PROVE TypeOK'
  BY Zenon, <1>9 DEF EndCommit, WakeupLog
<1>10. ASSUME NEW p \in Procs, ReadHead(p) PROVE TypeOK'
  BY Zenon, <1>10 DEF ReadHead
<1>11. ASSUME NEW b \in Blocks, Evict(b) PROVE TypeOK'
  BY Zenon, <1>11 DEF Evict
<1>12. ASSUME NEW p \in Procs, Crash(p) PROVE TypeOK'
  BY <1>12 DEF Crash, diskVars
<1>13. CASE UNCHANGED vars
  BY Zenon, <1>13 DEF vars
<1> QED
  BY Zenon, <1>1, <1>2, <1>3, <1>4, <1>5, <1>6, <1>7, <1>8, <1>9, <1>10, <1>11, <1>12,
     <1>13 DEF Next, Step

-----------------------------------------------------------------------------
\* Steps that leave the log, the calls and what they logged alone.
LEMMA Frame ==
  ASSUME IndInv, Active' = Active, wrote' = wrote, lh' = lh, held' = held,
         outstanding' = outstanding,
         \A p \in Procs : pc'[p] = "log_write" => pc[p] = "log_write"
  PROVE  CountInv' /\ WroteInv' /\ ReserveInv'
<1>1. CountInv'
  BY Zenon DEF IndInv, CountInv
<1>2. WroteInv'
  BY Zenon DEF IndInv, WroteInv, InLog
<1>3. Tokens' = Tokens
  BY Zenon DEF Tokens
<1> QED  BY Zenon, <1>1, <1>2, <1>3 DEF IndInv, ReserveInv

\* Fewer reservations and no longer a log keep the reservation invariant.
LEMMA Shrink ==
  ASSUME IndInv, TypeOK', Tokens' \subseteq Tokens, Len(lh') <= Len(lh)
  PROVE  ReserveInv'
<1>1. Cardinality(Tokens') <= Cardinality(Tokens)
  BY Zenon, Finiteness, FS_Subset DEF IndInv
<1>2. Cardinality(Tokens) \in Nat /\ Cardinality(Tokens') \in Nat
  <2>1. IsFiniteSet(Tokens')
    BY Zenon, Finiteness, FS_Subset DEF IndInv
  <2> QED  BY Zenon, <2>1, Finiteness, FS_CardinalityType DEF IndInv
<1>3. Len(lh) \in Nat /\ Len(lh') \in Nat
  BY DEF IndInv, TypeOK
<1> QED  BY <1>1, <1>2, <1>3, LogAssumption DEF IndInv, ReserveInv

\* A step without active calls, now and afterwards.
LEMMA NoCalls ==
  ASSUME TypeOK', Active' = {}, outstanding' = 0, Len(lh') <= LOGSIZE
  PROVE  CountInv' /\ WroteInv' /\ ReserveInv'
<1>1. Tokens' = {}
  BY Zenon DEF Tokens
<1>2. Cardinality(Active') = 0 /\ Cardinality(Tokens') = 0
  BY Zenon, <1>1, FS_EmptySet
<1>3. CountInv' /\ ReserveInv'
  BY <1>2 DEF CountInv, ReserveInv, TypeOK
<1>4. WroteInv'
  BY Zenon DEF WroteInv, Active
<1> QED  BY Zenon, <1>3, <1>4

\* begin_op, sleeping or admitted, preserves the invariant.
LEMMA BeginOpInd ==
  ASSUME IndInv, TypeOK', NEW p \in Procs, BeginOp(p)
  PROVE  IndInv'
<1> USE DEF IndInv
<1>0. pc[p] \in {"idle", "begin"} /\ lh' = lh /\ held' = held /\ sys = "running"
  BY Zenon DEF BeginOp
<1>1. CASE MustWait
  <2>1. /\ pc' = [pc EXCEPT ![p] = "asleep"]
        /\ UNCHANGED <<outstanding, wrote, committing, sys, dhead, tail>>
    BY Zenon, <1>1 DEF BeginOp
  <2>2. Active' = Active
    BY Zenon, <1>0, <2>1 DEF Active, TypeOK
  <2>3. CountInv' /\ WroteInv' /\ ReserveInv'
    BY SMTT(60), <1>0, <2>1, <2>2, Frame DEF TypeOK
  <2>4. PhaseInv'
    BY <1>0, <2>1 DEF PhaseInv, InCommit, TypeOK
  <2>5. outstanding > 0 \/ committing = 1
    <3>1. SUFFICES ASSUME outstanding = 0, committing = 0 PROVE FALSE
      BY DEF TypeOK
    <3>2. Active = {}
      BY Zenon, <3>1, Finiteness, FS_EmptySet DEF CountInv
    <3>3. lh = << >>
      BY Zenon, <1>0, <3>1, <3>2 DEF SleepInv
    <3> QED  BY <1>1, <3>1, <3>3, LogAssumption DEF MustWait
  <2>6. SleepInv'
    BY Zenon, <1>0, <2>1, <2>2, <2>5 DEF SleepInv, NoLostWakeup
  <2> QED  BY Zenon, <2>3, <2>4, <2>6
<1>2. CASE ~MustWait
  <2>1. /\ pc' = [pc EXCEPT ![p] = "op"]
        /\ outstanding' = outstanding + 1
        /\ wrote' = [wrote EXCEPT ![p] = {}]
        /\ UNCHANGED <<committing, sys, dhead, tail>>
    BY Zenon, <1>2 DEF BeginOp
  <2>2. Active' = Active \cup {p} /\ p \notin Active
    BY <1>0, <2>1 DEF Active, TypeOK
  <2>3. CountInv'
    BY Zenon, <2>1, <2>2, Finiteness, FS_AddElement DEF CountInv
  <2>4. WroteInv'
    <3>1. Cardinality({}) = 0
      BY Zenon, FS_EmptySet
    <3>2. SUFFICES ASSUME NEW q \in Procs
                   PROVE  /\ q \in Active' => /\ \A b \in wrote'[q] : InLog(b)'
                                             /\ Cardinality(wrote'[q]) <= OpBlocks
                          /\ pc'[q] = "log_write" =>
                               /\ held'[q] \in Blocks
                               /\ Cardinality(wrote'[q] \cup {held'[q]}) <= OpBlocks
      BY Zenon DEF WroteInv
    <3>3. CASE q = p
      BY <2>1, <3>1, <3>3, LogAssumption DEF TypeOK
    <3>4. CASE q # p
      <4>1. pc'[q] = pc[q] /\ wrote'[q] = wrote[q] /\ (q \in Active' <=> q \in Active)
        BY Zenon, <2>1, <2>2, <3>4 DEF TypeOK
      <4> QED  BY SMTT(60), <1>0, <4>1 DEF WroteInv, InLog
    <3> QED  BY Zenon, <3>3, <3>4
  <2>5. ReserveInv'
    <3>0. Active' \in SUBSET Procs /\ Tokens' \in SUBSET (Active' \X (1..MAXOPBLOCKS))
      BY Zenon DEF Active, Tokens
    <3>1. /\ Cardinality(Tokens') <= Cardinality(Active') * MAXOPBLOCKS
          /\ Cardinality(Tokens') \in Nat
      BY Zenon, <3>0, TokensBound
    <3>2. Cardinality(Tokens') <= (outstanding + 1) * MAXOPBLOCKS
      BY Zenon, <2>1, <2>3, <3>1 DEF CountInv
    <3>3. Len(lh) + (outstanding + 1) * MAXOPBLOCKS <= LOGSIZE
      BY <1>2, LogAssumption DEF MustWait, TypeOK
    <3>4. Len(lh) \in Nat
      BY DEF TypeOK
    <3>5. (outstanding + 1) * MAXOPBLOCKS \in Nat
      BY LogAssumption DEF TypeOK
    <3> QED  BY <1>0, <3>1, <3>2, <3>3, <3>4, <3>5, LogAssumption DEF ReserveInv
  <2>6. committing = 0
    BY SMTT(60), <1>2 DEF MustWait, TypeOK
  <2>7. PhaseInv'
    BY SMTT(30), <1>0, <2>1, <2>6 DEF PhaseInv, InCommit, TypeOK
  <2>8. SleepInv'
    BY <1>0, <2>1, <2>2, <2>6 DEF SleepInv, NoLostWakeup, TypeOK
  <2> QED  BY Zenon, <2>3, <2>4, <2>5, <2>7, <2>8
<1> QED  BY Zenon, <1>1, <1>2

\* A panic outside recovery changes nothing the invariant depends on.
LEMMA PanicInd ==
  ASSUME IndInv, TypeOK', Panic, sys # "recovering"
  PROVE  IndInv'
<1> USE DEF IndInv, Panic
<1>1. Active' = Active
  BY Zenon DEF Active
<1>2. CountInv' /\ WroteInv' /\ ReserveInv'
  BY Zenon, <1>1, Frame
<1>3. PhaseInv'
  BY Zenon DEF PhaseInv, InCommit
<1>4. SleepInv'
  BY Zenon, <1>1 DEF SleepInv, NoLostWakeup
<1> QED  BY Zenon, <1>2, <1>3, <1>4

\* The unlocked first half of log_write preserves the invariant.
LEMMA LogWriteCheckInd ==
  ASSUME IndInv, TypeOK', NEW p \in Procs, NEW b \in Blocks, LogWriteCheck(p, b)
  PROVE  IndInv'
<1> USE DEF IndInv
<1>0. pc[p] = "op" /\ sys # "recovering"
  BY Zenon DEF LogWriteCheck, PhaseInv
<1>1. CASE Panic
  BY Zenon, <1>0, <1>1, PanicInd
<1>2. CASE ~Panic
  <2>1. /\ pc' = [pc EXCEPT ![p] = "log_write"]
        /\ held' = [held EXCEPT ![p] = b]
        /\ Cardinality(wrote[p] \cup {b}) <= OpBlocks
        /\ UNCHANGED <<dhead, lh, outstanding, committing, tail, wrote, sys>>
    BY Zenon, <1>2 DEF LogWriteCheck
  <2>2. Active' = Active
    BY Zenon, <1>0, <2>1 DEF Active, TypeOK
  <2>3. CountInv'
    BY Zenon, <2>1, <2>2 DEF CountInv
  <2>4. Tokens' = Tokens
    BY Zenon, <2>1, <2>2 DEF Tokens
  <2>5. ReserveInv'
    BY Zenon, <2>1, <2>4 DEF ReserveInv
  <2>6. WroteInv'
    <3>1. SUFFICES ASSUME NEW q \in Procs
                   PROVE  /\ q \in Active' => /\ \A c \in wrote'[q] : InLog(c)'
                                             /\ Cardinality(wrote'[q]) <= OpBlocks
                          /\ pc'[q] = "log_write" =>
                               /\ held'[q] \in Blocks
                               /\ Cardinality(wrote'[q] \cup {held'[q]}) <= OpBlocks
      BY Zenon DEF WroteInv
    <3>2. q \in Active' => /\ \A c \in wrote'[q] : InLog(c)'
                          /\ Cardinality(wrote'[q]) <= OpBlocks
      BY Zenon, <2>1, <2>2 DEF WroteInv, InLog
    <3>3. CASE q = p
      BY SMTT(30), <2>1, <3>2, <3>3 DEF TypeOK
    <3>4. CASE q # p
      <4>1. pc'[q] = pc[q] /\ held'[q] = held[q] /\ wrote'[q] = wrote[q]
        BY SMTT(60), <2>1, <3>4 DEF TypeOK
      <4> QED  BY SMTT(30), <3>2, <4>1 DEF WroteInv
    <3> QED  BY Zenon, <3>3, <3>4
  <2>7. PhaseInv'
    BY SMTT(30), <1>0, <2>1 DEF PhaseInv, InCommit, TypeOK
  <2>8. SleepInv'
    BY Zenon, <1>0, <2>1, <2>2 DEF SleepInv, NoLostWakeup, TypeOK
  <2> QED  BY SMTT(60), <2>3, <2>5, <2>6, <2>7, <2>8
<1> QED  BY Zenon, <1>1, <1>2

\* The heart of the reservation argument: a block new to the log is new to
\* its call, so appending it uses up one reservation.
LEMMA LogWriteInd ==
  ASSUME IndInv, TypeOK', NEW p \in Procs, NEW v \in Vals, LogWrite(p, v)
  PROVE  IndInv'
<1> USE DEF IndInv
<1>00. PICK b \in Blocks : b = held[p]
  BY Zenon DEF LogWrite, WroteInv
<1>0. /\ pc[p] = "log_write" /\ p \in Active
      /\ Cardinality(wrote[p] \cup {b}) <= OpBlocks
      /\ wrote[p] \in SUBSET Blocks
  BY Zenon, <1>00 DEF LogWrite, WroteInv, Active, TypeOK
<1>1. /\ pc' = [pc EXCEPT ![p] = "op"]
      /\ held' = [held EXCEPT ![p] = NoBlock]
      /\ wrote' = [wrote EXCEPT ![p] = @ \cup {b}]
      /\ lh' = IF InLog(b) THEN lh ELSE Append(lh, b)
      /\ UNCHANGED <<dhead, outstanding, committing, tail, sys>>
  BY Zenon, <1>00 DEF LogWrite
<1>11. /\ pc \in [Procs -> PCs] /\ held \in [Procs -> Blocks \cup {NoBlock}]
       /\ wrote \in [Procs -> SUBSET Blocks]
  BY Zenon DEF TypeOK
<1>12. wrote'[p] = wrote[p] \cup {b} /\ pc'[p] = "op"
  BY Zenon, <1>1, <1>11
<1>13. ASSUME NEW q \in Procs, q # p
       PROVE  pc'[q] = pc[q] /\ held'[q] = held[q] /\ wrote'[q] = wrote[q]
  BY Zenon, <1>1, <1>11, <1>13
<1>2. Active' = Active
  BY Zenon, <1>0, <1>1 DEF Active, TypeOK
<1>3. CountInv'
  BY Zenon, <1>1, <1>2 DEF CountInv
<1>4. (\A c \in Blocks : InLog(c) => InLog(c)') /\ InLog(b)'
  <2>1. CASE InLog(b)
    BY SMTT(30), <1>1, <2>1 DEF InLog
  <2>2. CASE ~InLog(b)
    <3>1. lh' = Append(lh, b) /\ lh \in Seq(Blocks) /\ Len(lh) \in Nat
      BY SMTT(30), <1>1, <2>2 DEF TypeOK
    <3>2. /\ Len(lh') = Len(lh) + 1 /\ lh'[Len(lh) + 1] = b
          /\ \A i \in 1..Len(lh) : lh'[i] = lh[i]
      BY <1>0, <3>1
    <3> QED  BY SMTT(60), <3>1, <3>2 DEF InLog
  <2> QED  BY SMTT(60), <2>1, <2>2
<1>5. WroteInv'
  <2>1. SUFFICES ASSUME NEW q \in Procs
                 PROVE  /\ q \in Active' => /\ \A c \in wrote'[q] : InLog(c)'
                                           /\ Cardinality(wrote'[q]) <= OpBlocks
                        /\ pc'[q] = "log_write" =>
                             /\ held'[q] \in Blocks
                             /\ Cardinality(wrote'[q] \cup {held'[q]}) <= OpBlocks
    BY Zenon DEF WroteInv
  <2>2. CASE q = p
    BY Zenon, <1>0, <1>4, <1>12, <2>2 DEF WroteInv
  <2>3. CASE q # p
    <3>1. pc'[q] = pc[q] /\ held'[q] = held[q] /\ wrote'[q] = wrote[q]
      BY Zenon, <1>13, <2>3
    <3>2. wrote[q] \in SUBSET Blocks
      BY Zenon, <1>11
    <3> QED  BY Zenon, <1>2, <1>4, <3>1, <3>2 DEF WroteInv
  <2> QED  BY Zenon, <2>2, <2>3
<1>6. \A q \in Procs : Cardinality(wrote[q]) <= Cardinality(wrote'[q])
  <2>1. Cardinality(wrote[p]) <= Cardinality(wrote[p] \cup {b})
    BY <1>0, WroteGrows
  <2>2. \A q \in Procs : Cardinality(wrote[q]) \in Nat
    BY SMTT(60), Finiteness DEF TypeOK
  <2>3. ASSUME NEW q \in Procs
        PROVE  Cardinality(wrote[q]) <= Cardinality(wrote'[q])
    <3>1. CASE q = p
      BY Zenon, <1>12, <2>1, <3>1
    <3>2. CASE q # p
      <4>1. wrote'[q] = wrote[q]
        BY Zenon, <1>13, <3>2
      <4>2. Cardinality(wrote[q]) <= Cardinality(wrote[q])
        <5> HIDE DEF IndInv
        <5> QED  BY <2>2
      <4> QED  BY Zenon, <4>1, <4>2
    <3> QED  BY Zenon, <3>1, <3>2
  <2> QED  BY Zenon, <2>3
<1>7. Tokens' \subseteq Tokens
  <2>1. \A q \in Procs : Cardinality(wrote[q]) \in Nat /\ Cardinality(wrote'[q]) \in Nat
    BY SMTT(30), Finiteness, FS_Subset, FS_CardinalityType, LogAssumption DEF TypeOK
  <2>2. SUFFICES ASSUME NEW t \in Tokens' PROVE t \in Tokens
    OBVIOUS
  <2>3. /\ t \in Procs \X (1..MAXOPBLOCKS) /\ t[1] \in Active
        /\ t[2] > Cardinality(wrote'[t[1]])
    BY Zenon, <1>2 DEF Tokens
  <2>4. t[1] \in Procs /\ t[2] \in Nat
    BY <2>3, LogAssumption
  <2>5. t[2] > Cardinality(wrote[t[1]])
    BY <1>6, <2>1, <2>3, <2>4
  <2> QED  BY SMTT(30), <2>3, <2>5 DEF Tokens
<1>8. ReserveInv'
  <2>1. CASE InLog(b)
    <3>1. lh' = lh
      BY Zenon, <1>1, <2>1
    <3>2. lh \in Seq(Blocks)
      BY Zenon DEF TypeOK
    <3>3. Len(lh') <= Len(lh)
      <4> HIDE DEF IndInv
      <4> QED  BY <3>1, <3>2
    <3> HIDE DEF IndInv
    <3> QED  BY Zenon, <1>7, <3>3, Shrink
  <2>2. CASE ~InLog(b)
    <3>1. b \notin wrote[p]
      BY Zenon, <1>0, <2>2 DEF WroteInv
    <3> DEFINE k == Cardinality(wrote[p]) + 1
    <3>2. Cardinality(wrote[p]) \in Nat /\ Cardinality(wrote[p] \cup {b}) = k
      BY SMTT(60), <1>0, <3>1, WroteGrows
    <3>3. k \in 1..MAXOPBLOCKS
      BY <1>0, <3>2, LogAssumption
    <3>4. <<p, k>> \in Tokens
      BY SMTT(60), <1>0, <3>2, <3>3 DEF Tokens
    <3>5. wrote'[p] = wrote[p] \cup {b}
      BY SMTT(60), <1>1 DEF TypeOK
    <3>6. <<p, k>> \notin Tokens'
      <4>1. ASSUME <<p, k>> \in Tokens' PROVE k > Cardinality(wrote'[p])
        BY Zenon, <4>1 DEF Tokens
      <4> QED  BY <3>2, <3>5, <4>1
    <3>7. Tokens' \subseteq Tokens \ {<<p, k>>}
      BY SMTT(60), <1>7, <3>6
    <3>8. /\ IsFiniteSet(Tokens \ {<<p, k>>})
          /\ Cardinality(Tokens \ {<<p, k>>}) = Cardinality(Tokens) - 1
          /\ Cardinality(Tokens) \in Nat
      BY SMTT(60), <3>4, Finiteness, FS_RemoveElement
    <3>9. Cardinality(Tokens') <= Cardinality(Tokens) - 1 /\ Cardinality(Tokens') \in Nat
      BY SMTT(60), <3>7, <3>8, FS_Subset, FS_CardinalityType
    <3>10. Len(lh') = Len(lh) + 1 /\ Len(lh) \in Nat
      BY <1>0, <1>1, <2>2 DEF TypeOK
    <3> QED  BY SMTT(60), <3>8, <3>9, <3>10, LogAssumption DEF ReserveInv
  <2> QED  BY Zenon, <2>1, <2>2
<1>9. PhaseInv'
  BY Zenon, <1>0, <1>1 DEF PhaseInv, InCommit, TypeOK
<1>10. SleepInv'
  BY Zenon, <1>0, <1>1, <1>2 DEF SleepInv, NoLostWakeup, TypeOK
<1> QED  BY Zenon, <1>3, <1>5, <1>8, <1>9, <1>10

\* end_op, committing or not, preserves the invariant.
LEMMA EndOpInd ==
  ASSUME IndInv, TypeOK', NEW p \in Procs, EndOp(p)
  PROVE  IndInv'
<1> USE DEF IndInv
<1>0. pc[p] = "op" /\ sys # "recovering" /\ p \in Active /\ committing = 0
  BY Zenon DEF EndOp, PhaseInv, Active, TypeOK
<1>1. /\ outstanding' = outstanding - 1
      /\ wrote' = [wrote EXCEPT ![p] = {}]
      /\ tail' = [tail EXCEPT ![p] = 0]
      /\ UNCHANGED <<dhead, lh, held, sys>>
  BY <1>0 DEF EndOp
<1>2. /\ pc'[p] \notin {"op", "log_write"}
      /\ \A q \in Procs \ {p} : pc[q] \in {"op", "log_write"} \/ pc'[q] \in {"op", "log_write"}
                                => pc'[q] = pc[q]
  BY <1>0 DEF EndOp, WakeupLog, CommitEntry, TypeOK
<1>3. Active' = Active \ {p}
  BY SMTT(60), <1>2 DEF Active
<1>4. IsFiniteSet(Active) /\ Cardinality(Active \ {p}) = Cardinality(Active) - 1
  BY Zenon, <1>0, Finiteness, FS_RemoveElement
<1>5. CountInv'
  BY Zenon, <1>1, <1>3, <1>4 DEF CountInv
<1>6. WroteInv'
  <2>1. SUFFICES ASSUME NEW q \in Procs, q \in Active'
                 PROVE  /\ \A c \in wrote'[q] : InLog(c)'
                        /\ Cardinality(wrote'[q]) <= OpBlocks
                        /\ pc'[q] = "log_write" =>
                             /\ held'[q] \in Blocks
                             /\ Cardinality(wrote'[q] \cup {held'[q]}) <= OpBlocks
    BY Zenon DEF WroteInv, Active
  <2>2. q # p /\ q \in Active /\ pc'[q] = pc[q]
    BY Zenon, <1>2, <1>3, <2>1 DEF Active
  <2>3. wrote'[q] = wrote[q] /\ held'[q] = held[q]
    BY SMTT(60), <1>1, <2>2 DEF TypeOK
  <2> QED  BY ZenonT(60), <1>1, <2>2, <2>3 DEF WroteInv, InLog
<1>7. ReserveInv'
  <2>1. \A q \in Active' : wrote'[q] = wrote[q]
    BY Zenon, <1>1, <1>3 DEF TypeOK, Active
  <2>2. Tokens' \subseteq Tokens
    BY SMTT(60), <1>3, <2>1 DEF Tokens
  <2> QED  BY SMTT(60), <1>1, <2>2, Shrink DEF TypeOK
<1>8. CASE outstanding = 1
  <2>1. pc' = [pc EXCEPT ![p] = CommitEntry] /\ committing' = 1
    BY <1>0, <1>8 DEF EndOp
  <2>2. Active' = {}
    BY <1>3, <1>4, <1>8, FS_EmptySet, FS_RemoveElement, Finiteness DEF CountInv
  <2>3. \A q \in Procs : pc'[q] \notin {"op", "log_write"}
    BY Zenon, <2>2 DEF Active
  <2>4. \A q \in Procs : ~InCommit(q) /\ pc[q] # "read_head"
    BY Zenon, <1>0 DEF PhaseInv
  <2>5. pc'[p] = CommitEntry /\ \A q \in Procs \ {p} : pc'[q] = pc[q]
    BY Zenon, <2>1 DEF TypeOK
  <2>6. \/ CommitEntry = "end_commit" /\ lh = << >>
        \/ CommitEntry = "write_log" /\ lh # << >>
    BY SMTT(60) DEF CommitEntry
  <2>7. PhaseInv'
    <3>1. tail'[p] = 0 /\ (lh # << >> => 0 < Len(lh))
      BY <1>1 DEF TypeOK
    <3>2. \A q \in Procs : q # p => pc'[q] \in {"idle", "begin", "asleep"}
      BY Zenon, <2>3, <2>4, <2>5 DEF InCommit, TypeOK, PCs
    <3> QED  BY SMTT(30), <1>0, <1>1, <2>1, <2>3, <2>5, <2>6, <3>1, <3>2 DEF PhaseInv, InCommit
  <2>8. SleepInv'
    BY <2>1 DEF SleepInv, NoLostWakeup
  <2> QED  BY Zenon, <1>5, <1>6, <1>7, <2>7, <2>8
<1>9. CASE outstanding # 1
  <2>1. /\ pc' = WakeupLog([pc EXCEPT ![p] = "idle"]) /\ committing' = committing
    BY SMTT(60), <1>0, <1>9 DEF EndOp
  <2>2. \A q \in Procs : pc'[q] = IF q = p THEN "idle"
                                ELSE IF pc[q] = "asleep" THEN "begin" ELSE pc[q]
    BY SMTT(60), <2>1 DEF WakeupLog, TypeOK
  <2>3. PhaseInv'
    <3>1. \A q \in Procs : pc[q] \in {"idle", "begin", "asleep", "op", "log_write"}
      BY Zenon, <1>0 DEF PhaseInv, TypeOK, PCs
    <3>2. \A q \in Procs : pc'[q] \in {"idle", "begin", "op", "log_write"}
      BY SMTT(60), <2>2, <3>1
    <3>3. Len(dhead') <= LOGSIZE /\ committing' = 0 /\ sys' # "recovering"
      BY Zenon, <1>0, <1>1, <2>1 DEF PhaseInv
    <3> QED  BY SMTT(60), <3>2, <3>3 DEF PhaseInv, InCommit
  <2>4. Active' # {}
    <3>1. Cardinality(Active') # 0
      BY SMTT(60), <1>3, <1>4, <1>9 DEF CountInv, TypeOK
    <3> QED  BY Zenon, <3>1, FS_EmptySet
  <2>5. SleepInv'
    BY Zenon, <2>2, <2>4 DEF SleepInv, NoLostWakeup
  <2> QED  BY Zenon, <1>5, <1>6, <1>7, <2>3, <2>5
<1> QED  BY Zenon, <1>8, <1>9

\* While one process commits or recovers the others are outside.
LEMMA OthersOutside ==
  ASSUME IndInv, NEW p \in Procs, InCommit(p) \/ pc[p] = "read_head"
  PROVE  \A q \in Procs \ {p} : /\ pc[q] \in {"idle", "begin", "asleep"}
                                /\ sys = "recovering" => pc[q] = "idle"
<1> SUFFICES ASSUME NEW q \in Procs \ {p}
             PROVE  /\ pc[q] \in {"idle", "begin", "asleep"}
                    /\ sys = "recovering" => pc[q] = "idle"
  OBVIOUS
<1>1. pc[q] \notin {"op", "log_write"} /\ ~InCommit(q) /\ pc[q] # "read_head"
  BY Zenon DEF IndInv, PhaseInv
<1>2. pc[q] \in PCs
  BY Zenon DEF IndInv, TypeOK
<1>3. sys = "recovering" => pc[q] \in {"idle", "read_head", "install", "clear"}
  BY SMTT(60) DEF IndInv, PhaseInv
<1> QED  BY Zenon, <1>1, <1>2, <1>3 DEF PCs, InCommit

\* What is left of PhaseInv when the others are outside.
LEMMA AlonePhase ==
  ASSUME NEW p \in Procs,
         \A q \in Procs \ {p} : /\ pc'[q] \in {"idle", "begin", "asleep"}
                                /\ sys' = "recovering" => pc'[q] = "idle",
         Len(dhead') <= LOGSIZE,
         pc'[p] \in {"write_log", "install"} => tail'[p] < Len(lh'),
         pc'[p] \in {"write_log", "write_head", "end_commit"} => committing' = 1,
         pc'[p] \in {"install", "clear"} => committing' = 1 \/ sys' = "recovering",
         pc'[p] = "read_head" => sys' = "recovering",
         pc'[p] \in {"write_head", "read_head"} => tail'[p] = 0,
         pc'[p] = "write_head" => lh' # << >>,
         pc'[p] = "end_commit" => lh' = << >>,
         pc'[p] \notin {"op", "log_write"},
         committing' = 1 => sys' # "recovering",
         sys' = "recovering" => /\ committing' = 0
                                /\ pc'[p] \in {"idle", "read_head", "install", "clear"}
  PROVE  PhaseInv'
<1>1. \A q \in Procs : q = p \/ (q # p /\ pc'[q] \in {"idle", "begin", "asleep"})
  OBVIOUS
<1>2. \A q \in Procs : pc'[q] \notin {"op", "log_write"}
  BY Zenon, <1>1
<1>3. \A q, r \in Procs : InCommit(q)' \/ pc'[q] = "read_head" =>
         /\ pc'[r] \notin {"op", "log_write"}
         /\ InCommit(r)' \/ pc'[r] = "read_head" => q = r
  BY Zenon, <1>1, <1>2 DEF InCommit
<1>4. sys' = "recovering" =>
        \A q \in Procs : pc'[q] \in {"idle", "read_head", "install", "clear"}
  OBVIOUS
<1> QED  BY Zenon, <1>1, <1>2, <1>3, <1>4 DEF PhaseInv

\* An iteration of write_log preserves the invariant.
LEMMA WriteLogInd ==
  ASSUME IndInv, TypeOK', NEW p \in Procs, WriteLog(p)
  PROVE  IndInv'
<1> USE DEF IndInv
<1>0. pc[p] = "write_log" /\ committing = 1 /\ sys # "recovering" /\ tail[p] < Len(lh)
  BY Zenon DEF WriteLog, PhaseInv
<1>1. CASE Panic
  BY SMTT(30), <1>0, <1>1, PanicInd
<1>2. CASE ~Panic
  <2>1. /\ UNCHANGED <<dhead, lh, outstanding, committing, wrote, held, sys>>
        /\ \/ tail' = [tail EXCEPT ![p] = @ + 1] /\ pc' = pc /\ tail[p] + 1 < Len(lh)
           \/ tail' = [tail EXCEPT ![p] = 0] /\ pc' = [pc EXCEPT ![p] = "write_head"]
    BY SMTT(60), <1>2 DEF WriteLog
  <2>2. Active' = Active
    BY SMTT(60), <1>0, <2>1 DEF Active, TypeOK
  <2>3. CountInv' /\ WroteInv' /\ ReserveInv'
    BY SMTT(60), <1>0, <2>1, <2>2, Frame DEF TypeOK
  <2>4. lh # << >>
    BY SMTT(60), <1>0 DEF TypeOK
  <2>5. PhaseInv'
    <3>1. /\ \/ tail'[p] = tail[p] + 1 /\ pc'[p] = "write_log" /\ tail[p] + 1 < Len(lh)
             \/ tail'[p] = 0 /\ pc'[p] = "write_head"
          /\ \A q \in Procs \ {p} : pc'[q] = pc[q]
      BY SMTT(60), <1>0, <2>1 DEF TypeOK
    <3>2. \A q \in Procs \ {p} : /\ pc[q] \in {"idle", "begin", "asleep"}
                                 /\ sys = "recovering" => pc[q] = "idle"
      BY Zenon, <1>0, OthersOutside DEF InCommit
    <3>3. Len(dhead') <= LOGSIZE
      BY Zenon, <2>1 DEF PhaseInv
    <3> QED  BY SMTT(60), <1>0, <2>1, <2>4, <3>1, <3>2, <3>3, AlonePhase
  <2>6. SleepInv'
    BY SMTT(60), <1>0, <2>1 DEF SleepInv, NoLostWakeup
  <2> QED  BY Zenon, <2>3, <2>5, <2>6
<1> QED  BY Zenon, <1>1, <1>2

\* The commit point, write_head, preserves the invariant.
LEMMA WriteHeadInd ==
  ASSUME IndInv, TypeOK', NEW p \in Procs, WriteHead(p)
  PROVE  IndInv'
<1> USE DEF IndInv
<1>1. /\ pc[p] = "write_head" /\ committing = 1 /\ lh # << >> /\ tail[p] = 0
      /\ dhead' = lh /\ pc' = [pc EXCEPT ![p] = "install"]
      /\ UNCHANGED <<lh, outstanding, committing, tail, wrote, held, sys>>
  BY SMTT(60) DEF WriteHead, PhaseInv
<1>2. Active' = Active
  BY SMTT(30), <1>1 DEF Active, TypeOK
<1>3. CountInv' /\ WroteInv' /\ ReserveInv'
  BY SMTT(30), <1>1, <1>2, Frame DEF TypeOK
<1>4. Len(lh) <= LOGSIZE /\ 0 < Len(lh)
  BY SMTT(30), <1>1, Finiteness, LogAssumption DEF ReserveInv, TypeOK
<1>5. PhaseInv'
  <2>1. pc'[p] = "install" /\ \A q \in Procs \ {p} : pc'[q] = pc[q]
    BY Zenon, <1>1 DEF TypeOK
  <2>2. \A q \in Procs \ {p} : /\ pc[q] \in {"idle", "begin", "asleep"}
                               /\ sys = "recovering" => pc[q] = "idle"
    BY SMTT(60), <1>1, OthersOutside DEF InCommit
  <2>3. sys # "recovering"
    BY Zenon, <1>1 DEF PhaseInv
  <2> QED  BY SMTT(60), <1>1, <1>4, <2>1, <2>2, <2>3, AlonePhase
<1>6. SleepInv'
  BY SMTT(60), <1>1 DEF SleepInv, NoLostWakeup
<1> QED  BY Zenon, <1>3, <1>5, <1>6

\* An iteration of install_trans preserves the invariant.
LEMMA InstallTransInd ==
  ASSUME IndInv, TypeOK', NEW p \in Procs, InstallTrans(p)
  PROVE  IndInv'
<1> USE DEF IndInv
<1>1. /\ pc[p] = "install" /\ tail[p] < Len(lh)
      /\ UNCHANGED <<dhead, lh, outstanding, committing, wrote, held, sys>>
      /\ \/ tail' = [tail EXCEPT ![p] = @ + 1] /\ pc' = pc /\ tail[p] + 1 < Len(lh)
         \/ tail' = [tail EXCEPT ![p] = 0] /\ pc' = [pc EXCEPT ![p] = "clear"]
  BY Zenon DEF InstallTrans, PhaseInv
<1>2. Active' = Active
  BY SMTT(60), <1>1 DEF Active, TypeOK
<1>3. CountInv' /\ WroteInv' /\ ReserveInv'
  BY Zenon, <1>1, <1>2, Frame DEF TypeOK
<1>4. PhaseInv'
  <2>1. /\ \/ tail'[p] = tail[p] + 1 /\ pc'[p] = "install" /\ tail[p] + 1 < Len(lh)
           \/ tail'[p] = 0 /\ pc'[p] = "clear"
        /\ \A q \in Procs \ {p} : pc'[q] = pc[q]
    BY Zenon, <1>1 DEF TypeOK
  <2>2. \A q \in Procs \ {p} : /\ pc[q] \in {"idle", "begin", "asleep"}
                               /\ sys = "recovering" => pc[q] = "idle"
    BY SMTT(60), <1>1, OthersOutside DEF InCommit
  <2>3. /\ Len(dhead) <= LOGSIZE
        /\ committing = 1 \/ sys = "recovering"
        /\ committing = 1 => sys # "recovering"
        /\ sys = "recovering" => committing = 0
    BY SMTT(60), <1>1 DEF PhaseInv
  <2> QED  BY SMTT(60), <1>1, <2>1, <2>2, <2>3, AlonePhase
<1>5. SleepInv'
  BY Zenon, <1>1, <1>2 DEF SleepInv, NoLostWakeup, TypeOK
<1> QED  BY Zenon, <1>3, <1>4, <1>5

\* Erasing the header preserves the invariant.
LEMMA ClearHeadInd ==
  ASSUME IndInv, TypeOK', NEW p \in Procs, ClearHead(p), sys # "panicked"
  PROVE  IndInv'
<1> USE DEF IndInv
<1>1. /\ pc[p] = "clear" /\ lh' = << >> /\ dhead' = << >> /\ sys' = "running"
      /\ pc' = [pc EXCEPT ![p] = IF sys = "running" THEN "end_commit" ELSE "idle"]
      /\ UNCHANGED <<outstanding, committing, tail, wrote, held>>
  BY Zenon DEF ClearHead
<1>2. \A q \in Procs : pc[q] \notin {"op", "log_write"}
  BY Zenon, <1>1 DEF PhaseInv, InCommit
<1>3. \A q \in Procs \ {p} : ~InCommit(q) /\ pc[q] # "read_head"
  BY SMTT(60), <1>1 DEF PhaseInv, InCommit
<1>4. /\ pc'[p] = IF sys = "running" THEN "end_commit" ELSE "idle"
      /\ \A q \in Procs \ {p} : pc'[q] = pc[q]
  BY SMTT(30), <1>1 DEF TypeOK
<1>5. Active = {} /\ Active' = {}
  BY Zenon, <1>2, <1>4 DEF Active
<1>6. outstanding = 0
  BY Zenon, <1>5, FS_EmptySet DEF CountInv
<1>7. CountInv' /\ WroteInv' /\ ReserveInv'
  BY <1>1, <1>5, <1>6, NoCalls, LogAssumption
<1>8. sys = "running" \/ sys = "recovering"
  BY Zenon DEF TypeOK
<1>9. \A q \in Procs \ {p} : pc[q] \in {"idle", "begin", "asleep"}
  BY Zenon, <1>1, OthersOutside DEF InCommit
<1>10. PhaseInv'
  <2>1. sys = "running" => committing = 1
    BY Zenon, <1>1 DEF PhaseInv
  <2>2. /\ Len(lh') = 0 /\ Len(dhead') = 0 /\ 0 <= LOGSIZE
    BY <1>1, LogAssumption
  <2> QED  BY SMTT(60), <1>1, <1>4, <1>8, <1>9, <2>1, <2>2, AlonePhase
<1>11. SleepInv'
  <2>1. CASE sys = "running"
    <3>1. committing = 1
      BY SMTT(60), <1>1, <2>1 DEF PhaseInv
    <3> QED  BY SMTT(60), <1>1, <3>1 DEF SleepInv, NoLostWakeup
  <2>2. CASE sys = "recovering"
    BY SMTT(30), <1>1, <1>4, <2>2 DEF SleepInv, NoLostWakeup, PhaseInv
  <2> QED  BY Zenon, <1>8, <2>1, <2>2
<1> QED  BY Zenon, <1>7, <1>10, <1>11

\* The end of a commit preserves the invariant.
LEMMA EndCommitInd ==
  ASSUME IndInv, TypeOK', NEW p \in Procs, EndCommit(p)
  PROVE  IndInv'
<1> USE DEF IndInv
<1>1. /\ pc[p] = "end_commit" /\ committing' = 0 /\ committing = 1 /\ lh = << >>
      /\ pc' = WakeupLog([pc EXCEPT ![p] = "idle"])
      /\ UNCHANGED <<dhead, lh, outstanding, tail, wrote, held, sys>>
  BY SMTT(30) DEF EndCommit, PhaseInv
<1>2. \A q \in Procs : pc'[q] = IF q = p THEN "idle"
                              ELSE IF pc[q] = "asleep" THEN "begin" ELSE pc[q]
  BY SMTT(60), <1>1 DEF WakeupLog, TypeOK
<1>3. \A q \in Procs \ {p} : pc[q] \in {"idle", "begin", "asleep"}
  BY SMTT(30), <1>1 DEF PhaseInv, InCommit, TypeOK, PCs
<1>4. \A q \in Procs : pc'[q] \in {"idle", "begin"}
  BY Zenon, <1>2, <1>3
<1>5. Active = {} /\ Active' = {}
  BY Zenon, <1>1, <1>3, <1>4 DEF Active
<1>6. outstanding = 0
  BY Zenon, <1>5, FS_EmptySet DEF CountInv
<1>7. CountInv' /\ WroteInv' /\ ReserveInv'
  BY SMTT(60), <1>1, <1>5, <1>6, NoCalls, LogAssumption
<1>8. PhaseInv'
  <2>1. Len(dhead') <= LOGSIZE /\ sys' # "recovering"
    BY Zenon, <1>1 DEF PhaseInv
  <2> QED  BY Zenon, <1>1, <1>4, <2>1, AlonePhase
<1>9. SleepInv'
  BY Zenon, <1>1, <1>4 DEF SleepInv, NoLostWakeup
<1> QED  BY Zenon, <1>7, <1>8, <1>9

\* Reading the header in recovery preserves the invariant.
LEMMA ReadHeadInd ==
  ASSUME IndInv, TypeOK', NEW p \in Procs, ReadHead(p)
  PROVE  IndInv'
<1> USE DEF IndInv
<1>1. /\ pc[p] = "read_head" /\ sys = "recovering" /\ committing = 0 /\ tail[p] = 0
      /\ lh' = dhead /\ Len(dhead) <= LOGSIZE
      /\ pc' = [pc EXCEPT ![p] = IF dhead = << >> THEN "clear" ELSE "install"]
      /\ UNCHANGED <<dhead, outstanding, committing, tail, wrote, held, sys>>
  BY SMTT(30) DEF ReadHead, PhaseInv
<1>2. /\ pc'[p] = IF dhead = << >> THEN "clear" ELSE "install"
      /\ \A q \in Procs \ {p} : pc'[q] = pc[q] /\ pc[q] = "idle"
  BY Zenon, <1>1 DEF PhaseInv, InCommit, TypeOK
<1>3. dhead # << >> => 0 < Len(dhead)
  BY DEF TypeOK
<1>4. Active = {} /\ Active' = {}
  BY SMTT(60), <1>1, <1>2 DEF Active
<1>5. outstanding = 0
  BY Zenon, <1>4, FS_EmptySet DEF CountInv
<1>6. CountInv' /\ WroteInv' /\ ReserveInv'
  BY SMTT(60), <1>1, <1>4, <1>5, NoCalls
<1>7. PhaseInv'
  BY SMTT(60), <1>1, <1>2, <1>3, AlonePhase
<1>8. SleepInv'
  BY SMTT(30), <1>1, <1>2 DEF SleepInv, NoLostWakeup
<1> QED  BY Zenon, <1>6, <1>7, <1>8

\* A crash at any moment re-establishes the invariant.
LEMMA CrashInd ==
  ASSUME IndInv, TypeOK', NEW p \in Procs, Crash(p)
  PROVE  IndInv'
<1> USE DEF IndInv
<1>1. /\ lh' = << >> /\ outstanding' = 0 /\ committing' = 0 /\ sys' = "recovering"
      /\ pc' = [q \in Procs |-> IF q = p THEN "read_head" ELSE "idle"]
      /\ tail' = [q \in Procs |-> 0] /\ dhead' = dhead
  BY Zenon DEF Crash, diskVars
<1>2. Active' = {}
  BY Zenon, <1>1 DEF Active
<1>3. CountInv' /\ WroteInv' /\ ReserveInv'
  BY <1>1, <1>2, NoCalls, LogAssumption
<1>4. PhaseInv'
  <2>1. Len(dhead') <= LOGSIZE
    BY Zenon, <1>1 DEF PhaseInv
  <2>2. pc'[p] = "read_head" /\ tail'[p] = 0 /\ \A q \in Procs \ {p} : pc'[q] = "idle"
    BY Zenon, <1>1
  <2> QED  BY SMTT(60), <1>1, <2>1, <2>2, AlonePhase
<1>5. SleepInv'
  BY Zenon, <1>1 DEF SleepInv, NoLostWakeup
<1> QED  BY Zenon, <1>3, <1>4, <1>5

\* Steps that touch neither the log nor the processes.
LEMMA QuietInd ==
  ASSUME IndInv, TypeOK',
         UNCHANGED <<dhead, lh, outstanding, committing, pc, tail, wrote, held, sys>>
  PROVE  IndInv'
<1> USE DEF IndInv
<1>1. Active' = Active
  BY Zenon DEF Active
<1>2. CountInv' /\ WroteInv' /\ ReserveInv'
  BY SMTT(60), <1>1, Frame
<1>3. PhaseInv' /\ SleepInv'
  BY SMTT(30), <1>1 DEF PhaseInv, InCommit, SleepInv, NoLostWakeup
<1> QED  BY Zenon, <1>2, <1>3

\* Every step of the log, crashes included, preserves the invariant.
THEOREM NextInd == IndInv /\ [Next]_vars => IndInv'
<1> SUFFICES ASSUME IndInv, [Next]_vars PROVE IndInv'
  OBVIOUS
<1>0. TypeOK'
  BY SMTT(60), TypeStep
<1>1. ASSUME sys # "panicked", NEW p \in Procs, Step(p) PROVE IndInv'
  BY SMTT(60), <1>0, <1>1, BeginOpInd, LogWriteCheckInd, LogWriteInd, EndOpInd, WriteLogInd,
     WriteHeadInd, InstallTransInd, ClearHeadInd, EndCommitInd, ReadHeadInd DEF Step
<1>2. ASSUME NEW b \in Blocks, Evict(b) PROVE IndInv'
  BY Zenon, <1>0, <1>2, QuietInd DEF Evict
<1>3. ASSUME NEW p \in Procs, Crash(p) PROVE IndInv'
  BY Zenon, <1>0, <1>3, CrashInd
<1>4. CASE UNCHANGED vars
  BY Zenon, <1>0, <1>4, QuietInd DEF vars
<1> QED  BY Zenon, <1>1, <1>2, <1>3, <1>4 DEF Next

\* The inductive invariant holds in every reachable state.
THEOREM Inductive == Spec => []IndInv
BY InitInd, NextInd, PTL DEF Spec

\* Every variable of log.c keeps its type, for all sizes and process counts.
THEOREM TypeCorrect == Spec => []TypeOK
<1>1. IndInv => TypeOK
  BY SMTT(60) DEF IndInv
<1> QED  BY <1>1, Inductive, PTL

\* begin_op's reservation keeps log.lh within LOGSIZE entries, although
\* log_write tests the size without the lock.
THEOREM LogNeverOverflows == Spec => []LogFits
<1>1. IndInv => LogFits
  BY Finiteness, LogAssumption DEF IndInv, ReserveInv, LogFits, TypeOK
<1> QED  BY <1>1, Inductive, PTL

\* commit() runs with no call in progress and no second committer.
THEOREM CommitsRunAlone == Spec => []CommitAlone
<1>1. IndInv => CommitAlone
  <2> SUFFICES ASSUME IndInv, committing = 1 PROVE CommitAlone
    BY Zenon DEF CommitAlone
  <2>1. \A p \in Procs : pc[p] \notin {"op", "log_write"}
    BY Zenon DEF IndInv, PhaseInv
  <2>2. Active = {}
    BY Zenon, <2>1 DEF Active
  <2>3. outstanding = 0
    BY SMTT(60), <2>2, FS_EmptySet DEF IndInv, CountInv
  <2>4. \A p, q \in Procs : InCommit(p) /\ InCommit(q) => p = q
    BY Zenon DEF IndInv, PhaseInv
  <2> QED  BY Zenon, <2>1, <2>3, <2>4 DEF CommitAlone
<1> QED  BY <1>1, Inductive, PTL

\* A process asleep in begin_op always has a call or a commit to wake it.
THEOREM WakeupsNotLost == Spec => []NoLostWakeup
<1>1. IndInv => NoLostWakeup
  BY Zenon DEF IndInv, SleepInv
<1> QED  BY <1>1, Inductive, PTL
-----------------------------------------------------------------------------
\* The inductive invariant says what the argument above needs of it.
LEMMA LogStateHolds == IndInv => LogState
<1> SUFFICES ASSUME IndInv PROVE LogState
  OBVIOUS
<1>1. TypeOK /\ PhaseInv
  BY Zenon DEF IndInv
<1>2. Len(lh) <= LOGSIZE
  BY Finiteness, LogAssumption DEF IndInv, ReserveInv, TypeOK
<1>3. ASSUME NEW p \in Procs, pc[p] \in {"op", "log_write"} PROVE outstanding > 0
  <2>1. p \in Active
    BY Zenon, <1>3 DEF Active
  <2> QED  BY <2>1, Finiteness, FS_EmptySet DEF IndInv, CountInv, TypeOK
<1>4. \A p \in Procs : pc[p] = "log_write" => held[p] \in Blocks
  BY Zenon DEF IndInv, WroteInv
<1> QED  BY Zenon, <1>1, <1>2, <1>3, <1>4 DEF LogState

\* The disk and the buffers satisfy AtomInv in every reachable state.
THEOREM LogDataCorrect == Spec => []AtomInv
<1>1. Init => AtomInv
  BY AtomStarts
<1> QED  BY <1>1, LogStateHolds, AtomNext, Inductive, PTL DEF Spec

\* log.c implements AtomicDisk for every number of processes, blocks and log
\* slots: the updates of a call become durable all together at one write of
\* the header, a crash at any moment, in the middle of a recovery included,
\* goes back to the last commit, and the committing end_op returns only after
\* it.
THEOREM LogIsAtomic == Spec => Atomicity
<1>1. Init /\ IndInv /\ AtomInv => AD!Init
  BY AtomInit, LogStateHolds
<1>2. Atomicity <=> AD!Init /\ [][AD!Next]_(AD!vars)
  BY PTL DEF Atomicity, AD!Spec
<1> QED  BY <1>1, <1>2, LogStateHolds, ViewsHold, AtomMaps, LogDataCorrect, Inductive, PTL DEF Spec
=============================================================================
