---------------------------- MODULE SSUSemProofs ----------------------------
(***************************************************************************)
(* The ring of SSU_Sem_toggle_test.c for any number of rounds.             *)
(*                                                                         *)
(* SSU_Sem_up takes no lock, so the ring is correct only because its one   *)
(* unit goes round: semaphore t is lowered by thread t alone and raised by *)
(* its predecessor alone, and the two are never both between the load and  *)
(* the store of its key.                                                   *)
(***************************************************************************)
EXTENDS MCSSUSem, FiniteSetTheorems, TLAPS

\* The three threads of the test have their three semaphores.
RingFits ==
  /\ NULL \notin Threads
  /\ 0..2 \subseteq Threads \cap Sems /\ Rounds \in Nat

\* Lines of down on which the caller's node is the head of the queue.
Queued == {"unlock", "spin", "waitlock", "first", "take", "takeload", "takestore",
           "pop", "popstore"}
\* Lines of down after the store of key - 1.
Taken == {"decunlock", "pop", "popstore", "free", "clear"}
\* Lines of down after key was seen to be positive and before that store.
Seen == {"dec", "decstore", "waitlock", "first", "take", "takeload", "takestore"}
Lines == {"call", "test", "enqueue", "walk", "upstore"} \cup Queued \cup Taken \cup Seen

RingTypes ==
  /\ pc \in [Threads -> Lines] /\ ip \in [Threads -> Nat]
  /\ reg \in [Threads -> Int] /\ key \in [Sems -> Int]
  /\ tmp \in [Threads -> Threads \cup {NULL}]
  /\ next \in [Threads -> Threads \cup {NULL}]
  /\ head \in [Sems -> Threads \cup {NULL}]
  /\ live \subseteq Threads /\ fault = FALSE

\* Where a thread is in its program, and the queue of its own semaphore: it
\* never has a node but the caller's.
PlaceAt(t) ==
  /\ ip[t] \in 1..(3 * Rounds + 1)
  /\ ip[t] = 3 * Rounds + 1 => pc[t] = "call"
  /\ pc[t] \notin {"call", "upstore"} => ip[t] % 3 = 1
  /\ pc[t] = "upstore" => ip[t] % 3 = 0
  /\ head[t] = (IF pc[t] \in Queued THEN t ELSE NULL)
  /\ next[t] = NULL
  /\ pc[t] \in {"walk", "popstore"} => tmp[t] = NULL
  /\ pc[t] \in Queued \cup {"walk"} => t \in live
PlaceInv ==
  /\ \A t \in Threads \ InRing : ip[t] = 1
  /\ \A t \in InRing : PlaceAt(t)

\* A key once seen positive stays 1 until its own thread stores 0.
KeyAt(t) ==
  /\ key[t] \in {0, 1}
  /\ pc[t] \in Seen => key[t] = 1
  /\ pc[t] \in {"decstore", "takestore"} => reg[t] = 1
  /\ pc[t] = "upstore" => reg[t] = 0
KeyInv == \A t \in InRing : KeyAt(t)

\* The unit is with thread t, which has yet to print; it has printed and is
\* about to raise the next semaphore.
Mine(t) == pc[t] \in Taken \/ ip[t] % 3 = 2
Passing(t) == ip[t] % 3 = 0

\* What has been printed when the next line is thread s's.
Printed(s) ==
  /\ Prints(0) = Prints(2) + (IF s = 0 THEN 0 ELSE 1)
  /\ Prints(1) = Prints(2) + (IF s = 2 THEN 1 ELSE 0)

\* There is at most one unit, and it is on its way to thread s's line.
Unit(s) ==
  /\ \A t \in InRing : (key[t] = 1 \/ Mine(t) => t = s) /\ (Passing(t) => After(t) = s)
  /\ ~(key[s] = 1 /\ Mine(s))
  /\ \A t \in InRing : Passing(t) => key[s] = 0 /\ ~Mine(s)
UnitInv == \E s \in InRing : Unit(s) /\ Printed(s)

\* The key of every semaphore counts the calls, one that is past its store
\* included.
CallsInv ==
  \A s \in Sems :
    key[s] = RingKey[s] + Completed("up", s) - Completed("down", s)
             - (IF s \in InRing /\ pc[s] \in Taken THEN 1 ELSE 0)

RingInv == RingTypes /\ PlaceInv /\ KeyInv /\ UnitInv /\ CallsInv

-----------------------------------------------------------------------------
\* The positions of the ring's programs, taken modulo 3.
LEMMA Mod3 ==
  ASSUME NEW i \in Nat, NEW n \in Nat
  PROVE  /\ i % 3 \in {0, 1, 2}
         /\ (i + 1) % 3 = (IF i % 3 = 2 THEN 0 ELSE (i % 3) + 1)
         /\ i <= 3 * n /\ i % 3 # 0 => i + 1 <= 3 * n
         /\ (3 * n + 1) % 3 = 1
OBVIOUS

\* The three threads of the ring and who follows whom.
LEMMA RingOrder ==
  /\ InRing = {0, 1, 2}
  /\ After(0) = 1 /\ After(1) = 2 /\ After(2) = 0
BY DEF After, InRing

\* What thread t of SSU_Sem_toggle_test.c calls at each position.
LEMMA RingCode ==
  ASSUME RingFits, NEW t \in InRing
  PROVE  /\ Len(RingProgram[t]) = 3 * Rounds
         /\ \A i \in 1..(3 * Rounds) :
              RingProgram[t][i] = (IF i % 3 = 1 THEN Down(t)
                                     ELSE IF i % 3 = 2 THEN Write ELSE Up(After(t)))
BY DEF RingProgram, InRing, RingFits

\* A thread that runs is one of the ring, and its call follows from where it
\* is in its program.
LEMMA RingRuns ==
  ASSUME RingFits, client = Ring, RingInv, NEW t \in Threads, Running(t)
  PROVE  /\ t \in InRing /\ t \in Sems /\ ip[t] \in 1..(3 * Rounds)
         /\ ip[t] % 3 = 1 => Op(t) = "down" /\ Sem(t) = t
         /\ ip[t] % 3 = 2 => Op(t) = "print" /\ Sem(t) = NULL
         /\ ip[t] % 3 = 0 => Op(t) = "up" /\ Sem(t) = After(t)
<1>1. Program = RingProgram
  BY DEF Program, Ring
<1>2. t \in InRing
  <2> SUFFICES ASSUME t \notin InRing PROVE FALSE
    OBVIOUS
  <2>1. Len(RingProgram[t]) = 0
    BY DEF RingProgram
  <2> QED  BY <1>1, <2>1 DEF RingInv, PlaceInv, Running
<1>3. ip[t] \in 1..(3 * Rounds) /\ t \in Sems
  BY <1>1, <1>2, RingCode DEF RingInv, PlaceInv, PlaceAt, Running, InRing, RingFits
<1>4. RingProgram[t][ip[t]] = (IF ip[t] % 3 = 1 THEN Down(t)
                                 ELSE IF ip[t] % 3 = 2 THEN Write ELSE Up(After(t)))
  BY <1>2, <1>3, RingCode
<1> QED  BY <1>1, <1>2, <1>3, <1>4 DEF Op, Sem, Down, Up, Write

\* The calls c that have returned.
Returned(c) ==
  UNION {{<<t, i>> : i \in {j \in 1..(ip[t] - 1) : RingProgram[t][j] = c}} : t \in Threads}

\* The returned calls are finitely many: only the ring has programs.
LEMMA ReturnedFinite ==
  ASSUME RingFits, RingInv, NEW c PROVE IsFiniteSet(Returned(c))
<1>1. IsFiniteSet(InRing \X (1..(3 * Rounds)))
  <2>1. IsFiniteSet(0..2) /\ IsFiniteSet(1..(3 * Rounds))
    <3>1. 0 \in Int /\ 1 \in Int /\ 2 \in Int /\ 3 * Rounds \in Int
      BY DEF RingFits
    <3> QED  BY <3>1, FS_Interval, Zenon
  <2> QED  BY <2>1, FS_Product DEF InRing
<1>2. Returned(c) \subseteq InRing \X (1..(3 * Rounds))
  <2> SUFFICES ASSUME NEW t \in Threads, NEW j \in 1..(ip[t] - 1)
               PROVE  t \in InRing /\ j \in 1..(3 * Rounds)
    BY DEF Returned
  <2>1. t \in InRing
    BY DEF RingInv, PlaceInv
  <2>2. ip[t] \in 1..(3 * Rounds + 1)
    BY <2>1 DEF RingInv, PlaceInv, PlaceAt
  <2> QED  BY <2>1, <2>2 DEF RingFits
<1> QED  BY <1>1, <1>2, FS_Subset

\* A return adds the call that returns and nothing else.
LEMMA ReturnAdds ==
  ASSUME RingFits, RingInv, NEW t \in InRing, ip[t] \in 1..(3 * Rounds),
         ip' = [ip EXCEPT ![t] = @ + 1], NEW c
  PROVE  /\ Returned(c)' = (IF RingProgram[t][ip[t]] = c
                            THEN Returned(c) \cup {<<t, ip[t]>>} ELSE Returned(c))
         /\ <<t, ip[t]>> \notin Returned(c)
<1>1. t \in Threads
  BY DEF InRing, RingFits
<1>2. ip \in [Threads -> Nat]
  BY DEF RingInv, RingTypes
<1>3. \A u \in Threads : \A j :
        j \in 1..(ip'[u] - 1) <=> j \in 1..(ip[u] - 1) \/ (u = t /\ j = ip[t])
  BY <1>1, <1>2
<1>4. <<t, ip[t]>> \notin Returned(c)
  BY <1>2 DEF Returned
<1>5. \A x : x \in Returned(c) <=>
        \E u \in Threads : \E j \in 1..(ip[u] - 1) : RingProgram[u][j] = c /\ x = <<u, j>>
  BY DEF Returned
<1>6. \A x : x \in Returned(c)' <=>
        \E u \in Threads : \E j \in 1..(ip'[u] - 1) : RingProgram[u][j] = c /\ x = <<u, j>>
  BY DEF Returned
<1>7. \A x : x \in Returned(c)' <=>
        x \in Returned(c) \/ (RingProgram[t][ip[t]] = c /\ x = <<t, ip[t]>>)
  BY <1>1, <1>3, <1>5, <1>6
<1> QED  BY <1>4, <1>7

\* The number of returned calls c goes up by one when c returns.
LEMMA ReturnCounts ==
  ASSUME RingFits, RingInv, NEW t \in InRing, ip[t] \in 1..(3 * Rounds),
         ip' = [ip EXCEPT ![t] = @ + 1], NEW c
  PROVE  /\ Cardinality(Returned(c)) \in Nat
         /\ Cardinality(Returned(c)') =
              Cardinality(Returned(c)) + (IF RingProgram[t][ip[t]] = c THEN 1 ELSE 0)
<1>1. IsFiniteSet(Returned(c)) /\ Cardinality(Returned(c)) \in Nat
  BY ReturnedFinite, FS_CardinalityType
<1>2. Cardinality(Returned(c) \cup {<<t, ip[t]>>}) = Cardinality(Returned(c)) + 1
  BY <1>1, ReturnAdds, FS_AddElement
<1>3. CASE RingProgram[t][ip[t]] = c
  <2>1. Returned(c)' = Returned(c) \cup {<<t, ip[t]>>}
    BY <1>3, ReturnAdds
  <2> QED  BY <1>1, <1>2, <1>3, <2>1
<1>4. CASE RingProgram[t][ip[t]] # c
  <2>1. Returned(c)' = Returned(c)
    BY <1>4, ReturnAdds
  <2> QED  BY <1>1, <1>4, <2>1
<1> QED  BY <1>3, <1>4

\* The lines thread t has printed.
LinesOf(t) == {i \in 1..(ip[t] - 1) : RingProgram[t][i] = Write}

\* Thread u has printed one line more when thread t's print returns and u = t.
LEMMA PrintCounts ==
  ASSUME RingFits, RingInv, NEW t \in InRing, ip[t] \in 1..(3 * Rounds),
         ip' = [ip EXCEPT ![t] = @ + 1], NEW u \in InRing
  PROVE  /\ Cardinality(LinesOf(u)) \in Nat
         /\ Cardinality(LinesOf(u)') = Cardinality(LinesOf(u)) +
              (IF u = t /\ RingProgram[t][ip[t]] = Write THEN 1 ELSE 0)
<1>1. ip \in [Threads -> Nat] /\ t \in Threads /\ u \in Threads
  BY DEF RingInv, RingTypes, InRing, RingFits
<1>2. IsFiniteSet(LinesOf(u)) /\ Cardinality(LinesOf(u)) \in Nat
  <2>1. 1 \in Int /\ ip[u] - 1 \in Int
    BY <1>1
  <2>2. IsFiniteSet(1..(ip[u] - 1))
    BY <2>1, FS_Interval, Zenon
  <2> QED  BY <2>2, FS_Subset, FS_CardinalityType DEF LinesOf
<1>3. CASE u = t /\ RingProgram[t][ip[t]] = Write
  <2>1. LinesOf(t)' = LinesOf(t) \cup {ip[t]} /\ ip[t] \notin LinesOf(t)
    BY <1>1, <1>3 DEF LinesOf
  <2> QED  BY <1>2, <1>3, <2>1, FS_AddElement
<1>4. CASE ~(u = t /\ RingProgram[t][ip[t]] = Write)
  <2>1. LinesOf(u)' = LinesOf(u)
    BY <1>1, <1>4 DEF LinesOf
  <2> QED  BY <1>2, <1>4, <2>1
<1> QED  BY <1>3, <1>4

\* The counts the properties are stated with, in the ring.
LEMMA RingCounts ==
  ASSUME client = Ring
  PROVE  /\ \A t : Prints(t) = Cardinality(LinesOf(t))
         /\ \A op, s : Completed(op, s) = Cardinality(Returned([op |-> op, sem |-> s]))
BY DEF Prints, Completed, Program, Ring, LinesOf, Returned

\* The number of completed calls is a number.
LEMMA CompletedNat ==
  ASSUME RingFits, client = Ring, RingInv
  PROVE  \A op, s : Completed(op, s) \in Nat
BY RingCounts, ReturnedFinite, FS_CardinalityType

\* The same in the next state.
LEMMA RingCountsNext ==
  ASSUME client = Ring, client' = client
  PROVE  /\ \A t : Prints(t)' = Cardinality(LinesOf(t)')
         /\ \A op, s : Completed(op, s)' = Cardinality(Returned([op |-> op, sem |-> s])')
<1>1. client' = Ring
  OBVIOUS
<1> QED  BY <1>1 DEF Prints, Completed, Program, Ring, LinesOf, Returned

\* No count changes while no call returns.
LEMMA CountsStay ==
  ASSUME client = Ring, client' = client, ip' = ip
  PROVE  /\ \A u : Prints(u)' = Prints(u)
         /\ \A op, s : Completed(op, s)' = Completed(op, s)
<1>1. \A u : LinesOf(u)' = LinesOf(u)
  BY DEF LinesOf
<1>2. \A c : Returned(c)' = Returned(c)
  BY DEF Returned
<1> QED  BY <1>1, <1>2, RingCounts, RingCountsNext

-----------------------------------------------------------------------------
\* A step of thread t that leaves the other threads where they are, and their
\* keys alone or raised, needs only what it does to thread t.
LEMMA OthersStay ==
  ASSUME RingFits, RingInv, NEW t \in InRing,
         \A u \in Threads \ {t} :
           /\ ip'[u] = ip[u] /\ pc'[u] = pc[u] /\ next'[u] = next[u]
           /\ tmp'[u] = tmp[u] /\ reg'[u] = reg[u] /\ (u \in live => u \in live'),
         \A u \in InRing \ {t} : head'[u] = head[u] /\ key'[u] \in {key[u], 1},
         PlaceAt(t)', KeyAt(t)'
  PROVE  PlaceInv' /\ KeyInv'
<1>1. InRing \subseteq Threads
  BY DEF InRing, RingFits
<1>2. \A u \in Threads \ InRing : ip'[u] = 1
  BY DEF RingInv, PlaceInv
<1>3. ASSUME NEW u \in InRing, u # t PROVE PlaceAt(u)' /\ KeyAt(u)'
  <2>1. PlaceAt(u) /\ KeyAt(u)
    BY DEF RingInv, PlaceInv, KeyInv
  <2>2. /\ ip'[u] = ip[u] /\ pc'[u] = pc[u] /\ next'[u] = next[u]
        /\ tmp'[u] = tmp[u] /\ reg'[u] = reg[u] /\ (u \in live => u \in live')
        /\ head'[u] = head[u] /\ key'[u] \in {key[u], 1}
    BY <1>1, <1>3
  <2>3. PlaceAt(u)'
    BY <2>1, <2>2 DEF PlaceAt
  <2>4. KeyAt(u)'
    BY <2>1, <2>2 DEF KeyAt
  <2> QED  BY <2>3, <2>4
<1> QED  BY <1>2, <1>3 DEF PlaceInv, KeyInv, PlaceAt, KeyAt

\* A step that returns from no call and stores no key keeps the unit and the
\* counts where they are.
LEMMA UnitStays ==
  ASSUME RingFits, client = Ring, client' = client, RingInv, key' = key, ip' = ip,
         \A u \in InRing : pc'[u] \in Taken <=> pc[u] \in Taken
  PROVE  UnitInv' /\ CallsInv'
<1>1. /\ \A u : Prints(u)' = Prints(u)
      /\ \A op, s : Completed(op, s)' = Completed(op, s)
  BY CountsStay
<1>2. \A u \in InRing : (Mine(u)' <=> Mine(u)) /\ (Passing(u)' <=> Passing(u))
  BY DEF Mine, Passing
<1>3. PICK s \in InRing : Unit(s) /\ Printed(s)
  BY DEF RingInv, UnitInv
<1>4. Unit(s)'
  BY <1>2, <1>3 DEF Unit
<1>5. Printed(s)'
  BY <1>1, <1>3 DEF Printed
<1>6. CallsInv'
  BY <1>1 DEF RingInv, CallsInv, RingKey
<1> QED  BY <1>4, <1>5, <1>6 DEF UnitInv

\* The lines of down that touch neither key nor the end of the call.
LEMMA DownMoves ==
  ASSUME RingFits, client = Ring, client' = client, RingInv, NEW t \in Threads
  PROVE  \/ DownLock(t) \/ DownTest(t) \/ Enqueue(t) \/ Walk(t) \/ Link(t)
         \/ Unlock(t) \/ DecLoad(t) \/ Spin(t) \/ TestWaitLock(t) \/ TestFirst(t)
         \/ Take(t) \/ TakeLoad(t) \/ Pop(t) \/ PopStore(t) \/ Free(t)
         => RingInv'
<1>1. ASSUME Running(t), Op(t) = "down" \/ pc[t] \notin {"call", "upstore"}
      PROVE  /\ t \in InRing /\ t \in Sems /\ ip[t] \in 1..(3 * Rounds)
             /\ ip[t] % 3 = 1 /\ Sem(t) = t /\ PlaceAt(t) /\ KeyAt(t)
  <2>1. /\ t \in InRing /\ t \in Sems /\ ip[t] \in 1..(3 * Rounds)
        /\ ip[t] % 3 = 1 => Op(t) = "down" /\ Sem(t) = t
        /\ ip[t] % 3 = 2 => Op(t) = "print"
        /\ ip[t] % 3 = 0 => Op(t) = "up"
    BY <1>1, RingRuns
  <2>2. PlaceAt(t) /\ KeyAt(t)
    BY <2>1 DEF RingInv, PlaceInv, KeyInv
  <2>3. ip[t] % 3 \in {0, 1, 2}
    BY <2>1, Mod3 DEF RingFits
  <2>4. ip[t] % 3 = 1
    BY <1>1, <2>1, <2>2, <2>3 DEF PlaceAt
  <2> QED  BY <2>1, <2>2, <2>4
<1>2. InRing \subseteq Threads /\ NULL \notin Threads /\ Rounds \in Nat
  BY DEF InRing, RingFits
<1>3. RingTypes
  BY DEF RingInv
<1> DEFINE Here == PlaceAt(t)' /\ KeyAt(t)' /\ (pc'[t] \in Taken <=> pc[t] \in Taken)
<1> DEFINE Others ==
      /\ \A u \in Threads \ {t} :
           /\ ip'[u] = ip[u] /\ pc'[u] = pc[u] /\ next'[u] = next[u]
           /\ tmp'[u] = tmp[u] /\ reg'[u] = reg[u] /\ (u \in live => u \in live')
      /\ \A u \in InRing \ {t} : head'[u] = head[u] /\ key'[u] \in {key[u], 1}
<1>4. ASSUME t \in InRing, key' = key, ip' = ip, RingTypes', Here, Others PROVE RingInv'
  <2>1. PlaceInv' /\ KeyInv'
    BY <1>4, OthersStay
  <2>2. \A u \in InRing : pc'[u] \in Taken <=> pc[u] \in Taken
    BY <1>2, <1>4
  <2>3. UnitInv' /\ CallsInv'
    BY <1>4, <2>2, UnitStays
  <2> QED  BY <1>4, <2>1, <2>3 DEF RingInv
<1> USE DEF At, Goto, nodeVars, semVars
<1>5. ASSUME DownLock(t) PROVE RingInv'
  <2>1. /\ t \in InRing /\ t \in Sems /\ ip[t] \in 1..(3 * Rounds) /\ fault = FALSE
        /\ ip[t] % 3 = 1 /\ Sem(t) = t /\ PlaceAt(t) /\ KeyAt(t)
    BY <1>5, <1>1, <1>3 DEF DownLock, RingTypes
  <2>2. key' = key /\ ip' = ip /\ RingTypes' /\ Others
    BY <1>5, <1>2, <1>3, <2>1
    DEF DownLock, PlaceAt, RingTypes, Lines, Queued, Taken, Seen
  <2>3. Here
    BY <1>5, <1>2, <1>3, <2>1 DEF DownLock, RingTypes, PlaceAt, KeyAt, Queued, Taken, Seen
  <2> QED  BY <1>4, <2>1, <2>2, <2>3
<1>6. ASSUME DownTest(t) PROVE RingInv'
  <2>1. /\ t \in InRing /\ t \in Sems /\ ip[t] \in 1..(3 * Rounds) /\ fault = FALSE
        /\ ip[t] % 3 = 1 /\ Sem(t) = t /\ PlaceAt(t) /\ KeyAt(t)
    BY <1>6, <1>1, <1>3 DEF DownTest, RingTypes
  <2>2. key' = key /\ ip' = ip /\ RingTypes' /\ Others
    BY <1>6, <1>2, <1>3, <2>1
    DEF DownTest, PlaceAt, RingTypes, Lines, Queued, Taken, Seen
  <2>3. Here
    BY <1>6, <1>2, <1>3, <2>1 DEF DownTest, RingTypes, PlaceAt, KeyAt, Queued, Taken, Seen
  <2> QED  BY <1>4, <2>1, <2>2, <2>3
<1>7. ASSUME Enqueue(t) PROVE RingInv'
  <2>1. /\ t \in InRing /\ t \in Sems /\ ip[t] \in 1..(3 * Rounds) /\ fault = FALSE
        /\ ip[t] % 3 = 1 /\ Sem(t) = t /\ PlaceAt(t) /\ KeyAt(t)
    BY <1>7, <1>1, <1>3 DEF Enqueue, RingTypes
  <2>2. key' = key /\ ip' = ip /\ RingTypes' /\ Others
    BY <1>7, <1>2, <1>3, <2>1
    DEF Enqueue, PlaceAt, RingTypes, Lines, Queued, Taken, Seen
  <2>3. Here
    BY <1>7, <1>2, <1>3, <2>1 DEF Enqueue, RingTypes, PlaceAt, KeyAt, Queued, Taken, Seen
  <2> QED  BY <1>4, <2>1, <2>2, <2>3
<1>8. ASSUME Walk(t) PROVE RingInv'
  <2>1. /\ t \in InRing /\ t \in Sems /\ ip[t] \in 1..(3 * Rounds) /\ fault = FALSE
        /\ ip[t] % 3 = 1 /\ Sem(t) = t /\ PlaceAt(t) /\ KeyAt(t)
    BY <1>8, <1>1, <1>3 DEF Walk, RingTypes
  <2>2. tmp[t] = NULL /\ NULL \notin live
    BY <1>8, <1>2, <1>3, <2>1 DEF Walk, PlaceAt, RingTypes
  <2>3. /\ pc[t] = "walk" /\ head' = [head EXCEPT ![t] = t] /\ pc' = [pc EXCEPT ![t] = "unlock"]
        /\ UNCHANGED <<key, next, live, ip, reg, tmp, fault>>
    BY <1>8, <1>2, <2>1, <2>2 DEF Walk
  <2>4. RingTypes' /\ Others
    BY <1>2, <1>3, <2>1, <2>3 DEF RingTypes, Lines, Queued, Taken, Seen
  <2>5. Here
    BY <1>2, <1>3, <2>1, <2>3 DEF RingTypes, PlaceAt, KeyAt, Queued, Taken, Seen
  <2> QED  BY <1>4, <2>1, <2>3, <2>4, <2>5
<1>9. ASSUME Unlock(t) PROVE RingInv'
  <2>1. /\ t \in InRing /\ t \in Sems /\ ip[t] \in 1..(3 * Rounds) /\ fault = FALSE
        /\ ip[t] % 3 = 1 /\ Sem(t) = t /\ PlaceAt(t) /\ KeyAt(t)
    BY <1>9, <1>1, <1>3 DEF Unlock, RingTypes
  <2>2. key' = key /\ ip' = ip /\ RingTypes' /\ Others
    BY <1>9, <1>2, <1>3, <2>1
    DEF Unlock, PlaceAt, RingTypes, Lines, Queued, Taken, Seen
  <2>3. Here
    BY <1>9, <1>2, <1>3, <2>1 DEF Unlock, RingTypes, PlaceAt, KeyAt, Queued, Taken, Seen
  <2> QED  BY <1>4, <2>1, <2>2, <2>3
<1>10. ASSUME DecLoad(t) PROVE RingInv'
  <2>1. /\ t \in InRing /\ t \in Sems /\ ip[t] \in 1..(3 * Rounds) /\ fault = FALSE
        /\ ip[t] % 3 = 1 /\ Sem(t) = t /\ PlaceAt(t) /\ KeyAt(t)
    BY <1>10, <1>1, <1>3 DEF DecLoad, RingTypes
  <2>2. key' = key /\ ip' = ip /\ RingTypes' /\ Others
    BY <1>10, <1>2, <1>3, <2>1
    DEF DecLoad, PlaceAt, RingTypes, Lines, Queued, Taken, Seen
  <2>3. Here
    BY <1>10, <1>2, <1>3, <2>1 DEF DecLoad, RingTypes, PlaceAt, KeyAt, Queued, Taken, Seen
  <2> QED  BY <1>4, <2>1, <2>2, <2>3
<1>11. ASSUME Spin(t) PROVE RingInv'
  <2>1. /\ t \in InRing /\ t \in Sems /\ ip[t] \in 1..(3 * Rounds) /\ fault = FALSE
        /\ ip[t] % 3 = 1 /\ Sem(t) = t /\ PlaceAt(t) /\ KeyAt(t)
    BY <1>11, <1>1, <1>3 DEF Spin, RingTypes
  <2>2. key' = key /\ ip' = ip /\ RingTypes' /\ Others
    BY <1>11, <1>2, <1>3, <2>1
    DEF Spin, PlaceAt, RingTypes, Lines, Queued, Taken, Seen
  <2>3. Here
    BY <1>11, <1>2, <1>3, <2>1 DEF Spin, RingTypes, PlaceAt, KeyAt, Queued, Taken, Seen
  <2> QED  BY <1>4, <2>1, <2>2, <2>3
<1>12. ASSUME TestWaitLock(t) PROVE RingInv'
  <2>1. /\ t \in InRing /\ t \in Sems /\ ip[t] \in 1..(3 * Rounds) /\ fault = FALSE
        /\ ip[t] % 3 = 1 /\ Sem(t) = t /\ PlaceAt(t) /\ KeyAt(t)
    BY <1>12, <1>1, <1>3 DEF TestWaitLock, RingTypes
  <2>2. key' = key /\ ip' = ip /\ RingTypes' /\ Others
    BY <1>12, <1>2, <1>3, <2>1
    DEF TestWaitLock, PlaceAt, RingTypes, Lines, Queued, Taken, Seen
  <2>3. Here
    BY <1>12, <1>2, <1>3, <2>1 DEF TestWaitLock, RingTypes, PlaceAt, KeyAt, Queued, Taken, Seen
  <2> QED  BY <1>4, <2>1, <2>2, <2>3
<1>13. ASSUME TestFirst(t) PROVE RingInv'
  <2>1. /\ t \in InRing /\ t \in Sems /\ ip[t] \in 1..(3 * Rounds) /\ fault = FALSE
        /\ ip[t] % 3 = 1 /\ Sem(t) = t /\ PlaceAt(t) /\ KeyAt(t)
    BY <1>13, <1>1, <1>3 DEF TestFirst, RingTypes
  <2>2. key' = key /\ ip' = ip /\ RingTypes' /\ Others
    BY <1>13, <1>2, <1>3, <2>1
    DEF TestFirst, PlaceAt, RingTypes, Lines, Queued, Taken, Seen
  <2>3. Here
    BY <1>13, <1>2, <1>3, <2>1 DEF TestFirst, RingTypes, PlaceAt, KeyAt, Queued, Taken, Seen
  <2> QED  BY <1>4, <2>1, <2>2, <2>3
<1>14. ASSUME Take(t) PROVE RingInv'
  <2>1. /\ t \in InRing /\ t \in Sems /\ ip[t] \in 1..(3 * Rounds) /\ fault = FALSE
        /\ ip[t] % 3 = 1 /\ Sem(t) = t /\ PlaceAt(t) /\ KeyAt(t)
    BY <1>14, <1>1, <1>3 DEF Take, RingTypes
  <2>2. key' = key /\ ip' = ip /\ RingTypes' /\ Others
    BY <1>14, <1>2, <1>3, <2>1
    DEF Take, PlaceAt, RingTypes, Lines, Queued, Taken, Seen
  <2>3. Here
    BY <1>14, <1>2, <1>3, <2>1 DEF Take, RingTypes, PlaceAt, KeyAt, Queued, Taken, Seen
  <2> QED  BY <1>4, <2>1, <2>2, <2>3
<1>15. ASSUME TakeLoad(t) PROVE RingInv'
  <2>1. /\ t \in InRing /\ t \in Sems /\ ip[t] \in 1..(3 * Rounds) /\ fault = FALSE
        /\ ip[t] % 3 = 1 /\ Sem(t) = t /\ PlaceAt(t) /\ KeyAt(t)
    BY <1>15, <1>1, <1>3 DEF TakeLoad, RingTypes
  <2>2. key' = key /\ ip' = ip /\ RingTypes' /\ Others
    BY <1>15, <1>2, <1>3, <2>1
    DEF TakeLoad, PlaceAt, RingTypes, Lines, Queued, Taken, Seen
  <2>3. Here
    BY <1>15, <1>2, <1>3, <2>1 DEF TakeLoad, RingTypes, PlaceAt, KeyAt, Queued, Taken, Seen
  <2> QED  BY <1>4, <2>1, <2>2, <2>3
<1>16. ASSUME Pop(t) PROVE RingInv'
  <2>1. /\ t \in InRing /\ t \in Sems /\ ip[t] \in 1..(3 * Rounds) /\ fault = FALSE
        /\ ip[t] % 3 = 1 /\ Sem(t) = t /\ PlaceAt(t) /\ KeyAt(t)
    BY <1>16, <1>1, <1>3 DEF Pop, RingTypes
  <2>2. key' = key /\ ip' = ip /\ RingTypes' /\ Others
    BY <1>16, <1>2, <1>3, <2>1
    DEF Pop, PlaceAt, RingTypes, Lines, Queued, Taken, Seen
  <2>3. Here
    BY <1>16, <1>2, <1>3, <2>1 DEF Pop, RingTypes, PlaceAt, KeyAt, Queued, Taken, Seen
  <2> QED  BY <1>4, <2>1, <2>2, <2>3
<1>17. ASSUME PopStore(t) PROVE RingInv'
  <2>1. /\ t \in InRing /\ t \in Sems /\ ip[t] \in 1..(3 * Rounds) /\ fault = FALSE
        /\ ip[t] % 3 = 1 /\ Sem(t) = t /\ PlaceAt(t) /\ KeyAt(t)
    BY <1>17, <1>1, <1>3 DEF PopStore, RingTypes
  <2>2. key' = key /\ ip' = ip /\ RingTypes' /\ Others
    BY <1>17, <1>2, <1>3, <2>1
    DEF PopStore, PlaceAt, RingTypes, Lines, Queued, Taken, Seen
  <2>3. Here
    BY <1>17, <1>2, <1>3, <2>1 DEF PopStore, RingTypes, PlaceAt, KeyAt, Queued, Taken, Seen
  <2> QED  BY <1>4, <2>1, <2>2, <2>3
<1>18. ASSUME Free(t) PROVE RingInv'
  <2>1. /\ t \in InRing /\ t \in Sems /\ ip[t] \in 1..(3 * Rounds) /\ fault = FALSE
        /\ ip[t] % 3 = 1 /\ Sem(t) = t /\ PlaceAt(t) /\ KeyAt(t)
    BY <1>18, <1>1, <1>3 DEF Free, RingTypes
  <2>2. key' = key /\ ip' = ip /\ RingTypes' /\ Others
    BY <1>18, <1>2, <1>3, <2>1
    DEF Free, PlaceAt, RingTypes, Lines, Queued, Taken, Seen
  <2>3. Here
    BY <1>18, <1>2, <1>3, <2>1 DEF Free, RingTypes, PlaceAt, KeyAt, Queued, Taken, Seen
  <2> QED  BY <1>4, <2>1, <2>2, <2>3
<1>19. ~Link(t)
  BY <1>3 DEF Link, RingTypes, Lines, Queued, Taken, Seen
<1> QED  BY <1>5, <1>6, <1>7, <1>8, <1>9, <1>10, <1>11, <1>12,
            <1>13, <1>14, <1>15, <1>16, <1>17, <1>18, <1>19

\* The store of key - 1: the unit passes from semaphore t to thread t.
LEMMA TakeInd ==
  ASSUME RingFits, client = Ring, client' = client, RingInv, NEW t \in Threads,
         DecStore(t) \/ TakeStore(t)
  PROVE  RingInv'
<1> USE DEF At, Goto, nodeVars, semVars
<1>1. Running(t)
  BY DEF DecStore, TakeStore
<1>2. /\ t \in InRing /\ t \in Sems /\ InRing \subseteq Threads \cap Sems
      /\ NULL \notin Threads /\ Rounds \in Nat /\ ip[t] \in 1..(3 * Rounds)
      /\ ip[t] % 3 = 1 => Sem(t) = t
  BY <1>1, RingRuns DEF InRing, RingFits
<1>3. RingTypes /\ PlaceInv /\ KeyInv
  BY DEF RingInv
<1>4. /\ pc[t] \in {"decstore", "takestore"} /\ ip[t] % 3 = 1 /\ Sem(t) = t
      /\ key[t] = 1 /\ reg[t] = 1
  BY <1>2, <1>3 DEF DecStore, TakeStore, PlaceInv, KeyInv, PlaceAt, KeyAt, Seen
<1>5. /\ key' = [key EXCEPT ![t] = 0] /\ ip' = ip
      /\ \/ pc[t] = "decstore" /\ pc' = [pc EXCEPT ![t] = "decunlock"]
         \/ pc[t] = "takestore" /\ pc' = [pc EXCEPT ![t] = "pop"]
      /\ UNCHANGED <<head, next, live, reg, tmp, fault>>
  BY <1>4 DEF DecStore, TakeStore
<1>6. RingTypes' /\ PlaceInv' /\ KeyInv'
  <2>1. RingTypes'
    BY <1>2, <1>3, <1>4, <1>5 DEF RingTypes, Lines, Queued, Taken, Seen
  <2>2. PlaceAt(t) /\ KeyAt(t)
    BY <1>2, <1>3, <1>4, <1>5 DEF PlaceInv, KeyInv
  <2>3. PlaceAt(t)'
    BY <1>2, <1>3, <1>4, <1>5, <2>2 DEF RingTypes, PlaceAt, Queued, Taken, Seen
  <2>4. KeyAt(t)'
    BY <1>2, <1>3, <1>4, <1>5, <2>2 DEF RingTypes, KeyAt, Queued, Taken, Seen
  <2>5. /\ \A u \in Threads \ {t} :
             /\ ip'[u] = ip[u] /\ pc'[u] = pc[u] /\ next'[u] = next[u]
             /\ tmp'[u] = tmp[u] /\ reg'[u] = reg[u] /\ (u \in live => u \in live')
        /\ \A u \in InRing \ {t} : head'[u] = head[u] /\ key'[u] \in {key[u], 1}
    BY <1>2, <1>3, <1>4, <1>5 DEF RingTypes
  <2> QED  BY <1>2, <2>1, <2>3, <2>4, <2>5, OthersStay
<1>7. /\ \A u : Prints(u)' = Prints(u)
      /\ \A op, s : Completed(op, s)' = Completed(op, s)
  BY <1>5, CountsStay
<1>8. UnitInv'
  <2>1. PICK s \in InRing : Unit(s) /\ Printed(s)
    BY DEF RingInv, UnitInv
  <2>2. s = t
    BY <1>2, <1>4, <2>1 DEF Unit
  <2>3. Unit(t)'
    BY <1>2, <1>3, <1>4, <1>5, <2>1, <2>2 DEF Unit, Mine, Passing, RingTypes, KeyInv, KeyAt, Taken
  <2>4. Printed(t)'
    BY <1>7, <2>1, <2>2 DEF Printed
  <2> QED  BY <1>2, <2>3, <2>4 DEF UnitInv
<1>9. CallsInv'
  <2> SUFFICES ASSUME NEW s \in Sems
               PROVE  key'[s] = RingKey[s] + Completed("up", s) - Completed("down", s)
                        - (IF s \in InRing /\ pc'[s] \in Taken THEN 1 ELSE 0)
    BY <1>7 DEF CallsInv, RingKey
  <2>1. /\ RingKey[s] \in Int
        /\ Completed("up", s) \in Nat /\ Completed("down", s) \in Nat
    BY CompletedNat DEF RingKey
  <2>2. key[s] = RingKey[s] + Completed("up", s) - Completed("down", s)
                   - (IF s \in InRing /\ pc[s] \in Taken THEN 1 ELSE 0)
    BY DEF RingInv, CallsInv
  <2>3. CASE s = t
    BY <1>2, <1>3, <1>4, <1>5, <2>1, <2>2, <2>3 DEF RingTypes, Taken
  <2>4. CASE s # t
    BY <1>2, <1>3, <1>5, <2>1, <2>2, <2>4 DEF RingTypes
  <2> QED  BY <2>3, <2>4
<1> QED  BY <1>6, <1>8, <1>9 DEF RingInv

\* The load of up: nobody else can change the key it loads, which is 0.
LEMMA UpLoadInd ==
  ASSUME RingFits, client = Ring, client' = client, RingInv, NEW t \in Threads, UpLoad(t)
  PROVE  RingInv'
<1> USE DEF At, Goto, nodeVars, semVars
<1>1. Running(t) /\ Op(t) = "up" /\ pc[t] = "call"
  BY DEF UpLoad
<1>2. /\ t \in InRing /\ InRing \subseteq Threads \cap Sems
      /\ NULL \notin Threads /\ Rounds \in Nat /\ ip[t] \in 1..(3 * Rounds)
  BY <1>1, RingRuns DEF InRing, RingFits
<1>3. ip[t] % 3 = 0 /\ Sem(t) = After(t)
  BY <1>1, <1>2, RingRuns, Mod3
<1>4. RingTypes /\ PlaceInv /\ KeyInv
  BY DEF RingInv
<1>5. key[After(t)] = 0
  BY <1>2, <1>3 DEF RingInv, UnitInv, Unit, Passing
<1>6. /\ key' = key /\ ip' = ip /\ pc' = [pc EXCEPT ![t] = "upstore"]
      /\ reg' = [reg EXCEPT ![t] = 0]
      /\ UNCHANGED <<head, next, live, tmp, fault>>
  BY <1>3, <1>5 DEF UpLoad
<1>7. RingTypes' /\ PlaceInv' /\ KeyInv'
  <2>1. RingTypes'
    BY <1>1, <1>2, <1>3, <1>4, <1>6 DEF RingTypes, Lines, Queued, Taken, Seen
  <2>2. PlaceAt(t) /\ KeyAt(t)
    BY <1>1, <1>2, <1>3, <1>4, <1>6 DEF PlaceInv, KeyInv
  <2>3. PlaceAt(t)'
    BY <1>1, <1>2, <1>3, <1>4, <1>6, <2>2 DEF RingTypes, PlaceAt, Queued, Taken, Seen
  <2>4. KeyAt(t)'
    BY <1>1, <1>2, <1>3, <1>4, <1>6, <2>2 DEF RingTypes, KeyAt, Queued, Taken, Seen
  <2>5. /\ \A u \in Threads \ {t} :
             /\ ip'[u] = ip[u] /\ pc'[u] = pc[u] /\ next'[u] = next[u]
             /\ tmp'[u] = tmp[u] /\ reg'[u] = reg[u] /\ (u \in live => u \in live')
        /\ \A u \in InRing \ {t} : head'[u] = head[u] /\ key'[u] \in {key[u], 1}
    BY <1>1, <1>2, <1>3, <1>4, <1>6 DEF RingTypes
  <2> QED  BY <1>2, <2>1, <2>3, <2>4, <2>5, OthersStay
<1>8. UnitInv' /\ CallsInv'
  <2>1. \A u \in InRing : pc'[u] \in Taken <=> pc[u] \in Taken
    BY <1>1, <1>2, <1>4, <1>6 DEF RingTypes, Taken
  <2> QED  BY <1>6, <2>1, UnitStays
<1> QED  BY <1>7, <1>8 DEF RingInv

\* What the counts become when thread t's call returns.
LEMMA ReturnMoves ==
  ASSUME RingFits, client = Ring, client' = client, RingInv, NEW t \in InRing,
         ip[t] \in 1..(3 * Rounds), ip' = [ip EXCEPT ![t] = @ + 1]
  PROVE  /\ \A u \in InRing :
              /\ Prints(u) \in Nat
              /\ Prints(u)' = (IF u = t /\ ip[t] % 3 = 2
                                 THEN Prints(u) + 1 ELSE Prints(u))
         /\ \A s \in Sems :
              /\ Completed("down", s)' = (IF s = t /\ ip[t] % 3 = 1
                   THEN Completed("down", s) + 1 ELSE Completed("down", s))
              /\ Completed("up", s)' = (IF s = After(t) /\ ip[t] % 3 = 0
                   THEN Completed("up", s) + 1 ELSE Completed("up", s))
<1>1. RingProgram[t][ip[t]] = (IF ip[t] % 3 = 1 THEN Down(t)
                                 ELSE IF ip[t] % 3 = 2 THEN Write ELSE Up(After(t)))
  BY RingCode
<1>2. ip[t] % 3 \in {0, 1, 2}
  BY Mod3 DEF RingFits
<1>3. RingProgram[t][ip[t]] = Write <=> ip[t] % 3 = 2
  BY <1>1, <1>2 DEF Down, Up, Write
<1>4. \A s : RingProgram[t][ip[t]] = [op |-> "down", sem |-> s] <=> s = t /\ ip[t] % 3 = 1
  BY <1>1, <1>2 DEF Down, Up, Write
<1>5. \A s : RingProgram[t][ip[t]] = [op |-> "up", sem |-> s]
               <=> s = After(t) /\ ip[t] % 3 = 0
  BY <1>1, <1>2 DEF Down, Up, Write
<1>6. ASSUME NEW u \in InRing
      PROVE  /\ Prints(u) \in Nat
             /\ Prints(u)' = (IF u = t /\ ip[t] % 3 = 2
                                THEN Prints(u) + 1 ELSE Prints(u))
  <2>1. /\ Cardinality(LinesOf(u)) \in Nat
        /\ Cardinality(LinesOf(u)') = Cardinality(LinesOf(u)) +
             (IF u = t /\ RingProgram[t][ip[t]] = Write THEN 1 ELSE 0)
    BY PrintCounts
  <2> QED  BY <1>3, <2>1, RingCounts, RingCountsNext
<1>7. ASSUME NEW op, NEW s
      PROVE  Completed(op, s)' = Completed(op, s) +
               (IF RingProgram[t][ip[t]] = [op |-> op, sem |-> s] THEN 1 ELSE 0)
  <2> DEFINE c == [op |-> op, sem |-> s]
  <2> HIDE DEF c
  <2>1. Cardinality(Returned(c)') =
          Cardinality(Returned(c)) + (IF RingProgram[t][ip[t]] = c THEN 1 ELSE 0)
    BY ReturnCounts
  <2>2. /\ Completed(op, s) = Cardinality(Returned(c))
        /\ Completed(op, s)' = Cardinality(Returned(c)')
    BY RingCounts, RingCountsNext DEF c
  <2>3. Completed(op, s)' = Completed(op, s)
                                + (IF RingProgram[t][ip[t]] = c THEN 1 ELSE 0)
    BY <2>1, <2>2
  <2> QED  BY <2>3 DEF c
<1>8. \A op, s : Completed(op, s) \in Nat
  BY CompletedNat
<1>9. ASSUME NEW s \in Sems
      PROVE
        /\ Completed("down", s)' = (IF s = t /\ ip[t] % 3 = 1
             THEN Completed("down", s) + 1 ELSE Completed("down", s))
        /\ Completed("up", s)' = (IF s = After(t) /\ ip[t] % 3 = 0
             THEN Completed("up", s) + 1 ELSE Completed("up", s))
  <2>1. /\ Completed("down", s) \in Nat /\ Completed("up", s) \in Nat
        /\ Completed("down", s)' = Completed("down", s) +
             (IF RingProgram[t][ip[t]] = [op |-> "down", sem |-> s] THEN 1 ELSE 0)
        /\ Completed("up", s)' = Completed("up", s) +
             (IF RingProgram[t][ip[t]] = [op |-> "up", sem |-> s] THEN 1 ELSE 0)
    BY <1>7, <1>8
  <2>2. /\ RingProgram[t][ip[t]] = [op |-> "down", sem |-> s] <=> s = t /\ ip[t] % 3 = 1
        /\ RingProgram[t][ip[t]] = [op |-> "up", sem |-> s]
             <=> s = After(t) /\ ip[t] % 3 = 0
    BY <1>4, <1>5
  <2> QED  BY <2>1, <2>2
<1> QED  BY <1>6, <1>9

\* A down that returns is counted for its own semaphore, and nothing printed.
LEMMA DownReturns ==
  ASSUME RingFits, client = Ring, client' = client, RingInv, NEW t \in InRing,
         ip[t] \in 1..(3 * Rounds), ip' = [ip EXCEPT ![t] = @ + 1], ip[t] % 3 = 1
  PROVE  /\ \A u \in InRing : Prints(u)' = Prints(u)
         /\ \A s \in Sems :
              /\ Completed("up", s)' = Completed("up", s)
              /\ Completed("down", s)' = (IF s = t THEN Completed("down", s) + 1
                                            ELSE Completed("down", s))
<1>1. ip[t] % 3 # 2 /\ ip[t] % 3 # 0
  OBVIOUS
<1> QED  BY <1>1, ReturnMoves, Zenon

\* A print that returns is counted for its thread.
LEMMA PrintReturns ==
  ASSUME RingFits, client = Ring, client' = client, RingInv, NEW t \in InRing,
         ip[t] \in 1..(3 * Rounds), ip' = [ip EXCEPT ![t] = @ + 1], ip[t] % 3 = 2
  PROVE  /\ \A u \in InRing :
              /\ Prints(u) \in Nat
              /\ Prints(u)' = (IF u = t THEN Prints(u) + 1 ELSE Prints(u))
         /\ \A s \in Sems :
              /\ Completed("up", s)' = Completed("up", s)
              /\ Completed("down", s)' = Completed("down", s)
<1>1. ip[t] % 3 # 1 /\ ip[t] % 3 # 0
  OBVIOUS
<1> QED  BY <1>1, ReturnMoves, Zenon

\* An up that returns is counted for the next semaphore, and nothing printed.
LEMMA UpReturns ==
  ASSUME RingFits, client = Ring, client' = client, RingInv, NEW t \in InRing,
         ip[t] \in 1..(3 * Rounds), ip' = [ip EXCEPT ![t] = @ + 1], ip[t] % 3 = 0
  PROVE  /\ \A u \in InRing : Prints(u)' = Prints(u)
         /\ \A s \in Sems :
              /\ Completed("down", s)' = Completed("down", s)
              /\ Completed("up", s)' = (IF s = After(t) THEN Completed("up", s) + 1
                                          ELSE Completed("up", s))
<1>1. ip[t] % 3 # 2 /\ ip[t] % 3 # 1
  OBVIOUS
<1> QED  BY <1>1, ReturnMoves, Zenon

\* The last line of down: the call returns with the unit.
LEMMA DownReturnInd ==
  ASSUME RingFits, client = Ring, client' = client, RingInv, NEW t \in Threads,
         DecUnlock(t) \/ Clear(t)
  PROVE  RingInv'
<1> USE DEF At, Return, nodeVars, semVars
<1>1. Running(t) /\ pc[t] \in {"decunlock", "clear"}
  BY DEF DecUnlock, Clear
<1>2. /\ t \in InRing /\ InRing \subseteq Threads \cap Sems
      /\ NULL \notin Threads /\ Rounds \in Nat /\ ip[t] \in 1..(3 * Rounds)
  BY <1>1, RingRuns DEF InRing, RingFits
<1>3. RingTypes /\ PlaceInv /\ KeyInv
  BY DEF RingInv
<1>4. ip[t] % 3 = 1 /\ (ip[t] + 1) % 3 = 2 /\ ip[t] + 1 \in 1..(3 * Rounds)
  <2>1. ip[t] % 3 = 1
    BY <1>1, <1>2, <1>3 DEF PlaceInv, PlaceAt
  <2> QED  BY <1>2, <2>1, Mod3
<1>5. /\ ip' = [ip EXCEPT ![t] = @ + 1] /\ pc' = [pc EXCEPT ![t] = "call"]
      /\ UNCHANGED <<key, head, next, live, reg, tmp, fault>>
  BY DEF DecUnlock, Clear
<1>6. RingTypes' /\ PlaceInv' /\ KeyInv'
  <2>1. RingTypes'
    BY <1>1, <1>2, <1>3, <1>4, <1>5 DEF RingTypes, Lines, Queued, Taken, Seen
  <2>2. PlaceAt(t) /\ KeyAt(t)
    BY <1>1, <1>2, <1>3, <1>4, <1>5 DEF PlaceInv, KeyInv
  <2>3. PlaceAt(t)'
    BY <1>1, <1>2, <1>3, <1>4, <1>5, <2>2 DEF RingTypes, PlaceAt, Queued, Taken, Seen
  <2>4. KeyAt(t)'
    BY <1>1, <1>2, <1>3, <1>4, <1>5, <2>2 DEF RingTypes, KeyAt, Queued, Taken, Seen
  <2>5. /\ \A u \in Threads \ {t} :
             /\ ip'[u] = ip[u] /\ pc'[u] = pc[u] /\ next'[u] = next[u]
             /\ tmp'[u] = tmp[u] /\ reg'[u] = reg[u] /\ (u \in live => u \in live')
        /\ \A u \in InRing \ {t} : head'[u] = head[u] /\ key'[u] \in {key[u], 1}
    BY <1>1, <1>2, <1>3, <1>4, <1>5 DEF RingTypes
  <2> QED  BY <1>2, <2>1, <2>3, <2>4, <2>5, OthersStay
<1>7. UnitInv'
  <2>1. PICK s \in InRing : Unit(s) /\ Printed(s)
    BY DEF RingInv, UnitInv
  <2>2. \A u \in InRing : (Mine(u)' <=> Mine(u)) /\ (Passing(u)' <=> Passing(u))
    BY <1>1, <1>2, <1>3, <1>4, <1>5 DEF Mine, Passing, RingTypes, Taken
  <2>3. Unit(s)'
    BY <1>5, <2>1, <2>2 DEF Unit
  <2>4. \A u \in InRing : Prints(u)' = Prints(u)
    BY <1>2, <1>4, <1>5, DownReturns
  <2>5. Printed(s)'
    BY <2>1, <2>4, RingOrder DEF Printed
  <2> QED  BY <2>3, <2>5 DEF UnitInv
<1>8. CallsInv'
  <2> SUFFICES ASSUME NEW s \in Sems
               PROVE  key[s] = RingKey[s] + Completed("up", s)' - Completed("down", s)'
                        - (IF s \in InRing /\ pc'[s] \in Taken THEN 1 ELSE 0)
    BY <1>5 DEF CallsInv, RingKey
  <2>1. /\ RingKey[s] \in Int
        /\ Completed("up", s) \in Nat /\ Completed("down", s) \in Nat
    BY CompletedNat DEF RingKey
  <2>2. key[s] = RingKey[s] + Completed("up", s) - Completed("down", s)
                   - (IF s \in InRing /\ pc[s] \in Taken THEN 1 ELSE 0)
    BY DEF RingInv, CallsInv
  <2>3. /\ Completed("up", s)' = Completed("up", s)
        /\ Completed("down", s)' = (IF s = t THEN Completed("down", s) + 1
                                      ELSE Completed("down", s))
    BY <1>2, <1>4, <1>5, DownReturns
  <2>4. CASE s = t
    BY <1>1, <1>2, <1>3, <1>5, <2>1, <2>2, <2>3, <2>4 DEF RingTypes, Taken
  <2>5. CASE s # t
    BY <1>2, <1>3, <1>5, <2>1, <2>2, <2>3, <2>5 DEF RingTypes
  <2> QED  BY <2>4, <2>5
<1> QED  BY <1>6, <1>7, <1>8 DEF RingInv

\* The print of thread t: only the thread with the unit can be there.
LEMMA SayInd ==
  ASSUME RingFits, client = Ring, client' = client, RingInv, NEW t \in Threads, Say(t)
  PROVE  RingInv'
<1> USE DEF At, Return, nodeVars, semVars
<1>1. Running(t) /\ pc[t] = "call" /\ Op(t) = "print"
  BY DEF Say
<1>2. /\ t \in InRing /\ InRing \subseteq Threads \cap Sems
      /\ NULL \notin Threads /\ Rounds \in Nat /\ ip[t] \in 1..(3 * Rounds)
  BY <1>1, RingRuns DEF InRing, RingFits
<1>3. RingTypes /\ PlaceInv /\ KeyInv
  BY DEF RingInv
<1>4. ip[t] % 3 = 2 /\ (ip[t] + 1) % 3 = 0 /\ ip[t] + 1 \in 1..(3 * Rounds)
  BY <1>1, <1>2, RingRuns, Mod3
<1>5. /\ ip' = [ip EXCEPT ![t] = @ + 1] /\ pc' = [pc EXCEPT ![t] = "call"]
      /\ UNCHANGED <<key, head, next, live, reg, tmp, fault>>
  BY DEF Say
<1>6. RingTypes' /\ PlaceInv' /\ KeyInv'
  <2>1. RingTypes'
    BY <1>1, <1>2, <1>3, <1>4, <1>5 DEF RingTypes, Lines, Queued, Taken, Seen
  <2>2. PlaceAt(t) /\ KeyAt(t)
    BY <1>1, <1>2, <1>3, <1>4, <1>5 DEF PlaceInv, KeyInv
  <2>3. PlaceAt(t)'
    BY <1>1, <1>2, <1>3, <1>4, <1>5, <2>2 DEF RingTypes, PlaceAt, Queued, Taken, Seen
  <2>4. KeyAt(t)'
    BY <1>1, <1>2, <1>3, <1>4, <1>5, <2>2 DEF RingTypes, KeyAt, Queued, Taken, Seen
  <2>5. /\ \A u \in Threads \ {t} :
             /\ ip'[u] = ip[u] /\ pc'[u] = pc[u] /\ next'[u] = next[u]
             /\ tmp'[u] = tmp[u] /\ reg'[u] = reg[u] /\ (u \in live => u \in live')
        /\ \A u \in InRing \ {t} : head'[u] = head[u] /\ key'[u] \in {key[u], 1}
    BY <1>1, <1>2, <1>3, <1>4, <1>5 DEF RingTypes
  <2> QED  BY <1>2, <2>1, <2>3, <2>4, <2>5, OthersStay
<1>7. UnitInv'
  <2>1. PICK s \in InRing : Unit(s) /\ Printed(s)
    BY DEF RingInv, UnitInv
  <2>2. s = t /\ key[t] # 1
    BY <1>2, <1>4, <2>1 DEF Unit, Mine
  <2>3. \A u \in InRing : key[u] = 0 /\ (Mine(u) => u = t) /\ ~Passing(u)
    BY <1>2, <1>3, <1>4, <2>1, <2>2 DEF Unit, Mine, KeyInv, KeyAt
  <2>4. /\ \A u \in InRing : ~Mine(u)' /\ (Passing(u)' => u = t)
        /\ \A u \in InRing : key'[u] = 0
    BY <1>1, <1>2, <1>3, <1>4, <1>5, <2>3 DEF Mine, Passing, RingTypes, Taken
  <2>5. After(t) \in InRing /\ After(t)' = After(t)
    BY <1>2, RingOrder DEF After
  <2>6. Unit(After(t))'
    BY <2>4, <2>5 DEF Unit
  <2>7. \A u \in InRing :
          /\ Prints(u) \in Nat
          /\ Prints(u)' = (IF u = t THEN Prints(u) + 1 ELSE Prints(u))
    BY <1>2, <1>4, <1>5, PrintReturns
  <2>8. Printed(After(t))'
    BY <1>2, <2>1, <2>2, <2>5, <2>7, RingOrder DEF Printed
  <2> QED  BY <2>5, <2>6, <2>8 DEF UnitInv
<1>8. CallsInv'
  <2>1. \A s \in Sems :
          /\ Completed("up", s)' = Completed("up", s)
          /\ Completed("down", s)' = Completed("down", s)
    BY <1>2, <1>4, <1>5, PrintReturns
  <2>2. \A s \in InRing : pc'[s] \in Taken <=> pc[s] \in Taken
    BY <1>1, <1>2, <1>3, <1>5 DEF RingTypes, Taken
  <2> QED  BY <1>5, <2>1, <2>2 DEF RingInv, CallsInv, RingKey
<1> QED  BY <1>6, <1>7, <1>8 DEF RingInv

\* The store of up: the unit is on the next semaphore, and no update of its
\* key was lost.
LEMMA UpStoreInd ==
  ASSUME RingFits, client = Ring, client' = client, RingInv, NEW t \in Threads, UpStore(t)
  PROVE  RingInv'
<1> USE DEF At, Return, nodeVars, semVars
<1>1. Running(t) /\ pc[t] = "upstore"
  BY DEF UpStore
<1>2. /\ t \in InRing /\ InRing \subseteq Threads \cap Sems
      /\ NULL \notin Threads /\ Rounds \in Nat /\ ip[t] \in 1..(3 * Rounds)
  BY <1>1, RingRuns DEF InRing, RingFits
<1>3. RingTypes /\ PlaceInv /\ KeyInv
  BY DEF RingInv
<1>4. /\ ip[t] % 3 = 0 /\ (ip[t] + 1) % 3 = 1 /\ ip[t] + 1 \in 1..(3 * Rounds + 1)
      /\ Sem(t) = After(t) /\ reg[t] = 0
  <2>1. ip[t] % 3 = 0 /\ reg[t] = 0
    BY <1>1, <1>2, <1>3 DEF PlaceInv, KeyInv, PlaceAt, KeyAt
  <2>2. (ip[t] + 1) % 3 = 1 /\ ip[t] + 1 \in 1..(3 * Rounds + 1)
    BY <1>2, <2>1, Mod3
  <2>3. Sem(t) = After(t)
    BY <1>1, <2>1, RingRuns
  <2> QED  BY <2>1, <2>2, <2>3
<1>5. /\ ip' = [ip EXCEPT ![t] = @ + 1] /\ pc' = [pc EXCEPT ![t] = "call"]
      /\ key' = [key EXCEPT ![After(t)] = 1]
      /\ UNCHANGED <<head, next, live, reg, tmp, fault>>
  BY <1>4 DEF UpStore
<1>6. After(t) \in InRing /\ After(t) \in Sems
  BY <1>2, RingOrder
<1>7. RingTypes' /\ PlaceInv' /\ KeyInv'
  <2>1. RingTypes'
    BY <1>1, <1>2, <1>3, <1>4, <1>5, <1>6 DEF RingTypes, Lines, Queued, Taken, Seen
  <2>2. PlaceAt(t) /\ KeyAt(t)
    BY <1>1, <1>2, <1>3, <1>4, <1>5, <1>6 DEF PlaceInv, KeyInv
  <2>3. PlaceAt(t)'
    BY <1>1, <1>2, <1>3, <1>4, <1>5, <1>6, <2>2 DEF RingTypes, PlaceAt, Queued, Taken, Seen
  <2>4. KeyAt(t)'
    BY <1>1, <1>2, <1>3, <1>4, <1>5, <1>6, <2>2 DEF RingTypes, KeyAt, Queued, Taken, Seen
  <2>5. /\ \A u \in Threads \ {t} :
             /\ ip'[u] = ip[u] /\ pc'[u] = pc[u] /\ next'[u] = next[u]
             /\ tmp'[u] = tmp[u] /\ reg'[u] = reg[u] /\ (u \in live => u \in live')
        /\ \A u \in InRing \ {t} : head'[u] = head[u] /\ key'[u] \in {key[u], 1}
    BY <1>1, <1>2, <1>3, <1>4, <1>5, <1>6 DEF RingTypes
  <2> QED  BY <1>2, <2>1, <2>3, <2>4, <2>5, OthersStay
<1>8. PICK s \in InRing : Unit(s) /\ Printed(s)
  BY DEF RingInv, UnitInv
<1>9. s = After(t) /\ key[s] = 0 /\ ~Mine(s)
  BY <1>2, <1>4, <1>8 DEF Unit, Passing
<1>10. UnitInv'
  <2>1. \A u \in InRing : key[u] = 0 /\ ~Mine(u) /\ (Passing(u) => u = t)
    BY <1>2, <1>3, <1>8, <1>9, RingOrder DEF Unit, KeyInv, KeyAt
  <2>2. \A u \in InRing : ~Mine(u)' /\ ~Passing(u)' /\ (key'[u] = 1 => u = s)
    BY <1>1, <1>2, <1>3, <1>4, <1>5, <1>9, <2>1 DEF Mine, Passing, RingTypes, Taken
  <2>3. Unit(s)'
    BY <2>2 DEF Unit
  <2>4. \A u \in InRing : Prints(u)' = Prints(u)
    BY <1>2, <1>4, <1>5, UpReturns
  <2>5. Printed(s)'
    BY <1>8, <2>4, RingOrder DEF Printed
  <2> QED  BY <2>3, <2>5 DEF UnitInv
<1>11. CallsInv'
  <2> SUFFICES ASSUME NEW q \in Sems
               PROVE  key'[q] = RingKey[q] + Completed("up", q)' - Completed("down", q)'
                        - (IF q \in InRing /\ pc'[q] \in Taken THEN 1 ELSE 0)
    BY DEF CallsInv, RingKey
  <2>1. /\ RingKey[q] \in Int
        /\ Completed("up", q) \in Nat /\ Completed("down", q) \in Nat
    BY CompletedNat DEF RingKey
  <2>2. key[q] = RingKey[q] + Completed("up", q) - Completed("down", q)
                   - (IF q \in InRing /\ pc[q] \in Taken THEN 1 ELSE 0)
    BY DEF RingInv, CallsInv
  <2>3. /\ Completed("down", q)' = Completed("down", q)
        /\ Completed("up", q)' = (IF q = After(t) THEN Completed("up", q) + 1
                                    ELSE Completed("up", q))
    BY <1>2, <1>4, <1>5, UpReturns
  <2>4. q \in InRing => (pc'[q] \in Taken <=> pc[q] \in Taken)
    BY <1>1, <1>2, <1>3, <1>5 DEF RingTypes, Taken
  <2>5. CASE q = s
    BY <1>3, <1>5, <1>6, <1>9, <2>1, <2>2, <2>3, <2>4, <2>5 DEF RingTypes
  <2>6. CASE q # s
    BY <1>3, <1>5, <1>9, <2>1, <2>2, <2>3, <2>4, <2>6 DEF RingTypes
  <2> QED  BY <2>5, <2>6
<1> QED  BY <1>7, <1>10, <1>11 DEF RingInv

-----------------------------------------------------------------------------
\* main has raised semaphore 0 once before the threads start.
LEMMA RingStarts ==
  ASSUME RingFits, client = Ring, NEW c, Init(c) PROVE RingInv
<1> USE DEF Init
<1>1. key = RingKey
  BY DEF Ring
<1>2. InRing \subseteq Threads \cap Sems /\ Rounds \in Nat /\ NULL \notin Threads
  BY DEF InRing, RingFits
<1>3. RingTypes /\ KeyInv
  BY <1>1, <1>2 DEF RingTypes, KeyInv, KeyAt, RingKey, Lines, Queued, Taken, Seen
<1>4. PlaceInv
  BY <1>2 DEF PlaceInv, PlaceAt, Queued
<1>5. /\ \A t \in InRing : Prints(t) = 0
      /\ \A op, s : Completed(op, s) = 0
  <2>1. /\ \A t \in InRing : LinesOf(t) = {}
        /\ \A calls : Returned(calls) = {}
    BY <1>2 DEF LinesOf, Returned
  <2> QED  BY <2>1, RingCounts, FS_EmptySet
<1>6. UnitInv
  <2>1. Unit(0)
    BY <1>1, <1>2, RingOrder DEF Unit, Mine, Passing, RingKey, Taken
  <2>2. Printed(0)
    BY <1>5, RingOrder DEF Printed
  <2> QED  BY <2>1, <2>2, RingOrder DEF UnitInv
<1>7. CallsInv
  BY <1>1, <1>2, <1>5 DEF CallsInv, RingKey, Taken
<1> QED  BY <1>3, <1>4, <1>6, <1>7 DEF RingInv

\* Every step of the semaphore program keeps the invariant of the ring.
LEMMA RingNext ==
  ASSUME RingFits, client = Ring, RingInv, [Next]_vars
  PROVE  RingInv' /\ client' = client
<1>1. CASE UNCHANGED vars
  <2>1. client' = client /\ key' = key /\ ip' = ip /\ pc' = pc
    BY <1>1 DEF vars, semVars
  <2>2. RingTypes' /\ PlaceInv' /\ KeyInv'
    BY <1>1 DEF vars, semVars, nodeVars, RingInv, RingTypes, PlaceInv, KeyInv, PlaceAt, KeyAt
  <2>3. UnitInv' /\ CallsInv'
    BY <2>1, UnitStays
  <2> QED  BY <2>1, <2>2, <2>3 DEF RingInv
<1>2. ASSUME NEW t \in Threads, Step(t), UNCHANGED client PROVE RingInv'
  BY <1>2, DownMoves, TakeInd, UpLoadInd, DownReturnInd, SayInd, UpStoreInd DEF Step
<1> QED  BY <1>1, <1>2 DEF Next, Joined

\* The prints of the ring are in turn in every state of the invariant.
LEMMA TurnHolds == ASSUME RingFits, client = Ring, RingInv PROVE InTurn
<1>1. ASSUME NEW u \in InRing PROVE Prints(u) \in Nat
  <2>1. 1 \in Int /\ ip[u] - 1 \in Int
    BY DEF RingInv, RingTypes, InRing, RingFits
  <2>2. IsFiniteSet(1..(ip[u] - 1))
    BY <2>1, FS_Interval, Zenon
  <2>3. IsFiniteSet(LinesOf(u))
    BY <2>2, FS_Subset DEF LinesOf
  <2> QED  BY <2>3, RingCounts, FS_CardinalityType
<1>2. PICK s \in InRing : Printed(s)
  BY DEF RingInv, UnitInv
<1> QED  BY <1>1, <1>2, RingOrder DEF Printed, InTurn

\* A semaphore nobody is calling has the key its completed calls make.
LEMMA UnitsHold == ASSUME RingFits, client = Ring, RingInv PROVE UnitsExact
<1> SUFFICES ASSUME NEW s \in Sems, Quiet(s)
             PROVE  key[s] = RingKey[s] + Completed("up", s) - Completed("down", s)
  BY DEF UnitsExact, InitKey, Ring
<1>1. ~(s \in InRing /\ pc[s] \in Taken)
  <2> SUFFICES ASSUME s \in InRing, pc[s] \in Taken PROVE FALSE
    OBVIOUS
  <2>1. /\ s \in Threads /\ ip[s] \in 1..(3 * Rounds + 1) /\ ip[s] # 3 * Rounds + 1
        /\ ip[s] % 3 = 1 /\ fault = FALSE /\ Rounds \in Nat
    BY DEF RingInv, RingTypes, PlaceInv, PlaceAt, Taken, InRing, RingFits
  <2>2. Running(s)
    <3>1. Len(Program[s]) = 3 * Rounds
      BY RingCode DEF Program, Ring
    <3> QED  BY <2>1, <3>1 DEF Running
  <2>3. Sem(s) = s
    BY <2>1, <2>2, RingRuns
  <2> QED  BY <2>1, <2>2, <2>3 DEF Quiet, Taken
<1>2. /\ RingKey[s] \in Int
      /\ Completed("up", s) \in Nat /\ Completed("down", s) \in Nat
  BY CompletedNat DEF RingKey
<1>3. key[s] = RingKey[s] + Completed("up", s) - Completed("down", s) - 0
  BY <1>1 DEF RingInv, CallsInv
<1> QED  BY <1>2, <1>3

\* SSU_Sem_toggle_test.c, run alone, for any NUM_ITER: its threads print in
\* turn, and no update of a key is lost.
THEOREM RingCorrect ==
  ASSUME RingFits
  PROVE  Init({Ring}) /\ [][Next]_vars => [](InTurn /\ UnitsExact)
<1> DEFINE Inv == client = Ring /\ RingInv
<1>1. Init({Ring}) => Inv
  <2> SUFFICES ASSUME Init({Ring}) PROVE Inv
    OBVIOUS
  <2>1. client = Ring
    BY DEF Init
  <2> QED  BY <2>1, RingStarts
<1>2. Inv /\ [Next]_vars => Inv'
  <2> SUFFICES ASSUME Inv, [Next]_vars PROVE Inv'
    OBVIOUS
  <2>1. RingInv' /\ client' = client
    BY RingNext
  <2> QED  BY <2>1 DEF Ring, RingProgram, RingKey
<1>3. Inv => InTurn /\ UnitsExact
  BY TurnHolds, UnitsHold
<1> QED  BY <1>1, <1>2, <1>3, PTL
=============================================================================
