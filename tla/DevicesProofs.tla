--------------------------- MODULE DevicesProofs ----------------------------
(***************************************************************************)
(* The buffer cache over either disk driver implements the block store,    *)
(* the ring of the console the line discipline, and no sleeper of the two  *)
(* devices is forgotten: for any number of processes, blocks and buffers.  *)
(***************************************************************************)
EXTENDS Devices, BufCacheProofs

\* The console's numbers, and its sleepers.
Reader == {"pc", "n", "target", "dst", "killed"}
ConsoleInv ==
  /\ {r, w, e} \subseteq 0..(Wrap - 1)
  /\ DOMAIN rd = Procs /\ \A p \in Procs : DOMAIN rd[p] = Reader
  /\ C!ReadersAwaited

-----------------------------------------------------------------------------
(* The console.                                                            *)

\* The indices can tell a full ring from an empty one.
LEMMA WrapBeyond == Wrap \in Nat \ {0} /\ INPUT_BUF < Wrap
<1>1. PICK m \in 2..Wrap : Wrap = m * INPUT_BUF
  BY ConsoleAssumption
<1>2. Wrap = INPUT_BUF + (m - 1) * INPUT_BUF
  BY <1>1, ConsoleAssumption
<1>3. (m - 1) * INPUT_BUF >= 1
  BY <1>1, ConsoleAssumption
<1> QED  BY <1>2, <1>3, ConsoleAssumption

\* Numbers below Wrap stay below it, and r is at w once what is between them
\* has been read.
LEMMA Wrapping ==
  ASSUME NEW i \in Int, NEW k \in Int
  PROVE  /\ C!Add(i, k) \in 0..(Wrap - 1) /\ C!Sub(i, k) \in 0..(Wrap - 1)
         /\ i \in 0..(Wrap - 1) => C!Add(i, 0) = i
         /\ i \in 0..(Wrap - 1) /\ k \in 0..(Wrap - 1) =>
              C!Add(k, C!Sub(i, k)) = i /\ (i = k => C!Sub(i, k) = 0)
<1> USE WrapBeyond
<1>1. /\ C!Add(i, k) \in 0..(Wrap - 1) /\ C!Sub(i, k) \in 0..(Wrap - 1)
      /\ i \in 0..(Wrap - 1) => C!Add(i, 0) = i
  BY DEF C!Add, C!Sub
<1>2. ASSUME i \in 0..(Wrap - 1), k \in 0..(Wrap - 1)
      PROVE  C!Add(k, C!Sub(i, k)) = i /\ (i = k => C!Sub(i, k) = 0)
  <2>1. CASE i >= k
    <3>1. C!Sub(i, k) = i - k
      BY <1>2, <2>1 DEF C!Sub
    <3>2. QED
      BY <1>2, <2>1, <3>1 DEF C!Add
  <2>2. CASE i < k
    <3>1. C!Sub(i, k) = (i + Wrap) - k
      BY <1>2, <2>2 DEF C!Sub
    <3>2. QED
      BY <1>2, <2>2, <3>1 DEF C!Add
  <2>3. QED
    BY <1>2, <2>1, <2>2
<1>3. QED
  BY <1>1, <1>2, Zenon

\* What is ready has one character for each number between r and w.
LEMMA ReadyLength ==
  ASSUME ConsoleInv PROVE Len(C!Ready) = C!Sub(w, r) /\ C!Sub(w, r) \in Nat
<1>1. C!Sub(w, r) \in Nat
  BY Wrapping, WrapBeyond DEF ConsoleInv
<1>2. QED
  BY <1>1 DEF C!Ready

\* At boot nobody reads.
LEMMA ConsoleStarts ==
  ASSUME C!Init PROVE ConsoleInv
BY WrapBeyond DEF C!Init, C!Idle, ConsoleInv, C!ReadersAwaited, Reader

\* consoleread sleeps only after it has taken all that is ready, and leaves r
\* alone where somebody else sleeps already.
LEMMA ReadInd ==
  ASSUME ConsoleInv, NEW p \in Procs, C!consoleread(p) PROVE ConsoleInv'
<1> DEFINE me == rd[p]
<1> DEFINE len == C!Sub(w, r)
<1>1. PICK k \in 0..Len(C!Ready) :
        LET left == me.n - k
            ended == left = 0 \/ (k > 0 /\ C!Ready[k] = "nl")
            eof == ~ended /\ k < Len(C!Ready)
            more == ~ended /\ k = Len(C!Ready) IN
        /\ r' = IF eof /\ left = me.target THEN C!Add(r, k + 1) ELSE C!Add(r, k)
        /\ rd' = [rd EXCEPT ![p] =
                    [me EXCEPT !.n = left, !.dst = @ \o SubSeq(C!Ready, 1, k),
                               !.pc = IF more /\ ~me.killed THEN "asleep" ELSE "idle"]]
  BY Zenon DEF C!consoleread
<1>2. len \in Nat /\ Len(C!Ready) = len /\ {r, w, e} \subseteq Int /\ w' = w /\ e' = e
  BY ReadyLength, WrapBeyond DEF ConsoleInv, C!consoleread
<1>3. r' = C!Add(r, k) \/ (k < len /\ r' = C!Add(r, k + 1))
  BY <1>1, <1>2, Zenon
<1>4. r' \in 0..(Wrap - 1)
  BY <1>1, <1>2, <1>3, Wrapping
<1>5. /\ DOMAIN rd' = Procs /\ \A q \in Procs \ {p} : rd'[q] = rd[q]
      /\ DOMAIN rd'[p] = Reader /\ rd'[p].killed = me.killed
      /\ rd'[p].pc = "asleep" => k = len /\ ~me.killed /\ r' = C!Add(r, k)
  BY <1>1, <1>2 DEF ConsoleInv, Reader
<1>6. ASSUME NEW q \in Procs, rd'[q].pc = "asleep" PROVE r' = w /\ ~rd'[q].killed
  <2>1. CASE q = p
    BY <2>1, <1>2, <1>5, <1>6, Wrapping, Zenon DEF ConsoleInv
  <2>2. CASE q # p
    <3>1. rd[q].pc = "asleep" /\ r = w /\ ~rd[q].killed
      BY <2>2, <1>5, <1>6, Zenon DEF ConsoleInv, C!ReadersAwaited
    <3>2. len = 0
      BY <3>1, <1>2, Wrapping, Zenon DEF ConsoleInv
    <3>3. k = 0 /\ r' = C!Add(r, 0)
      BY <3>2, <1>1, <1>2, <1>3
    <3>4. QED
      BY <2>2, <3>1, <3>3, <1>2, <1>5, Wrapping, Zenon DEF ConsoleInv
  <2>3. QED
    BY <2>1, <2>2, Zenon
<1>7. QED
  BY <1>2, <1>4, <1>5, <1>6, Zenon DEF ConsoleInv, C!ReadersAwaited

\* Every step of the console keeps the invariant.
LEMMA ConsoleNext ==
  ConsoleInv /\ C!Next => ConsoleInv'
<1> SUFFICES ASSUME ConsoleInv PROVE C!Next => ConsoleInv'
  BY Zenon
<1>1. {r, w, e} \subseteq Int
  BY WrapBeyond DEF ConsoleInv
<1>2. ASSUME NEW c \in Chars, C!consoleintr(c) PROVE ConsoleInv'
  <2>1. e' \in 0..(Wrap - 1) /\ w' \in {w, e'} /\ r' = r
    BY <1>1, <1>2, Wrapping DEF C!consoleintr
  <2>2. \/ rd' = rd /\ w' = w
        \/ rd' = C!Wakeup
    BY <1>2, Zenon DEF C!consoleintr
  <2>3. CASE rd' = rd /\ w' = w
    BY <2>1, <2>3, Zenon DEF ConsoleInv, C!ReadersAwaited
  <2>4. CASE rd' = C!Wakeup
    <3>1. DOMAIN rd' = Procs /\ \A p \in Procs : DOMAIN rd'[p] = Reader /\ rd'[p].pc # "asleep"
      BY <2>4, Zenon DEF C!Wakeup, ConsoleInv, Reader
    <3>2. QED
      BY <2>1, <3>1, Zenon DEF ConsoleInv, C!ReadersAwaited
  <2>5. QED
    BY <2>2, <2>3, <2>4, Zenon
<1>3. ASSUME C!consoleintr_full PROVE ConsoleInv'
  BY <1>3, Zenon DEF C!consoleintr_full, ConsoleInv, C!ReadersAwaited
<1>4. ASSUME C!backspace \/ C!kill_line PROVE ConsoleInv'
  <2>1. e' \in 0..(Wrap - 1)
    <3>1. CASE C!backspace
      BY <3>1, <1>1, Wrapping DEF C!backspace
    <3>2. CASE C!kill_line
      <4>1. PICK k \in 0..C!Sub(e, w) : e' = C!Sub(e, k)
        BY <3>2, Zenon DEF C!kill_line
      <4>2. QED
        BY <4>1, <1>1, Wrapping
    <3>3. QED
      BY <1>4, <3>1, <3>2, Zenon
  <2>2. UNCHANGED <<r, w, rd>>
    BY <1>4, Zenon DEF C!backspace, C!kill_line
  <2>3. QED
    BY <2>1, <2>2, Zenon DEF ConsoleInv, C!ReadersAwaited
<1>5. ASSUME NEW p \in Procs, C!read(p) PROVE ConsoleInv'
  <2>1. UNCHANGED <<r, w, e>>
    BY <1>5, Zenon DEF C!read
  <2>2. /\ DOMAIN rd' = Procs /\ \A q \in Procs \ {p} : rd'[q] = rd[q]
        /\ DOMAIN rd'[p] = Reader /\ rd'[p].pc = "read"
    BY <1>5, Zenon DEF C!read, C!Idle, ConsoleInv, Reader
  <2>3. QED
    BY <2>1, <2>2, Zenon DEF ConsoleInv, C!ReadersAwaited
<1>6. ASSUME NEW p \in Procs, C!kill(p) PROVE ConsoleInv'
  <2>1. UNCHANGED <<r, w, e>>
    BY <1>6, Zenon DEF C!kill
  <2>2. /\ DOMAIN rd' = Procs /\ \A q \in Procs \ {p} : rd'[q] = rd[q]
        /\ DOMAIN rd'[p] = Reader /\ rd'[p].pc # "asleep"
    BY <1>6, Zenon DEF C!kill, ConsoleInv, Reader
  <2>3. QED
    BY <2>1, <2>2, Zenon DEF ConsoleInv, C!ReadersAwaited
<1>7. QED
  BY <1>2, <1>3, <1>4, <1>5, <1>6, ReadInd, Zenon DEF C!Next

-----------------------------------------------------------------------------
(* The ring and its indices.                                               *)

\* Going on from an index, back to it, and back by less.
LEMMA Indices ==
  ASSUME NEW i \in 0..(Wrap - 1), NEW j \in Nat, NEW k \in Nat
  PROVE  /\ C!Add(i, k) \in 0..(Wrap - 1)
         /\ C!Add(i, 0) = i
         /\ k < Wrap => C!Add(i, k) = IF i + k < Wrap THEN i + k ELSE (i + k) - Wrap
         /\ j + k < Wrap => C!Add(C!Add(i, j), k) = C!Add(i, j + k)
         /\ k < Wrap => C!Sub(C!Add(i, k), i) = k
         /\ j <= k /\ k < Wrap => C!Sub(C!Add(i, k), j) = C!Add(i, k - j)
<1> USE WrapBeyond
<1>1. C!Add(i, k) \in 0..(Wrap - 1) /\ C!Add(i, 0) = i
  BY DEF C!Add
<1>2. ASSUME NEW n \in Nat, n < Wrap
      PROVE  C!Add(i, n) = IF i + n < Wrap THEN i + n ELSE (i + n) - Wrap
  BY <1>2 DEF C!Add
<1>3. ASSUME j + k < Wrap PROVE C!Add(C!Add(i, j), k) = C!Add(i, j + k)
  <2>1. /\ C!Add(i, j) = IF i + j < Wrap THEN i + j ELSE (i + j) - Wrap
        /\ C!Add(i, j + k) = IF i + (j + k) < Wrap THEN i + (j + k) ELSE (i + (j + k)) - Wrap
    BY <1>2, <1>3
  <2>2. CASE i + j < Wrap
    BY <1>3, <2>1, <2>2 DEF C!Add
  <2>3. CASE i + j >= Wrap
    <3>1. ((i + j) - Wrap) + k = (i + (j + k)) - Wrap
      OBVIOUS
    <3> QED BY <1>3, <2>1, <2>3, <3>1 DEF C!Add
  <2> QED  BY <2>2, <2>3
<1>4. ASSUME k < Wrap, j <= k PROVE C!Sub(C!Add(i, k), j) = C!Add(i, k - j)
  <2>1. /\ C!Add(i, k) = IF i + k < Wrap THEN i + k ELSE (i + k) - Wrap
        /\ C!Add(i, k - j) = IF i + (k - j) < Wrap THEN i + (k - j) ELSE (i + (k - j)) - Wrap
    BY <1>2, <1>4
  <2> QED BY <1>4, <2>1 DEF C!Sub
<1>5. ASSUME k < Wrap PROVE C!Sub(C!Add(i, k), i) = k
  BY <1>2, <1>5 DEF C!Sub
<1> QED  BY <1>1, <1>2, <1>3, <1>4, <1>5

\* A slot and the round of the ring make up an index.
LEMMA Rounds ==
  ASSUME NEW x \in Nat
  PROVE  /\ x \div INPUT_BUF \in Int /\ x % INPUT_BUF \in 0..(INPUT_BUF - 1)
         /\ x = INPUT_BUF * (x \div INPUT_BUF) + (x % INPUT_BUF)
<1>1. INPUT_BUF \in Nat /\ INPUT_BUF > 0
  BY ConsoleAssumption
<1> QED  BY <1>1

\* Characters that lie less than the size of the ring apart have slots of
\* their own, across the wrap of the indices too.
LEMMA Slots ==
  ASSUME NEW i \in 0..(Wrap - 1), NEW j \in 0..(INPUT_BUF - 1), NEW k \in 0..(INPUT_BUF - 1), j < k
  PROVE  C!Add(i, j) % INPUT_BUF # C!Add(i, k) % INPUT_BUF
<1> DEFINE N == INPUT_BUF
           x == C!Add(i, j)
           y == C!Add(i, k)
           d == k - j
<1>1. N \in Nat /\ N > 0 /\ Wrap \in Nat /\ N < Wrap
  BY WrapBeyond, ConsoleAssumption
<1>2. PICK m \in Int : Wrap = m * N
  BY ConsoleAssumption
<1>3. x \in Nat /\ y \in Nat /\ (y = x + d \/ y = (x + d) - Wrap)
  <2>1. j \in Nat /\ k \in Nat /\ j < Wrap /\ k < Wrap
    BY <1>1
  <2>2. /\ x = IF i + j < Wrap THEN i + j ELSE (i + j) - Wrap
        /\ y = IF i + k < Wrap THEN i + k ELSE (i + k) - Wrap
    BY <2>1, Indices, Zenon
  <2> HIDE DEF x, y
  <2> QED  BY <1>1, <2>1, <2>2
<1> HIDE DEF x, y
<1>4. /\ x = N * (x \div N) + (x % N) /\ x \div N \in Int
      /\ y = N * (y \div N) + (y % N) /\ y \div N \in Int
  BY <1>3, Rounds, Zenon
<1>5. SUFFICES ASSUME x % N = y % N PROVE FALSE
  BY DEF x, y
<1>6. \E t \in Int : d = N * t
  <2> DEFINE q == (y \div N) - (x \div N)
  <2>1. y - x = N * q
    BY <1>1, <1>3, <1>4, <1>5
  <2>2. q \in Int /\ q + m \in Int
    BY <1>2, <1>4
  <2> HIDE DEF q
  <2>3. N * (q + m) = N * q + m * N
    BY <1>1, <1>2, <2>2
  <2>4. d = N * q \/ d = N * (q + m)
    BY <1>1, <1>2, <1>3, <2>1, <2>2, <2>3
  <2> QED  BY <2>2, <2>4
<1>7. PICK t \in Int : d = N * t
  BY <1>6
<1>8. d > 0 /\ d < N
  BY <1>1
<1>9. t <= 0 => N * t <= 0
  BY <1>1
<1>10. t >= 1 => N * t >= N
  BY <1>1
<1> QED  BY <1>1, <1>7, <1>8, <1>9, <1>10

-----------------------------------------------------------------------------
\* What may be in a slot, and the i-th character after r.
Typed == Chars \cup {"nul"}
At(i) == C!Char(C!Add(r, i))

\* What the line discipline's variables stand for.
Line == [i \in 1..C!Sub(e, w) |-> C!Char(C!Add(w, i - 1))]
Got == [p \in Procs |-> rd[p].dst]
LineSteps == C!LI!Next \/ UNCHANGED C!LI!vars

\* a characters are ready, b in the line, no more than the ring has slots.
Ring(a, b) ==
  /\ r \in 0..(Wrap - 1) /\ w = C!Add(r, a) /\ e = C!Add(r, a + b)
  /\ a + b <= INPUT_BUF
  /\ input \in [0..(INPUT_BUF - 1) -> Typed]

\* The call of a reader is still in its line, and counts what it has.
ReaderInv(p) ==
  /\ rd[p].dst \in Seq(Typed)
  /\ rd[p].pc # "idle" =>
       /\ rd[p].n \in Nat /\ rd[p].target = rd[p].n + Len(rd[p].dst)
       /\ \A i \in DOMAIN rd[p].dst : rd[p].dst[i] # "nl"

LinesInv == (\E a, b \in Nat : Ring(a, b)) /\ (\A p \in Procs : ReaderInv(p))

\* The two sequences, in terms of the characters after r.
View(a, b) ==
  /\ C!Ready \in Seq(Typed) /\ Len(C!Ready) = a
  /\ Line \in Seq(Typed) /\ Len(Line) = b
  /\ \A i \in 1..a : C!Ready[i] = At(i - 1)
  /\ \A i \in 1..b : Line[i] = At(a + (i - 1))

\* Every index has a slot.
LEMMA InRing ==
  ASSUME NEW i \in Nat, input \in [0..(INPUT_BUF - 1) -> Typed] PROVE C!Char(i) \in Typed
BY Rounds DEF C!Char

\* The sequences are what lies between r and w, and between w and e.
Viewed == \A a, b \in Nat : Ring(a, b) => View(a, b)

\* They are, whatever the lengths.
LEMMA Views == Viewed
<1> SUFFICES ASSUME NEW a \in Nat, NEW b \in Nat, Ring(a, b) PROVE View(a, b)
  BY Zenon DEF Viewed
<1>1. a + b < Wrap /\ a < Wrap /\ b < Wrap
  BY WrapBeyond, ConsoleAssumption DEF Ring
<1>2. w \in 0..(Wrap - 1) /\ C!Sub(w, r) = a
  BY <1>1, Indices DEF Ring
<1>3. e = C!Add(w, b) /\ C!Sub(e, w) = b
  <2>1. e = C!Add(w, b)
    BY <1>1, Indices DEF Ring
  <2> QED  BY <1>1, <1>2, <2>1, Indices
<1>4. C!Ready = [i \in 1..a |-> At(i - 1)]
  BY <1>2 DEF C!Ready, At
<1>5. Line = [i \in 1..b |-> At(a + (i - 1))]
  <2>1. ASSUME NEW i \in 1..b PROVE C!Add(w, i - 1) = C!Add(r, a + (i - 1))
    <3>1. i - 1 \in Nat /\ a + (i - 1) < Wrap
      BY <1>1, WrapBeyond
    <3> QED  BY <3>1, Indices DEF Ring
  <2> QED  BY <1>3, <2>1 DEF Line, At
<1>6. \A i \in Nat : At(i) \in Typed
  BY Indices, InRing DEF At, Ring
<1>7. C!Ready \in Seq(Typed) /\ Len(C!Ready) = a
  BY <1>4, <1>6
<1>8. Line \in Seq(Typed) /\ Len(Line) = b
  BY <1>5, <1>6
<1> QED  BY <1>4, <1>5, <1>7, <1>8 DEF View

\* Nothing that the line discipline sees changes.
LEMMA LineStutters ==
  ASSUME UNCHANGED <<C!Ready, Line, Got>> PROVE LineSteps
BY Zenon DEF LineSteps, C!LI!vars, Line, Got

\* Two sequences with the same elements are the same.
LEMMA SameSequence ==
  ASSUME NEW S, NEW s \in Seq(S), NEW t \in Seq(S), Len(s) = Len(t),
         \A i \in 1..Len(s) : s[i] = t[i]
  PROVE  s = t
OBVIOUS

\* The elements of one sequence come before those of the other.
LEMMA JoinedSequence ==
  ASSUME NEW S, NEW s \in Seq(S), NEW t \in Seq(S)
  PROVE  /\ s \o t \in Seq(S) /\ Len(s \o t) = Len(s) + Len(t)
         /\ \A i \in 1..Len(s) : (s \o t)[i] = s[i]
         /\ \A i \in 1..Len(t) : (s \o t)[Len(s) + i] = t[i]
OBVIOUS

\* A character that does not end the line.
LEMMA LineGrows ==
  ASSUME NEW c \in Chars, NEW a \in Nat, NEW b \in Nat, View(a, b), View(a, b + 1)',
         \A i \in 0..((a + b) - 1) : At(i)' = At(i), At(a + b)' = c,
         a + b < INPUT_BUF, c \notin {"nl", "^D"}, a + b + 1 # INPUT_BUF, UNCHANGED Got
  PROVE  LineSteps
<1>1. C!Ready' = C!Ready
  <2>1. /\ C!Ready \in Seq(Typed) /\ C!Ready' \in Seq(Typed)
        /\ Len(C!Ready) = a /\ Len(C!Ready') = a
    BY DEF View
  <2>2. ASSUME NEW i \in 1..a PROVE C!Ready'[i] = C!Ready[i]
    BY DEF View
  <2> QED  BY <2>1, <2>2, SameSequence
<1>2. Line' = Append(Line, c)
  <2>1. /\ Line \in Seq(Typed) /\ Line' \in Seq(Typed) /\ Append(Line, c) \in Seq(Typed)
        /\ Len(Line) = b /\ Len(Line') = b + 1 /\ Len(Append(Line, c)) = b + 1
    BY DEF View, Typed
  <2>2. ASSUME NEW i \in 1..(b + 1) PROVE Line'[i] = Append(Line, c)[i]
    <3>1. CASE i = b + 1
      BY <2>1, <3>1 DEF View
    <3>2. CASE i \in 1..b
      <4>1. Append(Line, c)[i] = Line[i]
        BY <2>1, <3>2
      <4> QED  BY <3>2, <4>1 DEF View
    <3>3. i = b + 1 \/ i \in 1..b
      OBVIOUS
    <3> QED  BY <3>1, <3>2, <3>3, Zenon
  <2> QED  BY <2>1, <2>2, SameSequence
<1>3. C!LI!Type(c)
  BY <1>1, <1>2 DEF C!LI!Type, C!LI!Ends, View, Line, Got
<1> QED  BY <1>3, Zenon DEF LineSteps, C!LI!Next

\* A character that ends it, or fills the ring.
LEMMA LineEnds ==
  ASSUME NEW c \in Chars, NEW a \in Nat, NEW b \in Nat, View(a, b), View(a + b + 1, 0)',
         \A i \in 0..((a + b) - 1) : At(i)' = At(i), At(a + b)' = c,
         a + b < INPUT_BUF, c \in {"nl", "^D"} \/ a + b + 1 = INPUT_BUF, UNCHANGED Got
  PROVE  LineSteps
<1>1. C!Ready' = C!Ready \o Append(Line, c)
  <2> DEFINE t == C!Ready \o Append(Line, c)
  <2>1. /\ C!Ready \in Seq(Typed) /\ Len(C!Ready) = a /\ Line \in Seq(Typed) /\ Len(Line) = b
        /\ C!Ready' \in Seq(Typed) /\ Len(C!Ready') = a + b + 1
    BY DEF View
  <2>2. Append(Line, c) \in Seq(Typed) /\ Len(Append(Line, c)) = b + 1
    BY <2>1 DEF Typed
  <2>3. t \in Seq(Typed) /\ Len(t) = a + b + 1
    <3> HIDE DEF Line
    <3>1. ASSUME NEW x \in Seq(Typed), NEW y \in Seq(Typed)
          PROVE  x \o y \in Seq(Typed) /\ Len(x \o y) = Len(x) + Len(y)
      OBVIOUS
    <3>2. t \in Seq(Typed) /\ Len(t) = Len(C!Ready) + Len(Append(Line, c))
      BY <2>1, <2>2, <3>1, Zenon
    <3> QED  BY <2>1, <2>2, <3>2
  <2>4. ASSUME NEW i \in 1..(a + b + 1) PROVE C!Ready'[i] = t[i]
    <3>1. CASE i \in 1..a
      <4>1. t[i] = C!Ready[i]
        BY <2>1, <2>2, <3>1
      <4> QED  BY <3>1, <4>1 DEF View
    <3>2. CASE i \in (a + 1)..(a + b)
      <4>1. t[i] = Append(Line, c)[i - a]
        BY <2>1, <2>2, <3>2
      <4>2. Append(Line, c)[i - a] = Line[i - a]
        BY <2>1, <3>2
      <4>3. Line[i - a] = At(a + ((i - a) - 1))
        BY <3>2 DEF View
      <4> QED  BY <3>2, <4>1, <4>2, <4>3 DEF View
    <3>3. CASE i = a + b + 1
      <4>1. t[i] = Append(Line, c)[b + 1]
        BY <2>1, <2>2, <3>3
      <4>2. Append(Line, c)[b + 1] = c
        BY <2>1
      <4> QED  BY <3>3, <4>1, <4>2 DEF View
    <3>4. i \in 1..a \/ i \in (a + 1)..(a + b) \/ i = a + b + 1
      OBVIOUS
    <3> QED  BY <3>1, <3>2, <3>3, <3>4, Zenon
  <2> HIDE DEF t
  <2>5. C!Ready' = t
    BY <2>1, <2>3, <2>4, SameSequence
  <2> QED  BY <2>5 DEF t
<1>2. Line' = << >>
  BY DEF View
<1>3. C!LI!Type(c)
  BY <1>1, <1>2 DEF C!LI!Type, C!LI!Ends, View, Line, Got
<1> QED  BY <1>3, Zenon DEF LineSteps, C!LI!Next

\* The end of the line is erased.
LEMMA LineShrinks ==
  ASSUME NEW a \in Nat, NEW b \in Nat, NEW k \in 0..b, View(a, b), View(a, b - k)',
         \A i \in Nat : At(i)' = At(i), UNCHANGED Got
  PROVE  LineSteps
<1>1. C!Ready' = C!Ready
  <2>1. /\ C!Ready \in Seq(Typed) /\ C!Ready' \in Seq(Typed)
        /\ Len(C!Ready) = a /\ Len(C!Ready') = a
    BY DEF View
  <2>2. ASSUME NEW i \in 1..a PROVE C!Ready'[i] = C!Ready[i]
    BY DEF View
  <2> QED  BY <2>1, <2>2, SameSequence
<1>2. Line' = SubSeq(Line, 1, b - k)
  <2>1. /\ Line \in Seq(Typed) /\ Line' \in Seq(Typed) /\ SubSeq(Line, 1, b - k) \in Seq(Typed)
        /\ Len(Line) = b /\ Len(Line') = b - k /\ Len(SubSeq(Line, 1, b - k)) = b - k
    BY DEF View
  <2>2. ASSUME NEW i \in 1..(b - k) PROVE Line'[i] = SubSeq(Line, 1, b - k)[i]
    <3>1. SubSeq(Line, 1, b - k)[i] = Line[i]
      BY <2>1
    <3> QED  BY <3>1 DEF View
  <2> QED  BY <2>1, <2>2, SameSequence
<1>3. CASE k = 0
  <2>1. Line' = Line
    BY <1>2, <1>3 DEF View
  <2> QED  BY <1>1, <2>1, LineStutters
<1>4. CASE k > 0
  <2>1. Len(Line) = b /\ Line # << >> /\ b - k \in 0..(Len(Line) - 1)
    BY <1>4 DEF View
  <2>2. C!LI!Erase
    BY <1>1, <1>2, <2>1 DEF C!LI!Erase, Line, Got
  <2> QED  BY <2>2, Zenon DEF LineSteps, C!LI!Next
<1> QED  BY <1>3, <1>4

\* Whoever reads takes from the front and leaves the line alone.
LEMMA ReadyMoves ==
  ASSUME NEW a \in Nat, NEW b \in Nat, NEW j \in 0..a, View(a, b), View(a - j, b)',
         \A i \in 0..(((a + b) - j) - 1) : At(i)' = At(i + j)
  PROVE  C!Ready' = SubSeq(C!Ready, j + 1, a) /\ Line' = Line
<1>1. Line' = Line
  <2>1. /\ Line \in Seq(Typed) /\ Line' \in Seq(Typed) /\ Len(Line) = b /\ Len(Line') = b
    BY DEF View
  <2>2. ASSUME NEW i \in 1..b PROVE Line'[i] = Line[i]
    <3>1. Line[i] = At(a + (i - 1)) /\ Line'[i] = At((a - j) + (i - 1))'
      BY DEF View
    <3>2. (a - j) + (i - 1) \in 0..(((a + b) - j) - 1) /\ ((a - j) + (i - 1)) + j = a + (i - 1)
      OBVIOUS
    <3> QED  BY <3>1, <3>2
  <2> QED  BY <2>1, <2>2, SameSequence
<1>2. C!Ready' = SubSeq(C!Ready, j + 1, a)
  <2> DEFINE t == SubSeq(C!Ready, j + 1, a)
  <2>1. /\ C!Ready \in Seq(Typed) /\ Len(C!Ready) = a
        /\ C!Ready' \in Seq(Typed) /\ Len(C!Ready') = a - j
    BY DEF View
  <2>2. /\ t \in Seq(Typed) /\ Len(t) = a - j
        /\ \A i \in 1..(a - j) : t[i] = C!Ready[i + j]
    BY <2>1
  <2>3. ASSUME NEW i \in 1..(a - j) PROVE C!Ready'[i] = t[i]
    <3>1. i + j \in 1..a /\ i - 1 \in 0..(((a + b) - j) - 1) /\ (i + j) - 1 = (i - 1) + j
      OBVIOUS
    <3>2. C!Ready[i + j] = At((i - 1) + j) /\ C!Ready'[i] = At(i - 1)'
      BY <3>1 DEF View
    <3> QED  BY <2>2, <3>1, <3>2
  <2> HIDE DEF t
  <2>4. C!Ready' = t
    BY <2>1, <2>2, <2>3, SameSequence
  <2> QED  BY <2>4 DEF t
<1> QED  BY <1>1, <1>2

\* A reader takes characters of one line.
LEMMA LineTaken ==
  ASSUME NEW p \in Procs, NEW a \in Nat, NEW b \in Nat, NEW k \in 1..a, View(a, b), View(a - k, b)',
         \A i \in 0..(((a + b) - k) - 1) : At(i)' = At(i + k),
         \A i \in 1..k : C!Ready[i] # "^D" /\ (i < k => C!Ready[i] # "nl"),
         \A i \in DOMAIN rd[p].dst : rd[p].dst[i] # "nl",
         Got' = [Got EXCEPT ![p] = @ \o SubSeq(C!Ready, 1, k)]
  PROVE  LineSteps
<1>1. C!Ready' = SubSeq(C!Ready, k + 1, a) /\ Line' = Line
  <2>1. k \in 0..a
    OBVIOUS
  <2> QED  BY <2>1, ReadyMoves, Zenon
<1>2. Len(C!Ready) = a /\ Got[p] = rd[p].dst
  BY DEF View, Got
<1>3. C!LI!Take(p)
  BY <1>1, <1>2, Zenon DEF C!LI!Take, Line, Got
<1> QED  BY <1>3, Zenon DEF LineSteps, C!LI!Next

\* A reader that has nothing uses up a ^D.
LEMMA LineIsOver ==
  ASSUME NEW p \in Procs, NEW a \in Nat, NEW b \in Nat, a > 0, View(a, b), View(a - 1, b)',
         \A i \in 0..(((a + b) - 1) - 1) : At(i)' = At(i + 1),
         C!Ready[1] = "^D", rd[p].dst = << >>, UNCHANGED Got
  PROVE  LineSteps
<1>1. C!Ready' = SubSeq(C!Ready, 1 + 1, a) /\ Line' = Line
  <2>1. 1 \in 0..a
    OBVIOUS
  <2> QED  BY <2>1, ReadyMoves, Zenon
<1>2. C!Ready \in Seq(Typed) /\ Len(C!Ready) = a /\ Got[p] = rd[p].dst
  BY DEF View, Got
<1>3. C!Ready # << >> /\ Head(C!Ready) = "^D" /\ C!Ready' = Tail(C!Ready)
  BY <1>1, <1>2
<1>4. C!LI!EndOfFile(p)
  BY <1>1, <1>2, <1>3, Zenon DEF C!LI!EndOfFile, Line, Got
<1> QED  BY <1>4, Zenon DEF LineSteps, C!LI!Next

\* A new call has nothing yet.
LEMMA LineCalled ==
  ASSUME NEW p \in Procs, UNCHANGED <<C!Ready, Line>>, Got' = [Got EXCEPT ![p] = << >>]
  PROVE  LineSteps
<1>1. C!LI!Call(p)
  BY Zenon DEF C!LI!Call, Line, Got
<1> QED  BY <1>1, Zenon DEF LineSteps, C!LI!Next

-----------------------------------------------------------------------------
\* r moves on over what is ready.
LEMMA RingMoves ==
  ASSUME NEW a \in Nat, NEW b \in Nat, NEW j \in 0..a, Ring(a, b),
         r' = C!Add(r, j), UNCHANGED <<input, w, e>>
  PROVE  /\ Ring(a - j, b)'
         /\ \A i \in 0..(((a + b) - j) - 1) : At(i)' = At(i + j)
<1>1. a + b < Wrap /\ Wrap \in Nat /\ r \in 0..(Wrap - 1)
  BY WrapBeyond, ConsoleAssumption DEF Ring
<1>2. ASSUME NEW i \in Nat, i + j < Wrap PROVE C!Add(r', i) = C!Add(r, i + j)
  <2>1. C!Add(C!Add(r, j), i) = C!Add(r, j + i)
    BY <1>1, <1>2, Indices
  <2> QED  BY <2>1
<1>3. r' \in 0..(Wrap - 1)
  BY <1>1, Indices
<1>4. w' = C!Add(r', a - j)
  <2>1. a - j \in Nat /\ (a - j) + j = a /\ a < Wrap
    BY <1>1
  <2> QED  BY <1>2, <2>1 DEF Ring
<1>5. e' = C!Add(r', (a - j) + b)
  <2>1. (a - j) + b \in Nat /\ ((a - j) + b) + j = a + b
    BY <1>1
  <2> QED  BY <1>1, <1>2, <2>1 DEF Ring
<1>6. (a - j) + b <= INPUT_BUF
  BY ConsoleAssumption DEF Ring
<1>7. ASSUME NEW i \in 0..(((a + b) - j) - 1) PROVE At(i)' = At(i + j)
  <2>1. i \in Nat /\ i + j < Wrap
    BY <1>1
  <2> QED  BY <1>2, <2>1 DEF At, C!Char
<1>8. Ring(a - j, b)'
  BY <1>3, <1>4, <1>5, <1>6 DEF Ring
<1> QED  BY <1>7, <1>8

\* The calls of the readers, when none returns or gets anything.
SameCalls ==
  \A q \in Procs :
    /\ rd'[q].dst = rd[q].dst /\ rd'[q].n = rd[q].n /\ rd'[q].target = rd[q].target
    /\ rd'[q].pc # "idle" => rd[q].pc # "idle"

\* They stay as they are.
LEMMA CallsStay ==
  ASSUME LinesInv, SameCalls PROVE (\A q \in Procs : ReaderInv(q)') /\ Got' = Got
<1>1. ASSUME NEW q \in Procs PROVE ReaderInv(q)'
  BY Zenon DEF LinesInv, ReaderInv, SameCalls
<1>2. Got' = Got
  BY Zenon DEF SameCalls, Got
<1> QED  BY <1>1, <1>2, Zenon

\* The invariant after a step, from the ring's new lengths.
LEMMA LinesKept ==
  ASSUME NEW a \in Nat, NEW b \in Nat, Ring(a, b)', \A q \in Procs : ReaderInv(q)'
  PROVE  LinesInv' /\ View(a, b)'
<1>1. Viewed'
  BY Views, PTL
<1> QED  BY <1>1, Zenon DEF Viewed, LinesInv

\* A key that goes into the ring: the last slot is free, so no character that
\* is still to be read is overwritten.
LEMMA KeyLines ==
  ASSUME LinesInv, NEW c \in Chars, C!consoleintr(c), SameCalls PROVE LinesInv' /\ LineSteps
<1>1. PICK a \in Nat, b \in Nat : Ring(a, b)
  BY Zenon DEF LinesInv
<1>2. View(a, b)
  BY <1>1, Views, Zenon DEF Viewed
<1>3. /\ Wrap \in Nat /\ INPUT_BUF \in Nat /\ INPUT_BUF < Wrap /\ a + b <= INPUT_BUF
      /\ r \in 0..(Wrap - 1) /\ r' = r
  BY <1>1, WrapBeyond, ConsoleAssumption DEF Ring, C!consoleintr
<1>4. a + b < INPUT_BUF
  <2>1. a + b \in Nat /\ a + b < Wrap
    BY <1>3
  <2>2. C!Sub(C!Add(r, a + b), r) = a + b
    BY <1>3, <2>1, Indices
  <2> QED  BY <1>1, <2>2 DEF Ring, C!consoleintr, C!Room
<1>5. e' = C!Add(r, a + b + 1)
  <2>1. a + b \in Nat /\ (a + b) + 1 < Wrap + 1 /\ (a + b) + 1 <= INPUT_BUF
    BY <1>3, <1>4
  <2>2. C!Add(C!Add(r, a + b), 1) = C!Add(r, (a + b) + 1)
    BY <1>3, <2>1, Indices
  <2> QED  BY <1>1, <2>2 DEF Ring, C!consoleintr
<1>6. /\ input' \in [0..(INPUT_BUF - 1) -> Typed]
      /\ \A i \in 0..((a + b) - 1) : At(i)' = At(i)
      /\ At(a + b)' = c
  <2> DEFINE s == e % INPUT_BUF
  <2>1. e = C!Add(r, a + b) /\ e \in Nat
    <3>1. a + b \in Nat /\ 0..(Wrap - 1) \subseteq Nat
      BY <1>3
    <3>2. C!Add(r, a + b) \in 0..(Wrap - 1)
      BY <1>3, <3>1, Indices, Zenon
    <3> QED  BY <1>1, <3>1, <3>2, Zenon DEF Ring
  <2>2. s \in 0..(INPUT_BUF - 1)
    BY <2>1, Rounds
  <2>3. input' = [input EXCEPT ![s] = c] /\ input \in [0..(INPUT_BUF - 1) -> Typed]
    BY <1>1 DEF Ring, C!consoleintr
  <2>4. ASSUME NEW i \in 0..((a + b) - 1) PROVE At(i)' = At(i)
    <3>1. i \in 0..(INPUT_BUF - 1) /\ a + b \in 0..(INPUT_BUF - 1) /\ i < a + b /\ i \in Nat
      BY <1>3, <1>4
    <3>2. C!Add(r, i) % INPUT_BUF # s
      BY <1>3, <2>1, <3>1, Slots
    <3>3. C!Add(r, i) % INPUT_BUF \in 0..(INPUT_BUF - 1)
      <4>1. C!Add(r, i) \in 0..(Wrap - 1) /\ 0..(Wrap - 1) \subseteq Nat
        BY <1>3, <3>1, Indices
      <4> QED  BY <4>1, Rounds, Zenon
    <3> HIDE DEF s
    <3> QED  BY <1>3, <2>3, <3>2, <3>3 DEF At, C!Char
  <2>5. At(a + b)' = c
    <3>1. C!Add(r, a + b) % INPUT_BUF = s
      BY <2>1
    <3> HIDE DEF s
    <3> QED  BY <1>3, <2>2, <2>3, <3>1 DEF At, C!Char
  <2>6. input' \in [0..(INPUT_BUF - 1) -> Typed]
    <3> HIDE DEF s
    <3> QED  BY <2>2, <2>3 DEF Typed
  <2> QED  BY <2>4, <2>5, <2>6
<1>7. (\A q \in Procs : ReaderInv(q)') /\ Got' = Got
  BY CallsStay
<1>8. e' = C!Add(r, INPUT_BUF) <=> a + b + 1 = INPUT_BUF
  <2>1. a + b + 1 \in Nat /\ a + b + 1 < Wrap
    BY <1>3, <1>4
  <2>2. C!Sub(C!Add(r, a + b + 1), r) = a + b + 1 /\ C!Sub(C!Add(r, INPUT_BUF), r) = INPUT_BUF
    BY <1>3, <2>1, Indices
  <2> QED  BY <1>5, <2>2
<1>9. CASE c \in {"nl", "^D"} \/ e' = C!Add(r, INPUT_BUF)
  <2>1. w' = e'
    BY <1>9 DEF C!consoleintr
  <2>2. Ring(a + b + 1, 0)'
    BY <1>3, <1>4, <1>5, <1>6, <2>1 DEF Ring
  <2>3. a + b + 1 \in Nat /\ 0 \in Nat
    OBVIOUS
  <2>4. LinesInv' /\ View(a + b + 1, 0)'
    BY <1>7, <2>2, <2>3, LinesKept, Zenon
  <2> QED  BY <1>2, <1>4, <1>6, <1>7, <1>8, <1>9, <2>4, LineEnds, Zenon
<1>10. CASE ~(c \in {"nl", "^D"} \/ e' = C!Add(r, INPUT_BUF))
  <2>1. w' = w
    BY <1>10, Zenon DEF C!consoleintr
  <2>2. Ring(a, b + 1)'
    BY <1>1, <1>3, <1>4, <1>5, <1>6, <2>1 DEF Ring
  <2>3. b + 1 \in Nat
    OBVIOUS
  <2>4. LinesInv' /\ View(a, b + 1)'
    BY <1>7, <2>2, <2>3, LinesKept, Zenon
  <2> QED  BY <1>2, <1>4, <1>6, <1>7, <1>8, <1>10, <2>4, LineGrows, Zenon
<1> QED  BY <1>9, <1>10, Zenon

\* e moves back over the line, never into what is ready.
LEMMA EraseLines ==
  ASSUME LinesInv, NEW k \in 0..C!Sub(e, w), e' = C!Sub(e, k),
         UNCHANGED <<input, r, w>>, SameCalls
  PROVE  LinesInv' /\ LineSteps
<1>1. PICK a \in Nat, b \in Nat : Ring(a, b)
  BY Zenon DEF LinesInv
<1>2. View(a, b)
  BY <1>1, Views, Zenon DEF Viewed
<1>3. /\ Wrap \in Nat /\ INPUT_BUF \in Nat /\ INPUT_BUF < Wrap /\ a + b <= INPUT_BUF
      /\ r \in 0..(Wrap - 1)
  BY <1>1, WrapBeyond, ConsoleAssumption DEF Ring
<1>4. k \in 0..b
  <2>1. w \in 0..(Wrap - 1) /\ e = C!Add(w, b)
    <3>1. w = C!Add(r, a) /\ e = C!Add(r, a + b) /\ a + b < Wrap
      BY <1>1, <1>3 DEF Ring
    <3> QED  BY <1>3, <3>1, Indices
  <2>2. b < Wrap
    BY <1>3
  <2>3. C!Sub(e, w) = b
    BY <2>1, <2>2, Indices
  <2> QED  BY <2>3
<1>5. e' = C!Add(r, a + (b - k))
  <2>1. k \in Nat /\ a + b \in Nat /\ k <= a + b /\ a + b < Wrap /\ (a + b) - k = a + (b - k)
    BY <1>3, <1>4
  <2>2. C!Sub(C!Add(r, a + b), k) = C!Add(r, (a + b) - k)
    BY <1>3, <2>1, Indices
  <2> QED  BY <1>1, <2>1, <2>2 DEF Ring
<1>6. b - k \in Nat /\ a + (b - k) <= INPUT_BUF
  BY <1>3, <1>4
<1>7. Ring(a, b - k)'
  BY <1>1, <1>5, <1>6 DEF Ring
<1>8. (\A q \in Procs : ReaderInv(q)') /\ Got' = Got
  BY CallsStay
<1>9. LinesInv' /\ View(a, b - k)'
  BY <1>6, <1>7, <1>8, LinesKept, Zenon
<1>10. \A i \in Nat : At(i)' = At(i)
  BY Zenon DEF At, C!Char
<1> QED  BY <1>2, <1>4, <1>8, <1>9, <1>10, LineShrinks, Zenon

\* The ring stays as it is.
LEMMA RingStays ==
  ASSUME LinesInv, UNCHANGED <<input, r, w, e>>
  PROVE  (\E a, b \in Nat : Ring(a, b)') /\ C!Ready' = C!Ready /\ Line' = Line
<1>1. \E a, b \in Nat : Ring(a, b)'
  BY Zenon DEF LinesInv, Ring
<1>2. C!Ready' = C!Ready /\ Line' = Line
  BY Zenon DEF C!Ready, C!Char, Line
<1> QED  BY <1>1, <1>2, Zenon

\* Nobody gets anything.
LEMMA StillLines ==
  ASSUME LinesInv, UNCHANGED <<input, r, w, e>>, SameCalls PROVE LinesInv' /\ LineSteps
<1>1. (\A q \in Procs : ReaderInv(q)') /\ Got' = Got
  BY CallsStay
<1> QED  BY <1>1, RingStays, LineStutters, Zenon DEF LinesInv

\* A call begins.
LEMMA CallLines ==
  ASSUME LinesInv, ConsoleInv, NEW p \in Procs, C!read(p) PROVE LinesInv' /\ LineSteps
<1>1. PICK n \in 1..MaxRead :
        rd' = [rd EXCEPT ![p] = [C!Idle EXCEPT !.pc = "read", !.n = n, !.target = n]]
  BY Zenon DEF C!read
<1>2. UNCHANGED <<input, r, w, e>>
  BY Zenon DEF C!read
<1>3. /\ \A q \in Procs \ {p} : rd'[q] = rd[q]
      /\ rd'[p].dst = << >> /\ rd'[p].n = n /\ rd'[p].target = n
  BY <1>1, Zenon DEF C!Idle, ConsoleInv, Reader
<1>4. n \in Nat
  BY ConsoleAssumption
<1>5. ASSUME NEW q \in Procs PROVE ReaderInv(q)'
  <2>1. CASE q = p
    <3>1. << >> \in Seq(Typed) /\ DOMAIN << >> = {} /\ n = n + Len(<< >>)
      BY <1>4
    <3> QED  BY <1>3, <1>4, <2>1, <3>1, Zenon DEF ReaderInv
  <2>2. CASE q # p
    BY <1>3, <2>2, Zenon DEF LinesInv, ReaderInv
  <2> QED  BY <2>1, <2>2, Zenon
<1>6. Got' = [Got EXCEPT ![p] = << >>]
  BY <1>3, Zenon DEF Got
<1> QED  BY <1>2, <1>5, <1>6, RingStays, LineCalled, Zenon DEF LinesInv

\* A call takes what it may, and no more than it asked for.
LEMMA ReadLines ==
  ASSUME LinesInv, ConsoleInv, NEW p \in Procs, C!consoleread(p) PROVE LinesInv' /\ LineSteps
<1>1. PICK a \in Nat, b \in Nat : Ring(a, b)
  BY Zenon DEF LinesInv
<1>2. View(a, b)
  BY <1>1, Views, Zenon DEF Viewed
<1> DEFINE me == rd[p]
           s == C!Ready
<1>3. s \in Seq(Typed) /\ Len(s) = a
  BY <1>2 DEF View
<1>4. PICK k \in 0..Len(s) :
        LET left == me.n - k
            ended == left = 0 \/ (k > 0 /\ s[k] = "nl")
            eof == ~ended /\ k < Len(s)
            more == ~ended /\ k = Len(s) IN
        /\ C!Stops(me.n, k) /\ \A j \in 0..(k - 1) : ~C!Stops(me.n, j)
        /\ r' = IF eof /\ left = me.target THEN C!Add(r, k + 1) ELSE C!Add(r, k)
        /\ rd' = [rd EXCEPT ![p] =
                    [me EXCEPT !.n = left, !.dst = @ \o SubSeq(s, 1, k),
                               !.pc = IF more /\ ~me.killed THEN "asleep" ELSE "idle"]]
  BY Zenon DEF C!consoleread
<1>5. UNCHANGED <<input, w, e>>
  BY Zenon DEF C!consoleread
<1>6. /\ me.n \in Nat /\ me.dst \in Seq(Typed) /\ me.target = me.n + Len(me.dst)
      /\ \A i \in DOMAIN me.dst : me.dst[i] # "nl"
  <2>1. me.pc # "idle"
    BY DEF C!consoleread
  <2> QED  BY <2>1, Zenon DEF LinesInv, ReaderInv
<1> DEFINE ended == me.n - k = 0 \/ (k > 0 /\ s[k] = "nl")
           eof == ~ended /\ k < a
           more == ~ended /\ k = a
<1>7. /\ r' = IF eof /\ me.n - k = me.target THEN C!Add(r, k + 1) ELSE C!Add(r, k)
      /\ rd' = [rd EXCEPT ![p] =
                  [me EXCEPT !.n = me.n - k, !.dst = @ \o SubSeq(s, 1, k),
                             !.pc = IF more /\ ~me.killed THEN "asleep" ELSE "idle"]]
  BY <1>3, <1>4, Zenon
<1> HIDE DEF s
<1>8. k \in 0..a /\ k \in Nat /\ k <= me.n
  <2>1. ASSUME me.n < k PROVE FALSE
    <3>1. me.n \in 0..(k - 1)
      BY <1>6, <2>1
    <3> QED  BY <1>4, <3>1, Zenon DEF C!Stops
  <2> QED  BY <1>3, <1>6, <2>1
<1>9. \A i \in 1..k : s[i] # "^D" /\ (i < k => s[i] # "nl")
  <2> SUFFICES ASSUME NEW i \in 1..k PROVE s[i] # "^D" /\ (i < k => s[i] # "nl")
    BY Zenon
  <2>1. i - 1 \in 0..(k - 1) /\ i - 1 < Len(s) /\ (i - 1) + 1 = i
    BY <1>3, <1>8
  <2>2. s[i] # "^D"
    BY <1>4, <2>1 DEF C!Stops, s
  <2>3. ASSUME i < k PROVE s[i] # "nl"
    <3>1. i \in 0..(k - 1) /\ i > 0
      BY <2>3
    <3> QED  BY <1>4, <3>1, Zenon DEF C!Stops, s
  <2> QED  BY <2>2, <2>3
<1> DEFINE t == SubSeq(s, 1, k)
<1>10. /\ t \in Seq(Typed) /\ Len(t) = k /\ \A i \in 1..k : t[i] = s[i]
  BY <1>3, <1>8
<1> HIDE DEF t
<1>11. /\ \A q \in Procs \ {p} : rd'[q] = rd[q]
       /\ rd'[p].dst = me.dst \o t /\ rd'[p].n = me.n - k /\ rd'[p].target = me.target
       /\ rd'[p].pc = IF more /\ ~me.killed THEN "asleep" ELSE "idle"
  <2> HIDE DEF ended, more, eof
  <2> QED  BY <1>7, Zenon DEF t, ConsoleInv, Reader
<1>12. /\ me.dst \o t \in Seq(Typed) /\ Len(me.dst \o t) = Len(me.dst) + k
       /\ \A i \in 1..Len(me.dst) : (me.dst \o t)[i] = me.dst[i]
       /\ \A i \in 1..k : (me.dst \o t)[Len(me.dst) + i] = s[i]
  <2>1. /\ me.dst \o t \in Seq(Typed) /\ Len(me.dst \o t) = Len(me.dst) + Len(t)
        /\ \A i \in 1..Len(me.dst) : (me.dst \o t)[i] = me.dst[i]
        /\ \A i \in 1..Len(t) : (me.dst \o t)[Len(me.dst) + i] = t[i]
    <3> DEFINE d == me.dst
    <3>1. d \in Seq(Typed) /\ t \in Seq(Typed)
      BY <1>6, <1>10
    <3> HIDE DEF d
    <3>2. /\ d \o t \in Seq(Typed) /\ Len(d \o t) = Len(d) + Len(t)
          /\ \A i \in 1..Len(d) : (d \o t)[i] = d[i]
          /\ \A i \in 1..Len(t) : (d \o t)[Len(d) + i] = t[i]
      BY <3>1, JoinedSequence
    <3> QED  BY <3>2 DEF d
  <2> QED  BY <1>10, <2>1, Zenon
<1>13. ASSUME NEW q \in Procs PROVE ReaderInv(q)'
  <2>1. CASE q = p
    <3>1. ASSUME rd'[p].pc # "idle", NEW i \in 1..(Len(me.dst) + k) PROVE (me.dst \o t)[i] # "nl"
      <4>1. ~ended
        BY <1>11, <3>1
      <4>2. CASE i \in 1..Len(me.dst)
        BY <1>6, <1>12, <4>2
      <4>3. ASSUME NEW j \in 1..k, i = Len(me.dst) + j PROVE (me.dst \o t)[i] # "nl"
        <5>1. s[j] # "nl"
          <6>1. j < k \/ (j = k /\ k > 0)
            BY <1>8
          <6> QED  BY <1>9, <4>1, <6>1, Zenon
        <5> QED  BY <1>12, <4>3, <5>1, Zenon
      <4>4. i \in 1..Len(me.dst) \/ \E j \in 1..k : i = Len(me.dst) + j
        <5>1. Len(me.dst) \in Nat
          BY <1>6
        <5>2. CASE i > Len(me.dst)
          <6>1. i - Len(me.dst) \in 1..k /\ i = Len(me.dst) + (i - Len(me.dst))
            BY <1>8, <5>1, <5>2
          <6> QED  BY <6>1, Zenon
        <5> QED  BY <5>1, <5>2
      <4> QED  BY <4>2, <4>3, <4>4, Zenon
    <3>2. me.n - k \in Nat /\ me.target = (me.n - k) + (Len(me.dst) + k)
      BY <1>6, <1>8
    <3>3. DOMAIN (me.dst \o t) = 1..(Len(me.dst) + k)
      BY <1>12
    <3> QED  BY <1>11, <1>12, <2>1, <3>1, <3>2, <3>3, Zenon DEF ReaderInv
  <2>2. CASE q # p
    BY <1>11, <2>2, Zenon DEF LinesInv, ReaderInv
  <2> QED  BY <2>1, <2>2, Zenon
<1>14. Got' = [Got EXCEPT ![p] = @ \o t]
  BY <1>11, Zenon DEF Got
<1>15. CASE eof /\ me.n - k = me.target
  <2>1. k = 0 /\ Len(me.dst) = 0 /\ me.n # 0 /\ a > 0
    BY <1>6, <1>8, <1>15
  <2>2. me.dst = << >> /\ t = << >> /\ me.dst \o t = me.dst
    BY <1>6, <1>10, <2>1
  <2>3. s[1] = "^D"
    BY <1>3, <1>4, <2>1 DEF C!Stops, s
  <2>4. r' = C!Add(r, 1) /\ 1 \in 0..a /\ a - 1 \in Nat
    BY <1>7, <1>15, <2>1
  <2>5. Ring(a - 1, b)' /\ \A i \in 0..(((a + b) - 1) - 1) : At(i)' = At(i + 1)
    BY <1>1, <1>5, <2>4, RingMoves, Zenon
  <2>6. LinesInv' /\ View(a - 1, b)'
    BY <1>13, <2>4, <2>5, LinesKept, Zenon
  <2>7. Got' = Got
    BY <1>14, <2>2, Zenon DEF Got
  <2> QED  BY <1>2, <2>1, <2>2, <2>3, <2>5, <2>6, <2>7, LineIsOver, Zenon DEF s
<1>16. CASE ~(eof /\ me.n - k = me.target)
  <2>1. r' = C!Add(r, k) /\ a - k \in Nat
    BY <1>7, <1>8, <1>16
  <2>2. Ring(a - k, b)' /\ \A i \in 0..(((a + b) - k) - 1) : At(i)' = At(i + k)
    BY <1>1, <1>5, <1>8, <2>1, RingMoves, Zenon
  <2>3. LinesInv' /\ View(a - k, b)'
    BY <1>13, <2>1, <2>2, LinesKept, Zenon
  <2>4. CASE k = 0
    <3>1. t = << >> /\ me.dst \o t = me.dst
      BY <1>6, <1>10, <2>4
    <3>2. Got' = Got
      BY <1>14, <3>1, Zenon DEF Got
    <3>3. r' = r
      BY <1>1, <2>1, <2>4, Indices DEF Ring
    <3> QED  BY <1>5, <2>3, <3>2, <3>3, RingStays, LineStutters, Zenon
  <2>5. CASE k # 0
    <3>1. k \in 1..a
      BY <1>8, <2>5
    <3> QED  BY <1>2, <1>6, <1>9, <1>14, <2>2, <2>3, <3>1, LineTaken, Zenon DEF s, t
  <2> QED  BY <2>4, <2>5, Zenon
<1> QED  BY <1>15, <1>16, Zenon

\* Every step of the console is one of the line discipline, or none.
LEMMA ConsoleLines ==
  ASSUME LinesInv, ConsoleInv, C!Next PROVE LinesInv' /\ LineSteps
<1>1. ASSUME NEW c \in Chars, C!consoleintr(c) PROVE LinesInv' /\ LineSteps
  <2>1. rd' = rd \/ rd' = C!Wakeup
    BY <1>1, Zenon DEF C!consoleintr
  <2>2. SameCalls
    <3>1. CASE rd' = rd
      BY <3>1, Zenon DEF SameCalls
    <3>2. CASE rd' = C!Wakeup
      BY <3>2, Zenon DEF SameCalls, C!Wakeup, ConsoleInv, Reader
    <3> QED  BY <2>1, <3>1, <3>2, Zenon
  <2> QED  BY <1>1, <2>2, KeyLines, Zenon
<1>2. ASSUME C!consoleintr_full PROVE LinesInv' /\ LineSteps
  BY <1>2, StillLines, Zenon DEF C!consoleintr_full, SameCalls
<1>3. ASSUME C!backspace \/ C!kill_line PROVE LinesInv' /\ LineSteps
  <2>1. UNCHANGED <<input, r, w>> /\ SameCalls
    BY <1>3, Zenon DEF C!backspace, C!kill_line, SameCalls
  <2>2. \E k \in 0..C!Sub(e, w) : e' = C!Sub(e, k)
    <3>1. CASE C!backspace
      <4>1. 1 \in 0..C!Sub(e, w)
        <5>1. Wrap \in Nat /\ e \in 0..(Wrap - 1) /\ w \in 0..(Wrap - 1) /\ e # w
          BY <3>1, WrapBeyond DEF C!backspace, ConsoleInv
        <5>2. C!Sub(e, w) = IF e >= w THEN e - w ELSE (e + Wrap) - w
          BY <5>1 DEF C!Sub
        <5> QED  BY <5>1, <5>2
      <4> QED  BY <3>1, <4>1, Zenon DEF C!backspace
    <3>2. CASE C!kill_line
      BY <3>2, Zenon DEF C!kill_line
    <3> QED  BY <1>3, <3>1, <3>2, Zenon
  <2> QED  BY <2>1, <2>2, EraseLines, Zenon
<1>4. ASSUME NEW p \in Procs, C!kill(p) PROVE LinesInv' /\ LineSteps
  <2>1. UNCHANGED <<input, r, w, e>>
    BY <1>4, Zenon DEF C!kill
  <2>2. SameCalls
    BY <1>4, Zenon DEF C!kill, SameCalls, ConsoleInv, Reader
  <2> QED  BY <2>1, <2>2, StillLines, Zenon
<1> QED  BY <1>1, <1>2, <1>3, <1>4, CallLines, ReadLines, Zenon DEF C!Next

\* At boot the ring is empty.
LEMMA LinesStart ==
  ASSUME C!Init PROVE LinesInv /\ C!LI!Init
<1>1. r = 0 /\ w = 0 /\ e = 0 /\ C!Add(0, 0) = 0 /\ C!Add(0, 0 + 0) = 0
  BY WrapBeyond DEF C!Init, C!Add
<1>2. Ring(0, 0)
  BY <1>1, WrapBeyond, ConsoleAssumption DEF Ring, C!Init, Typed
<1>3. ASSUME NEW p \in Procs PROVE ReaderInv(p) /\ rd[p].dst = << >>
  <2>1. rd[p].pc = "idle" /\ rd[p].dst = << >> /\ << >> \in Seq(Typed)
    BY DEF C!Init, C!Idle
  <2> QED  BY <2>1, Zenon DEF ReaderInv
<1>4. View(0, 0)
  BY <1>2, Views DEF Viewed
<1>5. C!Ready = << >> /\ Line = << >>
  BY <1>4 DEF View
<1>6. Got = [p \in Procs |-> << >>]
  BY <1>3, Zenon DEF Got
<1>7. C!LI!Init
  BY <1>5, <1>6, Zenon DEF C!LI!Init, Line, Got
<1> QED  BY <1>2, <1>3, <1>7 DEF LinesInv

-----------------------------------------------------------------------------
(* Both devices.                                                           *)

\* One device runs, the other is as it was at boot.
DevicesInv == BufInv /\ ConsoleInv

\* The invariant holds from boot on.
LEMMA DevicesAlways ==
  DevInit /\ [][DevNext]_devVars => []DevicesInv
<1>1. DevInit => DevicesInv
  BY BufStarts, ConsoleStarts, Zenon DEF DevInit, DevicesInv
<1>2. DevicesInv /\ [DevNext]_devVars => DevicesInv'
  <2> SUFFICES ASSUME DevicesInv, [DevNext]_devVars PROVE DevicesInv'
    BY Zenon
  <2>1. BufInv /\ ConsoleInv
    BY Zenon DEF DevicesInv
  <2>2. ASSUME UNCHANGED vars PROVE BufInv'
    <3>1. UNCHANGED <<driver, buf, lru, idequeue, drive, disk, pc, cur, blockno, writing>>
      BY <2>2, Zenon DEF vars
    <3>2. BufTypes' /\ HeldInv' /\ RefInv'
      BY <2>1, <3>1, Zenon DEF BufInv, BufTypes, HeldInv, HeldAt, RefInv, Users
    <3>3. CacheInv' /\ RequestInv'
      BY <2>1, <3>1, Zenon DEF BufInv, CacheInv, CacheAt, RequestInv, RequestAt, InQueue
    <3>4. QueueInv'
      BY <2>1, <3>1, Zenon DEF BufInv, QueueInv, QueueAt, InQueue, Asking
    <3>5. QED
      BY <3>2, <3>3, <3>4, Zenon DEF BufInv
  <2>3. ASSUME UNCHANGED keyboardVars PROVE ConsoleInv'
    BY <2>1, <2>3, Zenon DEF keyboardVars, ConsoleInv, C!ReadersAwaited
  <2>4. CASE Disk(Next)
    BY <2>1, <2>3, <2>4, BufNext, Zenon DEF Disk, DevicesInv
  <2>5. CASE Keyboard(C!Next)
    BY <2>1, <2>2, <2>5, ConsoleNext, Zenon DEF Keyboard, DevicesInv
  <2>6. CASE UNCHANGED devVars
    BY <2>2, <2>3, <2>6, Zenon DEF devVars, DevicesInv
  <2>7. QED
    BY <2>4, <2>5, <2>6, Zenon DEF DevNext
<1>3. QED
  BY <1>1, <1>2, PTL

\* No sleeper is forgotten, whatever the number of processes, buffers and
\* blocks, the size of the ring and the interleaving of kills, interrupts and
\* wakeups: whoever sleeps in acquiresleep, iderw or consoleread has somebody
\* or something left to wake it.
THEOREM NoSleeperForgotten == DevSpec => []SleepersAwaited
<1>1. DevicesInv => SleepersAwaited
  <2> SUFFICES ASSUME DevicesInv PROVE DiskSleepersAwaited /\ C!ReadersAwaited
    BY Zenon DEF SleepersAwaited
  <2>1. DOMAIN idequeue = 1..Len(idequeue)
    BY DEF DevicesInv, BufInv, BufTypes
  <2>2. QED
    BY <2>1, Zenon DEF DevicesInv, BufInv, HeldInv, HeldAt, RequestInv, RequestAt, InQueue, QueueInv,
                ConsoleInv, DiskSleepersAwaited, My
<1>2. QED
  BY <1>1, DevicesAlways, PTL DEF DevSpec

\* The ring of console.c implements the line discipline, whatever its size and
\* wherever the unsigned indices wrap around, for any number of readers, sizes
\* of reads, keys and kills: no character is lost, repeated or overwritten
\* before it is read, and no call reads past the end of a line.
THEOREM RingIsALine == DevSpec => ImplementsLines
<1>1. DevInit => LinesInv /\ C!LI!Init
  BY LinesStart, Zenon DEF DevInit
<1>2. LinesInv /\ DevicesInv /\ [DevNext]_devVars => LinesInv' /\ [C!LI!Next]_(C!LI!vars)
  <2> SUFFICES ASSUME LinesInv, DevicesInv, [DevNext]_devVars
               PROVE  LinesInv' /\ [C!LI!Next]_(C!LI!vars)
    BY Zenon
  <2>1. CASE Keyboard(C!Next)
    BY <2>1, ConsoleLines, Zenon DEF Keyboard, DevicesInv, LineSteps
  <2>2. CASE Disk(Next) \/ UNCHANGED devVars
    <3>1. UNCHANGED <<input, r, w, e, rd>>
      BY <2>2, Zenon DEF Disk, devVars, keyboardVars
    <3> QED  BY <3>1, StillLines, Zenon DEF SameCalls, LineSteps
  <2> QED  BY <2>1, <2>2, Zenon DEF DevNext
<1> QED  BY <1>1, <1>2, DevicesAlways, PTL DEF DevSpec, ImplementsLines, C!LI!Spec

\* The cache over either driver implements the block store for any number of
\* processes, blocks and buffers: a block has one user at a time, who sees what
\* its last user left although buffers are recycled, changes are not lost while
\* requests queue and processes are killed, and bwrite returns with the block
\* on disk.
THEOREM CacheIsAStore == DevSpec => ImplementsStore
<1>1. DevInit => BS!Init
  BY StoreStarts, Zenon DEF DevInit
<1>2. DevicesInv /\ DevicesInv' /\ [DevNext]_devVars => [BS!Next]_(BS!vars)
  <2> SUFFICES ASSUME DevicesInv, DevicesInv', [DevNext]_devVars PROVE StoreSteps
    BY Zenon DEF StoreSteps
  <2>1. ASSUME UNCHANGED vars PROVE StoreSteps
    <3>1. UNCHANGED <<driver, buf, lru, idequeue, drive, disk, pc, cur, blockno, writing>>
      BY <2>1, Zenon DEF vars
    <3>2. UNCHANGED <<Store, disk, Uses, writing>>
      BY <3>1 DEF Store, StoreAt, ValidFor, Uses, UsesAt, Reading
    <3>3. QED
      BY <3>2, StoreStutters, Zenon
  <2>2. CASE Disk(Next)
    BY <2>2, StoreNext, Zenon DEF Disk, DevicesInv
  <2>3. CASE Keyboard(C!Next)
    BY <2>1, <2>3, Zenon DEF Keyboard
  <2>4. CASE UNCHANGED devVars
    BY <2>1, <2>4, Zenon DEF devVars
  <2>5. QED
    BY <2>2, <2>3, <2>4, Zenon DEF DevNext
<1>3. ImplementsStore <=> BS!Init /\ [][BS!Next]_(BS!vars)
  BY PTL DEF ImplementsStore, BS!Spec
<1>4. QED
  BY <1>1, <1>2, <1>3, DevicesAlways, PTL DEF DevSpec
=============================================================================
