------------------------------ MODULE Console -------------------------------
(***************************************************************************)
(* Console input of xv6 (console.c): the interrupt handler edits a line in *)
(* a ring of INPUT_BUF characters, readers sleep until a line is there.    *)
(* r, w and e count without end and wrap around as unsigned numbers do.    *)
(* Everything under cons.lock is one step; a handler that finds several    *)
(* characters is several interrupts.  ^P only prints the process table.    *)
(***************************************************************************)
EXTENDS Naturals, Sequences

CONSTANTS
  Readers,
  Chars,           \* what may be typed besides ^U and ^H: "nl", "^D", others
  INPUT_BUF,
  Wrap,            \* 2^32, a multiple of INPUT_BUF
  MaxRead,         \* largest n of a read
  MaxKeys          \* keys typed in a behaviour

VARIABLES
  buf, r, w, e,    \* input
  rd,              \* the readers: pc, n and target of consoleread, what is
                   \* in dst, killed
  keys

vars == <<buf, r, w, e, rd, keys>>

Idle == [pc |-> "idle", n |-> 0, target |-> 0, dst |-> << >>, killed |-> FALSE]

Init ==
  /\ buf = [i \in 0..(INPUT_BUF - 1) |-> "nul"]
  /\ r = 0 /\ w = 0 /\ e = 0
  /\ rd = [p \in Readers |-> Idle]
  /\ keys = 0

Add(i, k) == (i + k) % Wrap
Sub(i, j) == ((i + Wrap) - j) % Wrap
Char(i) == buf[i % INPUT_BUF]

\* wakeup(&input.r)
Wakeup == [p \in Readers |-> [rd[p] EXCEPT !.pc = IF @ = "asleep" THEN "read" ELSE @]]

Key == keys < MaxKeys /\ keys' = keys + 1

\* Mutant: one character too many.
Room_over == Sub(e, r) <= INPUT_BUF

Room == Sub(e, r) < INPUT_BUF

\* consoleintr: an ordinary character; a full ring drops it.
consoleintr(c) ==
  /\ Key /\ Room
  /\ buf' = [buf EXCEPT ![e % INPUT_BUF] = c]
  /\ e' = Add(e, 1)
  /\ IF c \in {"nl", "^D"} \/ e' = Add(r, INPUT_BUF)
     THEN w' = e' /\ rd' = Wakeup
     ELSE UNCHANGED <<w, rd>>
  /\ UNCHANGED r

consoleintr_full ==
  /\ Key /\ ~Room
  /\ UNCHANGED <<buf, r, w, e, rd>>

backspace ==
  /\ Key /\ e # w
  /\ e' = Sub(e, 1)
  /\ UNCHANGED <<buf, r, w, rd>>

\* ^U: back to w or behind the last newline.
kill_line ==
  LET Stop(k) == k = Sub(e, w) \/ Char(Sub(e, k + 1)) = "nl" IN
  /\ Key /\ e # w
  /\ \E k \in 0..Sub(e, w) :
       Stop(k) /\ (\A j \in 0..(k - 1) : ~Stop(j)) /\ e' = Sub(e, k)
  /\ UNCHANGED <<buf, r, w, rd>>

-----------------------------------------------------------------------------
read(p) ==
  /\ rd[p].pc = "idle" /\ ~rd[p].killed
  /\ \E n \in 1..MaxRead : rd' = [rd EXCEPT ![p] = [Idle EXCEPT !.pc = "read", !.n = n, !.target = n]]
  /\ UNCHANGED <<buf, r, w, e, keys>>

Ready == [i \in 1..Sub(w, r) |-> Char(Add(r, i - 1))]

\* A call that wants n more characters stops after k: it has them all, or a
\* newline, the next one is a ^D, or nothing more is ready.
Stops(n, k) ==
  \/ k = n \/ k = Len(Ready)
  \/ k > 0 /\ Ready[k] = "nl"
  \/ k < Len(Ready) /\ Ready[k + 1] = "^D"

\* consoleread until it sleeps or returns: it takes the k characters up to
\* where it first stops.  A ^D is used up only if it has nothing else.
consoleread(p) ==
  LET me == rd[p] IN
  /\ me.pc = "read"
  /\ \E k \in 0..Len(Ready) :
       LET left == me.n - k
           ended == left = 0 \/ (k > 0 /\ Ready[k] = "nl")
           eof == ~ended /\ k < Len(Ready)
           more == ~ended /\ k = Len(Ready) IN
       /\ Stops(me.n, k) /\ \A j \in 0..(k - 1) : ~Stops(me.n, j)
       /\ r' = IF eof /\ left = me.target THEN Add(r, k + 1) ELSE Add(r, k)
       /\ rd' = [rd EXCEPT ![p] =
                   [me EXCEPT !.n = left, !.dst = @ \o SubSeq(Ready, 1, k),
                              !.pc = IF more /\ ~me.killed THEN "asleep" ELSE "idle"]]
  /\ UNCHANGED <<buf, w, e, keys>>

kill(p) ==
  /\ ~rd[p].killed
  /\ rd' = [rd EXCEPT ![p].killed = TRUE, ![p].pc = IF @ = "asleep" THEN "read" ELSE @]
  /\ UNCHANGED <<buf, r, w, e, keys>>

Next ==
  \/ \E c \in Chars : consoleintr(c)
  \/ consoleintr_full \/ backspace \/ kill_line
  \/ \E p \in Readers : read(p) \/ consoleread(p) \/ kill(p)

Spec == Init /\ [][Next]_vars

-----------------------------------------------------------------------------
LI == INSTANCE LineInput WITH
        ready <- Ready, line <- [i \in 1..Sub(e, w) |-> Char(Add(w, i - 1))],
        got <- [p \in Readers |-> rd[p].dst], N <- INPUT_BUF

\* The ring implements the line discipline: full or wrapped around, with
\* readers that stop in the middle of a line, no character is lost, repeated
\* or overwritten before it is read.
ImplementsLines == LI!Spec

\* A reader sleeps only while nothing is ready for it and nobody killed it.
ReadersAwaited ==
  \A p \in Readers : rd[p].pc = "asleep" => r = w /\ ~rd[p].killed
=============================================================================
