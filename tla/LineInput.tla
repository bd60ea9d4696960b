----------------------------- MODULE LineInput ------------------------------
(***************************************************************************)
(* What reading from a terminal promises.  Keys edit the current line; a   *)
(* finished line becomes ready, and readers take ready characters in the   *)
(* order they were typed, each character once, never past the end of a     *)
(* line in one call.  ^D ends a line without being part of it: a call that *)
(* has nothing yet uses it up, one that has something leaves it.           *)
(***************************************************************************)
EXTENDS Sequences, Naturals

CONSTANTS Readers, Chars, N

VARIABLES
  ready, line,
  got              \* what the current or last call of each reader returned

vars == <<ready, line, got>>

Init == ready = << >> /\ line = << >> /\ got = [p \in Readers |-> << >>]

Ends(c) == c \in {"nl", "^D"}

Type(c) ==
  /\ Len(ready) + Len(line) < N
  /\ IF Ends(c) \/ Len(ready) + Len(line) + 1 = N
     THEN ready' = ready \o Append(line, c) /\ line' = << >>
     ELSE line' = Append(line, c) /\ UNCHANGED ready
  /\ UNCHANGED got

Erase ==
  /\ line # << >>
  /\ \E k \in 0..(Len(line) - 1) : line' = SubSeq(line, 1, k)
  /\ UNCHANGED <<ready, got>>

Call(p) ==
  /\ got' = [got EXCEPT ![p] = << >>]
  /\ UNCHANGED <<ready, line>>

Take(p) ==
  /\ \E k \in 1..Len(ready) :
       /\ \A i \in 1..k : ready[i] # "^D" /\ (i < k => ready[i] # "nl")
       /\ \A i \in DOMAIN got[p] : got[p][i] # "nl"
       /\ got' = [got EXCEPT ![p] = @ \o SubSeq(ready, 1, k)]
       /\ ready' = SubSeq(ready, k + 1, Len(ready))
  /\ UNCHANGED line

EndOfFile(p) ==
  /\ ready # << >> /\ Head(ready) = "^D" /\ got[p] = << >>
  /\ ready' = Tail(ready)
  /\ UNCHANGED <<line, got>>

Next ==
  \/ \E c \in Chars : Type(c)
  \/ Erase
  \/ \E p \in Readers : Call(p) \/ Take(p) \/ EndOfFile(p)

Spec == Init /\ [][Next]_vars
=============================================================================
