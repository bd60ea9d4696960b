---------------------------- MODULE FileService -----------------------------
(***************************************************************************)
(* What a small file system promises: files are byte strings with a name,  *)
(* an open handle is a file and a position in it.  Creating, writing and   *)
(* opening may be refused for lack of space, and then change nothing.      *)
(***************************************************************************)
EXTENDS Integers, Sequences

CONSTANTS
  Names, Handles,
  Texts,           \* the byte strings callers write
  MaxLen, Closed

VARIABLES
  files,           \* content of each file there is
  open,            \* open[h] is Closed or [name, pos]
  ret, rbuf        \* result of the last call, bytes of the last read

vars == <<files, open, ret, rbuf>>

Init ==
  /\ files = <<>> /\ open = [h \in Handles |-> Closed]
  /\ ret = 0 /\ rbuf = <<>>

Refused == ret' = -1 /\ rbuf' = <<>> /\ UNCHANGED <<files, open>>

Create(n) ==
  /\ ret' \in Nat /\ rbuf' = <<>>
  /\ UNCHANGED open
  /\ n \notin DOMAIN files
  /\ files' = [m \in DOMAIN files \cup {n} |-> IF m = n THEN <<>> ELSE files[m]]

\* The file goes, and with it every handle on it.
Delete(n) ==
  /\ ret' = 0 /\ rbuf' = <<>>
  /\ open' = [h \in Handles |->
                IF open[h] # Closed /\ open[h].name = n THEN Closed ELSE open[h]]
  /\ files' = [m \in DOMAIN files \ {n} |-> files[m]]

Open(n) ==
  /\ n \in DOMAIN files
  /\ \E h \in Handles :
       /\ open[h] = Closed
       /\ open' = [open EXCEPT ![h] = [name |-> n, pos |-> 0]]
       /\ ret' = h /\ rbuf' = <<>>
  /\ UNCHANGED files

Close(h) ==
  /\ open' = [open EXCEPT ![h] = Closed]
  /\ ret' = 0 /\ rbuf' = <<>>
  /\ UNCHANGED files

Content(h) == files[open[h].name]

Read(h, k) ==
  /\ open[h] # Closed /\ ret' = 0
  /\ open' = [open EXCEPT ![h].pos = @ + k]
  /\ open[h].pos + k <= Len(Content(h))
  /\ rbuf' = SubSeq(Content(h), open[h].pos + 1, open[h].pos + k)
  /\ UNCHANGED files

Write(h, s) ==
  /\ open[h] # Closed /\ ret' = 0 /\ rbuf' = <<>>
  /\ open' = [open EXCEPT ![h].pos = @ + Len(s)]
  /\ open[h].pos + Len(s) <= MaxLen
  /\ LET p == open[h].pos
         c == Content(h)
     IN  files' = [files EXCEPT ![open[h].name] =
                     SubSeq(c, 1, p) \o s \o SubSeq(c, p + Len(s) + 1, Len(c))]

Seek(h, k) ==
  /\ open[h] # Closed /\ ret' = 0 /\ rbuf' = <<>>
  /\ open' = [open EXCEPT ![h].pos = @ + k]
  /\ open[h].pos + k \in 0..Len(Content(h))
  /\ UNCHANGED files

Next ==
  \/ Refused
  \/ \E n \in Names : Create(n) \/ Delete(n) \/ Open(n)
  \/ \E h \in Handles :
       \/ Close(h)
       \/ \E k \in 0..MaxLen : Read(h, k)
       \/ \E k \in -MaxLen..MaxLen : Seek(h, k)
       \/ \E s \in Texts : Write(h, s)

Spec == Init /\ [][Next]_vars
=============================================================================
