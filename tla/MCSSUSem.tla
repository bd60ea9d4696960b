------------------------------ MODULE MCSSUSem ------------------------------
(***************************************************************************)
(* Clients of the semaphore: the ring of SSU_Sem_toggle_test.c,            *)
(* SSU_Sem_test.c with its main thread (0) and two printing threads, and a *)
(* crowd of three threads that queue behind each other for one unit.       *)
(***************************************************************************)
EXTENDS SSUSem

CONSTANT Rounds    \* NUM_ITER

Down(s) == [op |-> "down", sem |-> s]
Up(s)   == [op |-> "up", sem |-> s]
Write   == [op |-> "print", sem |-> NULL]

InRing == 0..2
After(t) == (t + 1) % 3
Prints(t) == Cardinality({i \in 1..(ip[t] - 1) : Program[t][i] = Write})

-----------------------------------------------------------------------------
\* SSU_Sem_toggle_test.c: thread t waits for semaphore t and wakes the next
\* one.  main has done SSU_Sem_up(&lock[0]) before it creates the threads.
RingProgram ==
  [t \in Threads |->
     [i \in 1..(IF t \in InRing THEN 3 * Rounds ELSE 0) |->
        IF i % 3 = 1 THEN Down(t) ELSE IF i % 3 = 2 THEN Write
        ELSE Up(After(t))]]
RingKey == [s \in Sems |-> IF s = 0 THEN 1 ELSE 0]
Ring == [code |-> RingProgram, key |-> RingKey]

\* SSU_Sem_test.c: main prints, then for each printing thread does up(child),
\* down(parent) and reports.  The sleep before the first line orders nothing.
Main == 0
child == 0
parent == 1
Printers == {1, 2}
PrintProgram ==
  [t \in Threads |->
     IF t = Main
     THEN <<Write>> \o
          [i \in 1..(3 * Cardinality(Printers)) |->
             IF i % 3 = 1 THEN Up(child) ELSE
             IF i % 3 = 2 THEN Down(parent) ELSE Write]
     ELSE IF t \in Printers THEN <<Down(child), Write, Up(parent)>> ELSE <<>>]
PrintKey == [s \in Sems |-> 0]
Printing == [code |-> PrintProgram, key |-> PrintKey]

\* Not a test of the repository: it makes the queue longer than one.
CrowdProgram == [t \in Threads |-> IF t = Main THEN <<Up(child)>> ELSE <<Down(child)>>]
Crowd == [code |-> CrowdProgram, key |-> PrintKey]

Clients == {Ring, Printing, Crowd}
InitPrinting == Init({Printing})

-----------------------------------------------------------------------------
\* No update of key is lost in the ring, although up takes no lock: whenever
\* nobody is inside a call on a semaphore, its key is what the completed
\* calls make it.
UnitsExact ==
  client = Ring =>
    \A s \in Sems : Quiet(s) =>
      key[s] = InitKey[s] + Completed("up", s) - Completed("down", s)

\* The threads of the ring print strictly in turn, 0, 1, 2, 0, 1, 2, ...
InTurn ==
  client = Ring =>
    \A t \in InRing : Prints(t) - Prints(After(t)) \in
                          (IF After(t) = 0 THEN {-1, 0} ELSE {0, 1})

\* "One thread has printed": when main reports the n-th thread, n threads
\* have printed.
Reported ==
  client = Printing =>
    \A n \in 1..Cardinality(Printers) :
      ip[Main] = 3 * n + 1 => Cardinality({t \in Printers : Prints(t) = 1}) = n
=============================================================================
