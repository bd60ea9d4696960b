------------------------------ MODULE MCSSUFS -------------------------------
EXTENDS SSUFS, TLC

\* The names of the files and the bytes written are interchangeable.
Symm == Permutations(ShortNames) \cup Permutations(Values)
=============================================================================
