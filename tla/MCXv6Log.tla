------------------------------ MODULE MCXv6Log ------------------------------
EXTENDS Xv6Log, TLC

\* Processes are interchangeable.
SymmProcs == Permutations(Procs)
=============================================================================
