------------------------------ MODULE MCXv6FS -------------------------------
(***************************************************************************)
(* Instance of Xv6FS for TLC.                                              *)
(***************************************************************************)
EXTENDS Xv6FS, TLC

A == [abs |-> FALSE, el |-> <<"a">>]
D == [abs |-> TRUE, el |-> <<"d">>]
DA == [abs |-> TRUE, el |-> <<"d", "a">>]

MCOps == ({"open_rw", "creat", "mkdir", "chdir"} \X {A}) \cup ({"creat", "mkdir", "mknod", "open_rw"} \X {DA})
         \cup ({"open_rd", "open_rw", "chdir"} \X {D}) \cup ({"unlink"} \X {A, D, DA})
MCLinks == {<<A, DA>>, <<D, A>>, <<A, A>>}
MCRootFiles == <<"a">>
MCOldDirs == <<"d">>
Symmetry == Permutations(Procs)
=============================================================================
