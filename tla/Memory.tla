------------------------------- MODULE Memory -------------------------------
(***************************************************************************)
(* The repository's memory managers: the pages and address spaces of the   *)
(* xv6 kernel, malloc of its user library, and the one-page and growing    *)
(* allocators of design 5.  They do not share memory.  A behaviour uses    *)
(* one of them, the variables of the others keep their initial values.     *)
(***************************************************************************)
EXTENDS Naturals, Sequences

CONSTANTS
  Procs, initproc, NPAGES, PGSIZE, NPTENTRIES, NUPD, NKPT, Grow, Shrink, MaxCalls,
  MINALLOC, NULL,
  AllocPage, AllocSizes, GARBAGE,
  EAllocPage, PAGEMAX, EAllocSizes,
  HeaderSize, CORE, Limit, MallocSizes

ASSUME MemoryAssumption ==
  /\ AllocPage % MINALLOC = 0 /\ EAllocPage % MINALLOC = 0 /\ PAGEMAX > 0
  /\ Limit % CORE = 0

VARIABLES
  manager,
  free, space, kstack, state, parent, ret, panic, calls,
  page, a_owned, a_req, a_ret,
  pages, pagenum, e_owned, e_req, e_ret,
  list, brk, u_owned, u_req, u_ret

\* Programs for exec: one and two segments, pages of arguments, a segment that
\* cannot be read, one that is not aligned, ones that are too large or too high.
Seg(vaddr, memsz, loads) == [vaddr |-> vaddr, memsz |-> memsz, loads |-> loads]
Prog(segs, args) == [elf |-> TRUE, segs |-> segs, args |-> args]

Programs == {
  Prog(<<Seg(0, 3, TRUE)>>, 1),
  Prog(<<Seg(0, 1, TRUE)>>, 3),
  Prog(<<Seg(0, 1, TRUE), Seg(2, 1, TRUE)>>, 2),
  Prog(<<Seg(0, 3, TRUE), Seg(0, 1, FALSE)>>, 0),
  Prog(<<Seg(0, 1, TRUE), Seg(3, 1, TRUE)>>, 0),
  Prog(<<Seg(0, 9, TRUE)>>, 0),
  Prog(<<Seg(22, 4, TRUE)>>, 0),
  [elf |-> FALSE, segs |-> << >>, args |-> 0] }

K == INSTANCE Xv6Mem
A == INSTANCE Alloc WITH
       PAGESIZE <- AllocPage, Sizes <- AllocSizes, owned <- a_owned, req <- a_req, ret <- a_ret
E == INSTANCE EAlloc WITH
       PAGESIZE <- EAllocPage, Sizes <- EAllocSizes, owned <- e_owned, req <- e_req, ret <- e_ret
U == INSTANCE UMalloc WITH
       Sizes <- MallocSizes, owned <- u_owned, req <- u_req, ret <- u_ret

kernelVars == <<free, space, kstack, state, parent, ret, panic, calls>>
allocVars == <<page, a_owned, a_req, a_ret>>
eallocVars == <<pages, pagenum, e_owned, e_req, e_ret>>
mallocVars == <<list, brk, u_owned, u_req, u_ret>>
vars == <<manager, kernelVars, allocVars, eallocVars, mallocVars>>

Init ==
  /\ manager \in {"kernel", "alloc", "ealloc", "malloc"}
  /\ K!Init /\ A!Init /\ E!Init /\ U!Init

Next ==
  /\ \/ manager = "kernel" /\ K!Next /\ UNCHANGED <<allocVars, eallocVars, mallocVars>>
     \/ manager = "alloc" /\ A!Next /\ UNCHANGED <<kernelVars, eallocVars, mallocVars>>
     \/ manager = "ealloc" /\ E!Next /\ UNCHANGED <<kernelVars, allocVars, mallocVars>>
     \/ manager = "malloc" /\ U!Next /\ UNCHANGED <<kernelVars, allocVars, eallocVars>>
  /\ UNCHANGED manager

Spec == Init /\ [][Next]_vars

-----------------------------------------------------------------------------
\* Every page of the kernel is free or in exactly one place of one process: no
\* failing path of setupkvm, allocuvm, copyuvm, fork or exec loses a page or
\* frees one that is in use, and none of them panics.
PagesExact == manager = "kernel" => K!PagesExact

\* Every block of user memory that argptr accepts is mapped, and nothing is
\* mapped above the size of a process, whatever sbrk, exec and fork did.
AcceptedMapped == manager = "kernel" => K!AcceptedMapped

\* A call of fork, exec or sbrk that fails changes no process: all memory and
\* sizes are as before, and of the free pages only some became page tables of
\* the caller.
FailureKeeps == [][manager = "kernel" => K!FailedCallKeeps]_vars

\* After any sequence of calls the blocks on the lists of alloc.c, ealloc.c and
\* umalloc.c tile the memory they manage, in address order, without two free
\* neighbours, and the chunk tables have a slot whenever a chunk would be cut.
Sound ==
  CASE manager = "alloc" -> A!Sound [] manager = "ealloc" -> E!Sound
    [] manager = "malloc" -> U!Sound [] OTHER -> TRUE

\* The blocks marked in use are the live allocations with their sizes: dealloc
\* and free give back the block they are given and nothing else.
Owners ==
  CASE manager = "alloc" -> A!Owners [] manager = "ealloc" -> E!Owners
    [] manager = "malloc" -> U!Owners [] OTHER -> TRUE

\* All three implement the heap: what is granted is disjoint from every live
\* block, memory freed in pieces is found again, and a request is refused only
\* when no page, or all the memory sbrk can give, fits it.
ImplementsHeap ==
  /\ A!H!Init /\ E!H!Init /\ U!H!Init
  /\ [][CASE manager = "alloc" -> [A!H!Next]_(A!H!vars)
         [] manager = "ealloc" -> [E!H!Next]_(E!H!vars)
         [] manager = "malloc" -> [U!H!Next]_(U!H!vars)
         [] OTHER -> TRUE]_vars
=============================================================================
