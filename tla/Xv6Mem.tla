------------------------------- MODULE Xv6Mem -------------------------------
(***************************************************************************)
(* Physical pages and address spaces of xv6: kalloc.c, vm.c, exec.c and    *)
(* what fork, exit, wait and sbrk do to them (proc.c).                     *)
(*                                                                         *)
(* A page is PGSIZE bytes, an address space two-level: a directory, page   *)
(* tables of NPTENTRIES pages each, and kernel tables that setupkvm makes. *)
(* Addresses are unsigned numbers below Wrap, as 32-bit ones are.  A call  *)
(* is one step: its allocations are independent of one another, and each   *)
(* of them can be the one that fails.  The list of free pages is a set,    *)
(* since a page's address tells nothing.                                   *)
(***************************************************************************)
EXTENDS Naturals, Sequences, FiniteSets, SequencesExt, FiniteSetsExt

CONSTANTS
  Procs, initproc,
  NPAGES,          \* pages of physical memory
  PGSIZE,
  NPTENTRIES,      \* pages one page table maps
  NUPD,            \* directory entries below KERNBASE
  NKPT,            \* and above it
  Programs,        \* what exec may be given
  Grow, Shrink,    \* what sbrk may be given
  MaxCalls

KERNBASE == NUPD * NPTENTRIES * PGSIZE
Wrap == 2 * KERNBASE
UPages == 0..(NUPD * NPTENTRIES - 1)
Pages == 1..NPAGES

VARIABLES
  free,            \* kmem.freelist
  space,           \* page table and size of each process
  kstack,          \* its kernel stack, 0 if none
  state,           \* "UNUSED", "RUNNING", "FAULTS" (no code left), "ZOMBIE"
  parent,
  ret,             \* how the last call ended
  panic,
  calls

vars == <<free, space, kstack, state, parent, ret, panic, calls>>

Lowest(S) == CHOOSE x \in S : \A y \in S : x <= y
PGROUNDUP(sz) == ((sz + PGSIZE - 1) \div PGSIZE) * PGSIZE
Asc(S) ==
  [i \in 1..Cardinality(S) |-> CHOOSE x \in S : Cardinality({y \in S : y < x}) = i - 1]

-----------------------------------------------------------------------------
\* The operators below take and return an address space under construction
\* together with the free pages: pt and pte hold 0 where nothing is present,
\* u is the set of pages with PTE_U, ok whether the operation succeeded.

NoSpace == [dir |-> 0, pt |-> [d \in 0..(NUPD + NKPT - 1) |-> 0],
            pte |-> [v \in UPages |-> 0], u |-> {}, sz |-> 0]
With(s, f) == [dir |-> s.dir, pt |-> s.pt, pte |-> s.pte, u |-> s.u, sz |-> s.sz,
               free |-> f, ok |-> TRUE, panic |-> "none"]
SpaceOf(a) == [dir |-> a.dir, pt |-> a.pt, pte |-> a.pte, u |-> a.u, sz |-> a.sz]

Fail(a) == [a EXCEPT !.ok = FALSE]
Panic(a, why) == [a EXCEPT !.ok = FALSE, !.panic = why]

\* walkpgdir with alloc: the table of directory entry d is there or is made.
walkpgdir(a, d) ==
  IF ~a.ok \/ a.pt[d] # 0 THEN a
  ELSE IF a.free = {} THEN Fail(a)
  ELSE [a EXCEPT !.pt[d] = Lowest(a.free), !.free = @ \ {Lowest(@)}]

\* mappages of one page.
mappages(a, v, page) ==
  LET b == walkpgdir(a, v \div NPTENTRIES) IN
  IF ~b.ok THEN b
  ELSE IF b.pte[v] # 0 THEN Panic(b, "remap")
  ELSE [b EXCEPT !.pte[v] = page, !.u = @ \cup {v}]

\* Mutant: the new size is rounded down.
deallocuvm_down(a, oldsz, newsz) ==
  LET gone == {v \in UPages : (v + 1) * PGSIZE > newsz /\ v * PGSIZE < oldsz} IN
  [a EXCEPT !.pte = [v \in UPages |-> IF v \in gone THEN 0 ELSE @[v]],
            !.u = @ \ gone,
            !.free = @ \cup ({a.pte[v] : v \in gone} \ {0})]

deallocuvm(a, oldsz, newsz) ==
  LET gone == {v \in UPages : v * PGSIZE >= PGROUNDUP(newsz) /\ v * PGSIZE < oldsz} IN
  [a EXCEPT !.pte = [v \in UPages |-> IF v \in gone THEN 0 ELSE @[v]],
            !.u = @ \ gone,
            !.free = @ \cup ({a.pte[v] : v \in gone} \ {0})]

freevm(a) ==
  [deallocuvm(a, KERNBASE, 0) EXCEPT
     !.free = @ \cup ({a.pt[d] : d \in DOMAIN a.pt} \ {0}) \cup {a.dir}]

\* setupkvm: the directory, then the tables of the kernel's mappings.
setupkvm(f) ==
  IF f = {} THEN Fail(With(NoSpace, f))
  ELSE LET a == With([NoSpace EXCEPT !.dir = Lowest(f)], f \ {Lowest(f)})
           b == FoldLeft(walkpgdir, a, Asc(NUPD..(NUPD + NKPT - 1)))
       IN  IF b.ok THEN b ELSE Fail(With(NoSpace, freevm(b).free))

\* Mutant: a page that cannot be mapped is lost.
addpage_loses(b, v, oldsz, newsz) ==
  LET mem == Lowest(b.free)
      c == mappages([b EXCEPT !.free = @ \ {mem}], v, mem) IN
  IF ~b.ok THEN b
  ELSE IF b.free = {} THEN Fail(deallocuvm(b, newsz, oldsz))
  ELSE IF c.ok THEN c
  ELSE deallocuvm(c, newsz, oldsz)

\* Mutant: a failure keeps the pages it got.
addpage_keeps(b, v, oldsz, newsz) ==
  LET mem == Lowest(b.free)
      c == mappages([b EXCEPT !.free = @ \ {mem}], v, mem) IN
  IF ~b.ok THEN b
  ELSE IF b.free = {} THEN Fail(b)
  ELSE IF c.ok THEN c ELSE [c EXCEPT !.free = @ \cup {mem}]

\* One page more on the way from oldsz to newsz; a failure undoes the others,
\* but not the page tables made for them.
addpage(b, v, oldsz, newsz) ==
  LET mem == Lowest(b.free)
      c == mappages([b EXCEPT !.free = @ \ {mem}], v, mem) IN
  IF ~b.ok THEN b
  ELSE IF b.free = {} THEN Fail(deallocuvm(b, newsz, oldsz))
  ELSE IF c.ok THEN c
  ELSE [deallocuvm(c, newsz, oldsz) EXCEPT !.free = @ \cup {mem}]

\* allocuvm; a size of 0 is its error.
allocuvm(a, oldsz, newsz) ==
  LET missing == {v \in UPages : v * PGSIZE >= PGROUNDUP(oldsz) /\ v * PGSIZE < newsz}
      sized(b) == IF ~b.ok \/ newsz = 0 THEN Fail(b) ELSE [b EXCEPT !.sz = newsz]
  IN  IF newsz >= KERNBASE THEN Fail(a)
      ELSE IF newsz < oldsz THEN [a EXCEPT !.sz = oldsz]
      ELSE sized(FoldLeft(LAMBDA b, v : addpage(b, v, oldsz, newsz), a, Asc(missing)))

\* copyuvm of the first sz bytes of s.
copyuvm(s, sz, f) ==
  LET copy(b, v) ==
        IF ~b.ok THEN b
        ELSE IF s.pte[v] = 0 THEN Panic(b, "copyuvm: page not present")
        ELSE IF b.free = {} THEN Fail(b)
        ELSE LET mem == Lowest(b.free)
                 c == mappages([b EXCEPT !.free = @ \ {mem}], v, mem)
             IN  IF c.ok THEN [c EXCEPT !.u = IF v \in s.u THEN @ ELSE @ \ {v}]
                 ELSE [c EXCEPT !.free = @ \cup {mem}]
      kvm == setupkvm(f)
      b == FoldLeft(copy, kvm, Asc({v \in UPages : v * PGSIZE < sz}))
  IN  IF b.ok THEN [b EXCEPT !.sz = sz]
      ELSE IF ~kvm.ok THEN kvm
      ELSE [Fail(freevm(b)) EXCEPT !.panic = b.panic]

-----------------------------------------------------------------------------
\* kinit1 and kinit2 put every page on the list; userinit makes a process of
\* one page.
Init ==
  LET stack == Lowest(Pages)
      init == allocuvm(setupkvm(Pages \ {stack}), 0, PGSIZE) IN
  /\ free = init.free
  /\ space = [p \in Procs |-> IF p = initproc THEN SpaceOf(init) ELSE NoSpace]
  /\ kstack = [p \in Procs |-> IF p = initproc THEN stack ELSE 0]
  /\ state = [p \in Procs |-> IF p = initproc THEN "RUNNING" ELSE "UNUSED"]
  /\ parent = [p \in Procs |-> initproc]
  /\ ret = "ok" /\ panic = "none" /\ calls = 0

Calls(p) == state[p] = "RUNNING" /\ panic = "none" /\ calls < MaxCalls /\ calls' = calls + 1

\* fork: a slot, a kernel stack, a copy of the memory.
fork(p) ==
  /\ Calls(p)
  /\ \E q \in {q \in Procs : state[q] = "UNUSED"} :
       LET f == free \ {Lowest(free)}
           a == copyuvm(space[p], space[p].sz, f) IN
       IF free = {} THEN ret' = "failed" /\ UNCHANGED <<free, space, kstack, state, parent, panic>>
       ELSE IF ~a.ok
       THEN /\ free' = a.free \cup {Lowest(free)}
            /\ ret' = "failed" /\ panic' = a.panic
            /\ UNCHANGED <<space, kstack, state, parent>>
       ELSE /\ free' = a.free
            /\ space' = [space EXCEPT ![q] = SpaceOf(a)]
            /\ kstack' = [kstack EXCEPT ![q] = Lowest(free)]
            /\ state' = [state EXCEPT ![q] = "RUNNING"]
            /\ parent' = [parent EXCEPT ![q] = p]
            /\ ret' = "ok" /\ UNCHANGED panic

\* growproc of n bytes more.
grow(p, n) ==
  LET sz == space[p].sz
      a == allocuvm(With(space[p], free), sz, (sz + n) % Wrap) IN
  /\ Calls(p) /\ p # initproc
  /\ free' = a.free
  /\ space' = [space EXCEPT ![p] = [SpaceOf(a) EXCEPT !.sz = IF a.ok THEN a.sz ELSE sz]]
  /\ ret' = IF a.ok THEN "ok" ELSE "failed"
  /\ panic' = a.panic
  /\ UNCHANGED <<kstack, state, parent>>

\* growproc of n bytes less.  Below zero the size wraps around, and nothing
\* happens; zero is taken for an error after the memory is gone, and the
\* process will fault when it returns.
shrink(p, n) ==
  LET sz == space[p].sz
      newsz == ((sz + Wrap) - n) % Wrap
      a == deallocuvm(With(space[p], free), sz, newsz) IN
  /\ Calls(p) /\ p # initproc
  /\ \/ /\ newsz >= sz
        /\ ret' = "ok"
        /\ UNCHANGED <<free, space, state>>
     \/ /\ newsz < sz
        /\ free' = a.free
        /\ space' = [space EXCEPT ![p] = [SpaceOf(a) EXCEPT !.sz = IF newsz = 0 THEN sz ELSE newsz]]
        /\ state' = IF newsz = 0 THEN [state EXCEPT ![p] = "FAULTS"] ELSE state
        /\ ret' = IF newsz = 0 THEN "emptied" ELSE "ok"
  /\ UNCHANGED <<kstack, parent, panic>>

\* copyout reaches only pages with PTE_U.
copyout(a, va, len) == \A k \in 0..(len - 1) : (va + k) \div PGSIZE \in a.u

\* A segment of a program: its place, whether the file holds what it says.
load(a, ph) ==
  LET end == (ph.vaddr + ph.memsz) % Wrap
      filled(b) == IF ph.vaddr % PGSIZE # 0 \/ ~ph.loads THEN Fail(b) ELSE b IN
  IF ~a.ok THEN a
  ELSE IF end < ph.vaddr THEN Fail(a)
  ELSE filled(allocuvm(a, a.sz, end))

\* The two pages on top: the guard and the stack with its arguments.
stack(a, args) ==
  LET sz == PGROUNDUP(a.sz)
      guarded(b) == [b EXCEPT !.u = @ \ {(b.sz \div PGSIZE) - 2}]
      filled(c) == IF copyout(c, c.sz - args, args) THEN c ELSE Fail(c)
      built(b) == IF b.ok THEN filled(guarded(b)) ELSE b
  IN  IF ~a.ok THEN a ELSE built(allocuvm(a, sz, sz + 2 * PGSIZE))

\* exec: the new memory is complete before the old is freed.
exec(p, prog) ==
  /\ Calls(p)
  /\ \/ /\ prog.elf
        /\ \E kvm \in {setupkvm(free)} :
           \E a \in {stack(FoldLeft(load, kvm, prog.segs), prog.args)} :
             \/ /\ a.ok
                /\ free' = freevm(With(space[p], a.free)).free
                /\ space' = [space EXCEPT ![p] = SpaceOf(a)]
                /\ ret' = "ok" /\ UNCHANGED panic
             \/ /\ ~a.ok
                /\ free' = IF kvm.ok THEN freevm(a).free ELSE kvm.free
                /\ panic' = a.panic
                /\ ret' = "failed" /\ UNCHANGED space
     \/ /\ ~prog.elf
        /\ ret' = "failed" /\ UNCHANGED <<free, space, panic>>
  /\ UNCHANGED <<kstack, state, parent>>

exit(p) ==
  /\ state[p] \in {"RUNNING", "FAULTS"} /\ panic = "none" /\ p # initproc
  /\ state' = [state EXCEPT ![p] = "ZOMBIE"]
  /\ parent' = [q \in Procs |-> IF parent[q] = p THEN initproc ELSE parent[q]]
  /\ ret' = "ok"
  /\ UNCHANGED <<free, space, kstack, panic, calls>>

\* wait of a child that is a zombie; the rest of wait is in Xv6Proc.
wait(p) ==
  /\ state[p] = "RUNNING" /\ panic = "none"
  /\ \E q \in Procs \ {p} :
       /\ state[q] = "ZOMBIE" /\ parent[q] = p
       /\ free' = freevm(With(space[q], free)).free \cup {kstack[q]}
       /\ kstack' = [kstack EXCEPT ![q] = 0]
       /\ space' = [space EXCEPT ![q] = NoSpace]
       /\ state' = [state EXCEPT ![q] = "UNUSED"]
       /\ parent' = [parent EXCEPT ![q] = initproc]
  /\ ret' = "ok"
  /\ UNCHANGED <<panic, calls>>

Next ==
  \E p \in Procs :
    \/ fork(p) \/ exit(p) \/ wait(p)
    \/ \E n \in Grow : grow(p, n)
    \/ \E n \in Shrink : shrink(p, n)
    \/ \E prog \in Programs : exec(p, prog)

Spec == Init /\ [][Next]_vars

-----------------------------------------------------------------------------
\* What the kernel checks of a pointer a process passes.

argptr(sz, i, size) == i < sz /\ (i + size) % Wrap <= sz

-----------------------------------------------------------------------------
Tables(s) == {d \in DOMAIN s.pt : s.pt[d] # 0}
Mapped(s) == {v \in UPages : s.pte[v] # 0}
PagesOf(p) == ({space[p].dir, kstack[p]} \cup {space[p].pt[d] : d \in Tables(space[p])}
               \cup {space[p].pte[v] : v \in Mapped(space[p])}) \ {0}
PlacesOf(p) == Cardinality(Tables(space[p])) + Cardinality(Mapped(space[p]))
               + (IF space[p].dir = 0 THEN 0 ELSE 1) + (IF kstack[p] = 0 THEN 0 ELSE 1)

\* Every page is on the free list or in exactly one place of one process: no
\* failing path of setupkvm, allocuvm, copyuvm, fork or exec loses a page or
\* frees one that is in use, and none maps a page twice or misses one (the
\* panics of mappages and copyuvm).
PagesExact ==
  /\ panic = "none"
  /\ Pages = free \cup UNION {PagesOf(p) : p \in Procs}
  /\ NPAGES = Cardinality(free) + MapThenSumSet(PlacesOf, Procs)

\* The memory of a process is what its size says: every block of user memory
\* that argptr accepts is mapped, and nothing is mapped above the size.  A
\* process that gave back all its memory keeps its old size, but it never
\* makes another call.
AcceptedMapped ==
  \A p \in Procs : state[p] = "RUNNING" =>
    LET s == space[p] IN
    /\ \A i \in 0..(Wrap - 1), size \in 1..(KERNBASE - 1) :
         argptr(s.sz, i, size) =>
           \A k \in 0..(size - 1) : ((i + k) % Wrap) \div PGSIZE \in Mapped(s)
    /\ \A v \in Mapped(s) : v * PGSIZE < s.sz

\* A call that fails changes no process: all memory and sizes are as before,
\* and of the free pages only some became page tables of the caller.
FailedCallKeeps ==
  ret' = "failed" =>
    /\ \A p \in Procs : space'[p].pte = space[p].pte /\ space'[p].sz = space[p].sz
    /\ free' \subseteq free
    /\ Cardinality(free \ free') =
         MapThenSumSet(LAMBDA p : Cardinality(Tables(space'[p]) \ Tables(space[p])), Procs)
=============================================================================
