------------------------------ MODULE UMalloc -------------------------------
(***************************************************************************)
(* malloc and free of the xv6 user library (umalloc.c).  Addresses count   *)
(* units of one Header; base lies at 0, the heap sbrk extends from 1 on.   *)
(* A block is its header and what follows it, and a caller's block is      *)
(* named by its header.  Callers free only what they were given.           *)
(***************************************************************************)
EXTENDS Naturals, FiniteSets

CONSTANTS
  HeaderSize,      \* sizeof(Header)
  CORE,            \* units morecore asks for at least
  Limit,           \* units sbrk can give in all
  Sizes,           \* bytes callers ask for
  NULL

VARIABLES
  list,            \* ptr and size of the headers, and freep
  brk,             \* units sbrk has given
  owned,           \* live allocations
  req, ret         \* the last call of malloc, in units, and its result

vars == <<list, brk, owned, req, ret>>

base == 0
Units == 0..Limit
Header == [ptr |-> base, size |-> 0]

Init ==
  /\ list = [h |-> [a \in Units |-> Header], freep |-> NULL]
  /\ brk = 0 /\ owned = {} /\ req = 0 /\ ret = NULL

nunits(nbytes) == (nbytes + HeaderSize - 1) \div HeaderSize + 1

Ptr(l, p) == l.h[p].ptr

-----------------------------------------------------------------------------
\* The loop of free: the block before bp in the circle.
RECURSIVE Before(_, _, _)
Before(l, p, bp) ==
  LET q == Ptr(l, p) IN
  IF (bp > p /\ bp < q) \/ (p >= q /\ (bp > p \/ bp < q)) THEN p ELSE Before(l, q, bp)

\* Mutant: the block is not joined with the one before it.
Insert_apart(l, bp) ==
  LET p == Before(l, l.freep, bp)
      q == Ptr(l, p)
      up == IF bp + l.h[bp].size = q
            THEN [ptr |-> Ptr(l, q), size |-> l.h[bp].size + l.h[q].size]
            ELSE [ptr |-> q, size |-> l.h[bp].size] IN
  [h |-> [l.h EXCEPT ![q] = IF up.ptr = q THEN @ ELSE Header, ![bp] = up, ![p].ptr = bp],
   freep |-> p]

\* free: join with the block above, then with the one below.  A header that
\* is swallowed is never read again and is wiped here.
Insert(l, bp) ==
  LET p == Before(l, l.freep, bp)
      q == Ptr(l, p)
      joined == bp + l.h[bp].size = q
      up == IF joined THEN [ptr |-> Ptr(l, q), size |-> l.h[bp].size + l.h[q].size]
            ELSE [ptr |-> q, size |-> l.h[bp].size]
      wiped == IF joined THEN [l.h EXCEPT ![q] = Header] ELSE l.h IN
  [h |-> IF p + l.h[p].size = bp
         THEN [wiped EXCEPT ![bp] = Header, ![p] = [ptr |-> up.ptr, size |-> @.size + up.size]]
         ELSE [wiped EXCEPT ![bp] = up, ![p].ptr = bp],
   freep |-> p]

\* The search of malloc once round the circle: the block before the first
\* that is large enough, NULL if there is none.
RECURSIVE Fit(_, _, _)
Fit(l, prevp, n) ==
  LET p == Ptr(l, prevp) IN
  IF l.h[p].size >= n THEN prevp ELSE IF p = l.freep THEN NULL ELSE Fit(l, p, n)

\* The block is unlinked, or its tail is cut off.
Carve(l, prevp, n) ==
  LET p == Ptr(l, prevp) IN
  [h |-> IF l.h[p].size = n
         THEN [l.h EXCEPT ![prevp].ptr = Ptr(l, p), ![p] = [ptr |-> base, size |-> n]]
         ELSE [l.h EXCEPT ![p].size = @ - n,
                          ![p + l.h[p].size - n] = [ptr |-> base, size |-> n]],
   freep |-> prevp]
Carved(l, prevp, n) == Ptr(l, prevp) + l.h[Ptr(l, prevp)].size - n

Started == IF list.freep = NULL THEN [list EXCEPT !.freep = base] ELSE list

Granted(l, n) ==
  LET a == Carved(l, Fit(l, l.freep, n), n) IN
  /\ list' = Carve(l, Fit(l, l.freep, n), n)
  /\ owned' = owned \cup {[addr |-> a, size |-> n]}
  /\ req' = n /\ ret' = a

malloc(n) ==
  /\ Fit(Started, Started.freep, n) # NULL
  /\ Granted(Started, n)
  /\ UNCHANGED brk

\* Nothing fits: morecore frees the new block and the search goes on.
Core(n) == IF n < CORE THEN CORE ELSE n

malloc_more(n) ==
  LET bp == brk + 1 IN
  /\ Fit(Started, Started.freep, n) = NULL /\ brk + Core(n) <= Limit
  /\ Granted(Insert([Started EXCEPT !.h[bp].size = Core(n)], bp), n)
  /\ brk' = brk + Core(n)

malloc_fails(n) ==
  /\ Fit(Started, Started.freep, n) = NULL /\ brk + Core(n) > Limit
  /\ list' = Started
  /\ req' = n /\ ret' = NULL
  /\ UNCHANGED <<brk, owned>>

free(o) ==
  /\ list' = Insert(list, o.addr)
  /\ owned' = owned \ {o}
  /\ UNCHANGED <<brk, req, ret>>

Next ==
  \/ \E nbytes \in Sizes :
       LET n == nunits(nbytes) IN malloc(n) \/ malloc_more(n) \/ malloc_fails(n)
  \/ \E o \in owned : free(o)

Spec == Init /\ [][Next]_vars

-----------------------------------------------------------------------------
\* The blocks on the list.
Listed ==
  LET from[k \in 0..Limit] == IF k = 0 THEN list.freep ELSE Ptr(list, from[k - 1])
  IN  IF list.freep = NULL THEN {} ELSE {from[k] : k \in 0..Limit} \ {base}

Extent(a, n) == a..(a + n - 1)

\* The circle is in address order, free and used blocks tile the heap, and no
\* two neighbours are free, whatever was split and joined before.
Sound ==
  /\ UNION ({Extent(a, list.h[a].size) : a \in Listed}
            \cup {Extent(o.addr, o.size) : o \in owned}) = 1..brk
  /\ \A a \in Listed :
       /\ list.h[a].size > 0
       /\ \A b \in Listed : a < b => a + list.h[a].size < b
       /\ Ptr(list, a) \in {base} \cup {b \in Listed : b > a /\
                                          \A c \in Listed : c > a => b <= c}

\* The header of a live block still says its size.
Owners == \A o \in owned : list.h[o.addr].size = o.size /\ o.addr \notin Listed

H == INSTANCE Heap WITH
       Pages <- 1, PageSize <- Limit, Unit <- 1,
       Sizes <- {nunits(b) : b \in Sizes},
       owned <- {[addr |-> o.addr - 1, size |-> o.size] : o \in owned},
       ret <- IF ret = NULL THEN NULL ELSE ret - 1

\* malloc and free implement the heap: a request is refused only when the
\* process can get no more memory and none of its free pieces is large enough.
ImplementsHeap == H!Spec
=============================================================================
