-------------------------------- MODULE Heap --------------------------------
(***************************************************************************)
(* What a page allocator promises its callers.  Memory is Pages pages of   *)
(* PageSize bytes.  A request for a valid size gets memory of one page     *)
(* that no live allocation uses; it is refused only when the size is not   *)
(* valid or when no page has that much room in one piece.                  *)
(***************************************************************************)
EXTENDS Integers

CONSTANTS Pages, PageSize, Unit, Sizes, NULL

VARIABLES
  owned,           \* live allocations, as [addr, size] records
  req, ret         \* the last request and its answer

vars == <<owned, req, ret>>

Valid(size) == size % Unit = 0 /\ size <= PageSize

Init == owned = {} /\ req = 0 /\ ret = NULL

Disjoint(a, m, b, n) == a + m <= b \/ b + n <= a

\* Room for size bytes at a, inside one page.
Room(a, size) ==
  /\ (a % PageSize) + size <= PageSize
  /\ \A o \in owned : Disjoint(a, size, o.addr, o.size)

Addresses == 0..(Pages * PageSize - 1)

Grant(size) ==
  /\ Valid(size)
  /\ \E a \in Addresses :
       /\ Room(a, size)
       /\ owned' = owned \cup {[addr |-> a, size |-> size]}
       /\ ret' = a
  /\ req' = size

Refuse(size) ==
  /\ Valid(size) => \A a \in Addresses : ~Room(a, size)
  /\ req' = size /\ ret' = NULL
  /\ UNCHANGED owned

Release(o) ==
  /\ owned' = owned \ {o}
  /\ UNCHANGED <<req, ret>>

\* The whole heap is given up.
Drop ==
  /\ owned' = {} /\ req' = 0 /\ ret' = NULL

Next ==
  \/ \E size \in Sizes : Grant(size) \/ Refuse(size)
  \/ \E o \in owned : Release(o)
  \/ Drop

Spec == Init /\ [][Next]_vars
=============================================================================
