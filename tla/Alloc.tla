------------------------------- MODULE Alloc --------------------------------
(***************************************************************************)
(* The one-page allocator design 5/alloc.c: init_alloc maps the page,      *)
(* alloc takes the first chunk that fits, dealloc frees and merges,        *)
(* cleanup unmaps.  Callers release only what they were given.             *)
(***************************************************************************)
EXTENDS ChunkList

CONSTANTS
  Sizes,           \* sizes callers ask for
  NULL,
  GARBAGE          \* the value of an uninitialised pointer

VARIABLES
  page,            \* head_idx and chunks
  owned,           \* live allocations
  req, ret         \* the last call of alloc and its result

vars == <<page, owned, req, ret>>

Init == page = NoPage /\ owned = {} /\ req = 0 /\ ret = NULL

Ready == page.head # -1

\* mmap succeeds: the test of its result can never see a failure.
init_alloc ==
  /\ ~Ready
  /\ page' = NewPage(0)
  /\ UNCHANGED <<owned, req, ret>>

cleanup ==
  /\ Ready
  /\ page' = NoPage
  /\ owned' = {} /\ req' = 0 /\ ret' = NULL

alloc_invalid(size) ==
  /\ Ready
  /\ size % MINALLOC # 0 \/ size > PAGESIZE
  /\ req' = size /\ ret' = NULL
  /\ UNCHANGED <<page, owned>>

\* The last chunk is smaller than the request: return NULL.  If the list
\* ends with a larger chunk that is in use, new was never assigned and
\* new.addr is whatever the stack holds.
alloc_fails(size) ==
  /\ Ready /\ size % MINALLOC = 0 /\ size <= PAGESIZE
  /\ \/ Search(page, size) = SMALL /\ ret' = NULL
     \/ Search(page, size) = END /\ ret' \in {NULL, GARBAGE}
  /\ req' = size
  /\ UNCHANGED <<page, owned>>

alloc(size) ==
  /\ Ready /\ size % MINALLOC = 0 /\ size <= PAGESIZE
  /\ Search(page, size) \in Slots
  /\ page' = Use(page, Search(page, size), size)
  /\ ret' = page.chunks[Search(page, size)].addr
  /\ owned' = owned \cup {[addr |-> ret', size |-> size]}
  /\ req' = size

dealloc(o) ==
  /\ Ready
  /\ page' = IF Locate(page, o.addr) = -1 THEN merge_chunk(page)
             ELSE FreeSlot(page, Locate(page, o.addr))
  /\ owned' = owned \ {o}
  /\ UNCHANGED <<req, ret>>

Next ==
  \/ init_alloc \/ cleanup
  \/ \E size \in Sizes : alloc_invalid(size) \/ alloc_fails(size) \/ alloc(size)
  \/ \E o \in owned : dealloc(o)

Spec == Init /\ [][Next]_vars

-----------------------------------------------------------------------------
\* After init_alloc the chunk list always tiles the page, no two neighbours
\* are free, and the table of PAGESIZE / MINALLOC entries has a slot left
\* whenever a chunk would be cut: find_next does not return -1 to alloc, which
\* does not test for it.
Sound == Ready => Tiles(page, 0) /\ Coalesced(page) /\ SlotForSplit(page)

\* The chunks marked in use are the live allocations, with their sizes:
\* dealloc frees the block it is given and nothing else.
Owners == Ready => UsedBlocks(page) = owned

H == INSTANCE Heap WITH
       Pages <- 1, PageSize <- PAGESIZE, Unit <- MINALLOC,
       ret <- IF ret = GARBAGE THEN NULL ELSE ret

\* alloc.c implements the heap, an uninitialised result counting as a refusal.
ImplementsHeap == H!Spec
=============================================================================
