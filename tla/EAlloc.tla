------------------------------- MODULE EAlloc -------------------------------
(***************************************************************************)
(* The growing allocator design 5/ealloc.c: up to PAGEMAX pages, each with *)
(* its own chunk list, mapped one at a time when no page has room.  Pages  *)
(* are never unmapped; cleanup does nothing.  Page i is taken to lie at    *)
(* address i * PAGESIZE, right behind the page before it.                  *)
(***************************************************************************)
EXTENDS ChunkList

CONSTANTS
  PAGEMAX,
  Sizes,           \* sizes callers ask for
  NULL

VARIABLES
  pages,           \* head_idx and chunks of each page
  pagenum,         \* pages mapped so far
  owned,           \* live allocations
  req, ret         \* the last call of alloc and its result

vars == <<pages, pagenum, owned, req, ret>>

\* After init_alloc: every head_idx is -1.
Init ==
  /\ pages = [i \in 0..(PAGEMAX - 1) |-> NoPage]
  /\ pagenum = 0
  /\ owned = {} /\ req = 0 /\ ret = NULL

Base(i) == i * PAGESIZE
Mapped == 0..(pagenum - 1)

\* The first mapped page with a chunk that fits, PAGEMAX if there is none.
FirstPage(size) ==
  LET fit == {i \in Mapped : Search(pages[i], size) \in Slots}
  IN  IF fit = {} THEN PAGEMAX ELSE CHOOSE i \in fit : \A j \in fit : i <= j

Allocated(pg, i, size) ==
  LET c == Search(pg, size)
  IN  /\ pages' = [pages EXCEPT ![i] = Use(pg, c, size)]
      /\ ret' = pg.chunks[c].addr
      /\ owned' = owned \cup {[addr |-> pg.chunks[c].addr, size |-> size]}

-----------------------------------------------------------------------------
alloc_invalid(size) ==
  /\ size % MINALLOC # 0 \/ size > PAGESIZE
  /\ req' = size /\ ret' = NULL
  /\ UNCHANGED <<pages, pagenum, owned>>

alloc_old(size) ==
  /\ size % MINALLOC = 0 /\ size <= PAGESIZE
  /\ FirstPage(size) # PAGEMAX
  /\ Allocated(pages[FirstPage(size)], FirstPage(size), size)
  /\ req' = size
  /\ UNCHANGED pagenum

\* No page has room: map one and call alloc again, which finds it there.
alloc_new(size) ==
  /\ size % MINALLOC = 0 /\ size <= PAGESIZE
  /\ FirstPage(size) = PAGEMAX /\ pagenum # PAGEMAX
  /\ Allocated(NewPage(Base(pagenum)), pagenum, size)
  /\ req' = size
  /\ pagenum' = pagenum + 1

alloc_full(size) ==
  /\ size % MINALLOC = 0 /\ size <= PAGESIZE
  /\ FirstPage(size) = PAGEMAX /\ pagenum = PAGEMAX
  /\ req' = size /\ ret' = NULL
  /\ UNCHANGED <<pages, pagenum, owned>>

\* The first mapped page that has a chunk at addr.
PageOf(addr) ==
  CHOOSE i \in Mapped : /\ Locate(pages[i], addr) # -1
                        /\ \A j \in Mapped : Locate(pages[j], addr) # -1 => i <= j

\* Mutant: every address is looked for in the first page only.
dealloc_first(o) ==
  /\ pages' = IF Locate(pages[0], o.addr) = -1 THEN pages
              ELSE [pages EXCEPT ![0] = FreeSlot(@, Locate(@, o.addr))]
  /\ owned' = owned \ {o}
  /\ UNCHANGED <<pagenum, req, ret>>

dealloc(o) ==
  /\ pages' = [pages EXCEPT ![PageOf(o.addr)] = FreeSlot(@, Locate(@, o.addr))]
  /\ owned' = owned \ {o}
  /\ UNCHANGED <<pagenum, req, ret>>

Next ==
  \/ \E size \in Sizes :
       alloc_invalid(size) \/ alloc_old(size) \/ alloc_new(size) \/ alloc_full(size)
  \/ \E o \in owned : dealloc(o)

Spec == Init /\ [][Next]_vars

-----------------------------------------------------------------------------
\* Every mapped page is tiled by its chunk list, with no two free
\* neighbours, and its table has a slot whenever a chunk would be cut.
Sound ==
  \A i \in Mapped :
    Tiles(pages[i], Base(i)) /\ Coalesced(pages[i]) /\ SlotForSplit(pages[i])

\* The chunks in use, over all pages, are the live allocations.
Owners == UNION {UsedBlocks(pages[i]) : i \in Mapped} = owned

H == INSTANCE Heap WITH
       Pages <- PAGEMAX, PageSize <- PAGESIZE, Unit <- MINALLOC

\* ealloc.c implements a heap of PAGEMAX pages: in particular memory freed in
\* pieces is found again, and a request is refused only when no page fits it.
ImplementsHeap == H!Spec
=============================================================================
