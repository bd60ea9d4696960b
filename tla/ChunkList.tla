----------------------------- MODULE ChunkList ------------------------------
(***************************************************************************)
(* The table of chunks that alloc.c keeps for its page and ealloc.c for    *)
(* each of its pages (design 5).  A page is a record: the index of the     *)
(* first chunk and the table chunks[0 .. CHUNKMAX-1], whose entries are    *)
(* linked by next_idx and prev_idx in address order; -1 ends the list.     *)
(***************************************************************************)
EXTENDS Integers, FiniteSets

CONSTANTS PAGESIZE, MINALLOC

CHUNKMAX == PAGESIZE \div MINALLOC
Slots == 0..(CHUNKMAX - 1)

Unused == [addr |-> 0, chunk_size |-> 0, flag |-> 0, using |-> 0,
           next_idx |-> 0, prev_idx |-> 0]
NoPage == [head |-> -1, chunks |-> [i \in Slots |-> Unused]]

\* A page fresh from mmap: one free chunk in slot 0.
NewPage(base) ==
  [head |-> 0,
   chunks |-> [NoPage.chunks EXCEPT ![0] =
     [addr |-> base, chunk_size |-> PAGESIZE, flag |-> 0, using |-> 1,
      next_idx |-> -1, prev_idx |-> -1]]]

\* The first unused slot, -1 if the table is full.
find_next(pg) ==
  LET free == {i \in Slots : pg.chunks[i].using = 0}
  IN  IF free = {} THEN -1 ELSE CHOOSE i \in free : \A j \in free : i <= j

-----------------------------------------------------------------------------
Fits(c, size) == c.chunk_size >= size /\ c.flag = 0

\* The search of alloc: a slot, or END when the list ran out, or SMALL when
\* the last chunk is smaller than the request.
END == -1
SMALL == -2
Search(pg, size) ==
  LET from[i \in Slots \cup {-1}] ==
        IF i = -1 THEN END
        ELSE LET c == pg.chunks[i] IN
             IF c.next_idx = -1 /\ c.chunk_size < size THEN SMALL
             ELSE IF Fits(c, size) THEN i
             ELSE from[c.next_idx]
  IN  from[pg.head]

\* Slot i is cut in two; the front part goes to a new slot and is used.
Split(pg, i, size) ==
  LET tmp == pg.chunks[i]
      n   == find_next(pg)
      new == [addr |-> tmp.addr, chunk_size |-> size, flag |-> 1, using |-> 1,
              next_idx |-> i, prev_idx |-> tmp.prev_idx]
      linked == IF tmp.prev_idx = -1 THEN pg.chunks
                ELSE [pg.chunks EXCEPT ![tmp.prev_idx].next_idx = n]
  IN  [head |-> IF tmp.prev_idx = -1 THEN n ELSE pg.head,
       chunks |-> [linked EXCEPT
                     ![i] = [tmp EXCEPT !.prev_idx = n, !.addr = @ + size,
                                        !.chunk_size = @ - size],
                     ![n] = new]]

\* What alloc does with the slot its search found.
Use(pg, i, size) ==
  IF pg.chunks[i].chunk_size = size
  THEN [pg EXCEPT !.chunks[i].flag = 1]
  ELSE Split(pg, i, size)

-----------------------------------------------------------------------------
\* The slot whose chunk starts at addr, -1 if there is none.
Locate(pg, addr) ==
  LET from[i \in Slots \cup {-1}] ==
        IF i = -1 \/ pg.chunks[i].addr = addr THEN i
        ELSE from[pg.chunks[i].next_idx]
  IN  from[pg.head]

Mergeable(pg, i) ==
  LET c == pg.chunks[i]
  IN  c.flag = 0 /\ c.next_idx # -1 /\ pg.chunks[c.next_idx].flag = 0

\* Slot i absorbs the chunk after it.  The freed slot is wiped here: the code
\* only clears using, and reads nothing else of a slot before rewriting it.
Absorb(pg, i) ==
  LET tmp == pg.chunks[i]
      d   == tmp.next_idx
      del == pg.chunks[d]
      linked == IF del.next_idx = -1 THEN pg.chunks
                ELSE [pg.chunks EXCEPT ![del.next_idx].prev_idx = i]
  IN  [pg EXCEPT !.chunks = [linked EXCEPT
         ![i].chunk_size = @ + del.chunk_size, ![i].next_idx = del.next_idx,
         ![d] = Unused]]

\* Mutant: after a merge the scan moves on, so a third free chunk stays apart.
RECURSIVE MergeOnce(_, _)
MergeOnce(pg, i) ==
  IF i = -1 THEN pg
  ELSE IF Mergeable(pg, i)
  THEN LET m == Absorb(pg, i) IN MergeOnce(m, m.chunks[i].next_idx)
  ELSE MergeOnce(pg, pg.chunks[i].next_idx)

\* merge_chunk from slot i on: absorb until the next chunk is in use.
RECURSIVE MergeFrom(_, _)
MergeFrom(pg, i) ==
  IF i = -1 THEN pg
  ELSE IF Mergeable(pg, i) THEN MergeFrom(Absorb(pg, i), i)
  ELSE MergeFrom(pg, pg.chunks[i].next_idx)

merge_chunk(pg) == MergeFrom(pg, pg.head)

\* What dealloc does with the slot it located.
FreeSlot(pg, i) == merge_chunk([pg EXCEPT !.chunks[i].flag = 0])

-----------------------------------------------------------------------------
\* The slots of the list.
Listed(pg) ==
  LET from[i \in Slots \cup {-1}] ==
        IF i = -1 THEN {} ELSE {i} \cup from[pg.chunks[i].next_idx]
  IN  from[pg.head]

\* The list tiles the page from base on: it starts at the base, each chunk
\* ends where the next begins, the last one at the end of the page, no chunk
\* is empty, and prev_idx mirrors next_idx.
Tiles(pg, base) ==
  LET ch == pg.chunks
  IN  /\ ch[pg.head].addr = base /\ ch[pg.head].prev_idx = -1
      /\ \A i \in Listed(pg) :
           LET e == ch[i].addr + ch[i].chunk_size
           IN  /\ ch[i].chunk_size >= MINALLOC
               /\ IF ch[i].next_idx = -1 THEN e = base + PAGESIZE
                  ELSE /\ ch[ch[i].next_idx].addr = e
                       /\ ch[ch[i].next_idx].prev_idx = i

\* No two neighbours are free.
Coalesced(pg) == \A i \in Listed(pg) : ~Mergeable(pg, i)

\* The blocks in use, as [addr, size] records.
UsedBlocks(pg) ==
  {[addr |-> pg.chunks[i].addr, size |-> pg.chunks[i].chunk_size] :
     i \in {j \in Listed(pg) : pg.chunks[j].flag = 1}}

\* The slots marked used are the listed ones, and whenever alloc would cut a
\* chunk the table has a slot for the new part.
SlotForSplit(pg) ==
  /\ Listed(pg) = {i \in Slots : pg.chunks[i].using = 1}
  /\ (\E i \in Listed(pg) : pg.chunks[i].flag = 0 /\ pg.chunks[i].chunk_size > MINALLOC)
       => find_next(pg) # -1
=============================================================================
