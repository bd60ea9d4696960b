---------------------------- MODULE SSUFSProofs -----------------------------
(***************************************************************************)
(* ssufs for any numbers of inodes, blocks and handles and any sizes:      *)
(* blocks have one owner, sizes and blocks agree, and the calls implement  *)
(* FileService.                                                            *)
(***************************************************************************)
EXTENDS SSUFS, TLAPS

\* The disk after formatting and every call on it.
Inode == [name : Names \cup {Cut, NONE}, file_size : Nat, direct_blocks : Seq(Blocks)]
FSTypes ==
  /\ inode_freelist \subseteq Inodes /\ datablock_freelist \subseteq Blocks
  /\ inodes \in [Inodes -> Inode]
  /\ handles \in [Handles -> [offset : Nat, inode_number : Inodes \cup {-1}]]

FSInv == FSTypes /\ BlocksOwnedOnce

-----------------------------------------------------------------------------
(* Blocks have one owner.                                                  *)

\* Inodes, blocks and handles are numbers.
LEMMA Numbers == Inodes \subseteq Nat /\ Blocks \subseteq Nat /\ Handles \subseteq Nat
BY FSAssumption DEF Inodes, Blocks, Handles

\* One inode gets other blocks; they are its own and marked.
LEMMA OwnersChange ==
  ASSUME BlocksOwnedOnce, NEW i \in Inodes,
         \A j \in Inodes \ {i} :
           /\ inodes'[j].direct_blocks = inodes[j].direct_blocks
           /\ Range(inodes[j].direct_blocks) \subseteq datablock_freelist'
           /\ Range(inodes'[i].direct_blocks) \cap Range(inodes[j].direct_blocks) = {},
         Range(inodes'[i].direct_blocks) \subseteq datablock_freelist',
         IsInjective(inodes'[i].direct_blocks)
  PROVE  BlocksOwnedOnce'
<1>1. ASSUME NEW j \in Inodes
      PROVE  /\ Range(inodes'[j].direct_blocks) \subseteq datablock_freelist'
             /\ IsInjective(inodes'[j].direct_blocks)
  BY Zenon DEF BlocksOwnedOnce
<1>2. ASSUME NEW j \in Inodes, NEW k \in Inodes, j # k
      PROVE  Range(inodes'[j].direct_blocks) \cap Range(inodes'[k].direct_blocks) = {}
  <2>1. CASE j = i
    BY <1>2, <2>1, Zenon
  <2>2. CASE k = i
    <3>1. Range(inodes'[k].direct_blocks) \cap Range(inodes'[j].direct_blocks) = {}
      BY <1>2, <2>2, Zenon
    <3> QED  BY <3>1
  <2>3. CASE j # i /\ k # i
    BY <1>2, <2>3, Zenon DEF BlocksOwnedOnce
  <2> QED  BY <2>1, <2>2, <2>3
<1> QED  BY <1>1, <1>2, Zenon DEF BlocksOwnedOnce

\* A new inode has nothing but its name.
LEMMA NoBlocks ==
  ASSUME NEW n \in Names \cup {Cut, NONE}
  PROVE  /\ NewInode(n) \in Inode /\ NewInode(n).name = n
         /\ NewInode(n).direct_blocks = << >> /\ NewInode(n).file_size = 0
BY DEF NewInode, Inode

\* Nothing is owned through an empty inode.
LEMMA NoOwner ==
  /\ EmptyInode \in Inode
  /\ EmptyInode.direct_blocks = << >> /\ EmptyInode.file_size = 0
  /\ Range(<< >>) = {} /\ IsInjective(<< >>)
<1>1. Range(<< >>) = {} /\ IsInjective(<< >>)
  BY DEF Range, IsInjective
<1> QED  BY <1>1, NoBlocks DEF EmptyInode

\* How many blocks n bytes need: just enough, and one for none.
LEMMA BlocksNeeded ==
  ASSUME NEW n \in Nat
  PROVE  /\ NumBlocks(n) \in Nat \ {0} /\ n <= NumBlocks(n) * BLOCKSIZE
         /\ n > 0 => (NumBlocks(n) - 1) * BLOCKSIZE < n
         /\ n = 0 => NumBlocks(n) = 1
<1>1. CASE n = 0
  BY <1>1, FSAssumption DEF NumBlocks
<1>2. CASE n > 0
  <2> DEFINE q == (n - 1) \div BLOCKSIZE
  <2>1. /\ q \in Nat /\ (n - 1) % BLOCKSIZE \in 0..(BLOCKSIZE - 1)
        /\ n = q * BLOCKSIZE + ((n - 1) % BLOCKSIZE) + 1
    BY <1>2, FSAssumption
  <2>2. NumBlocks(n) = q + 1
    BY <1>2 DEF NumBlocks
  <2> HIDE DEF q
  <2>3. (q + 1) * BLOCKSIZE = q * BLOCKSIZE + BLOCKSIZE
    BY <2>1, FSAssumption
  <2> QED  BY <1>2, <2>1, <2>2, <2>3, FSAssumption
<1> QED  BY <1>1, <1>2

\* What a write takes from the free list.
LEMMA Taken ==
  ASSUME FSTypes, NEW i \in Inodes, NEW n \in Nat, NEW new \in NewBlocks(inodes[i], n)
  PROVE  /\ new \in Seq(Blocks) /\ Range(new) \subseteq FreeBlocks /\ IsInjective(new)
         /\ LET k == NumBlocks(n) - Len(inodes[i].direct_blocks)
            IN  Len(new) = IF k > 0 THEN k ELSE 0
<1> DEFINE k == NumBlocks(n) - Len(inodes[i].direct_blocks)
<1>1. k \in Int
  BY BlocksNeeded DEF FSTypes, Inode
<1>2. /\ new \in [1..k -> FreeBlocks] /\ DOMAIN new = 1..k
      /\ \A j \in 1..k : \A b \in FreeBlocks :
           b < new[j] <=> \E l \in 1..(j - 1) : new[l] = b
  BY DEF NewBlocks
<1> HIDE DEF k
<1>3. \A b \in FreeBlocks : b \in Blocks /\ b \in Int
  BY Numbers DEF FreeBlocks
<1>4. Range(new) \subseteq FreeBlocks
  BY <1>2 DEF Range
<1>5. ASSUME NEW a \in 1..k, NEW b \in 1..k, new[a] = new[b], a < b PROVE FALSE
  <2>1. a \in 1..(b - 1)
    BY <1>1, <1>5
  <2>2. new[a] \in FreeBlocks /\ new[a] < new[b]
    BY <1>2, <2>1
  <2> QED  BY <1>3, <1>5, <2>2
<1>6. IsInjective(new)
  BY <1>1, <1>2, <1>5 DEF IsInjective
<1>7. CASE k > 0
  <2>1. new \in [1..k -> Blocks]
    BY <1>2, <1>3
  <2>2. new \in Seq(Blocks) /\ Len(new) = k
    BY <1>1, <1>7, <2>1
  <2> QED  BY <1>4, <1>6, <1>7, <2>2 DEF k
<1>8. CASE ~(k > 0)
  <2>1. new = << >>
    BY <1>1, <1>2, <1>8
  <2> QED  BY <1>4, <1>6, <1>8, <2>1 DEF k
<1> QED  BY <1>7, <1>8

\* The inode and the position behind a handle.
Num(h) == handles[h].inode_number
Off(h) == handles[h].offset

\* A handle that is open has an inode and a position.
LEMMA OpenHandle ==
  ASSUME FSTypes, NEW h \in Handles
  PROVE  /\ Off(h) \in Nat /\ Num(h) \in Inodes \cup {-1}
         /\ IsOpen(h) <=> Num(h) \in Inodes
         /\ Ino(h) = inodes[Num(h)]
         /\ IsOpen(h) => Ino(h) \in Inode
<1>1. Off(h) \in Nat /\ Num(h) \in Inodes \cup {-1}
  BY DEF FSTypes, Num, Off
<1>2. \A i \in Inodes : i >= 0
  BY Numbers
<1>3. IsOpen(h) <=> Num(h) \in Inodes
  BY <1>1, <1>2 DEF IsOpen, Num
<1> QED  BY <1>1, <1>3 DEF FSTypes, Ino, Num

\* What a write does to the inode, given the blocks it took.
Grown(h, n, new) ==
  LET i == Num(h)
      m == Off(h) + n
  IN  /\ datablock_freelist' = datablock_freelist \cup Range(new)
      /\ inodes' \in [Inodes -> Inode]
      /\ inodes'[i].direct_blocks = inodes[i].direct_blocks \o new
      /\ inodes'[i].file_size = IF inodes[i].file_size < m THEN m ELSE inodes[i].file_size
      /\ inodes'[i].name = inodes[i].name
      /\ \A j \in Inodes \ {i} : inodes'[j] = inodes[j]
      /\ handles' = [handles EXCEPT ![h].offset = m]
      /\ inode_freelist' = inode_freelist

\* What a write does: blocks from the free list, the bytes, the inode, the
\* position.
LEMMA Writes ==
  ASSUME FSTypes, NEW h \in Handles, NEW n \in 0..MaxBytes, NEW v, ssufs_write(h, n, v)
  PROVE  /\ Num(h) \in Inodes /\ Off(h) \in Nat /\ n \in Nat /\ Off(h) + n \in Nat
         /\ \E new \in NewBlocks(inodes[Num(h)], Off(h) + n) :
              /\ Grown(h, n, new)
              /\ data' = Stored(inodes[Num(h)].direct_blocks \o new,
                           Patched(inodes[Num(h)].direct_blocks \o new, Off(h), n, v))
<1>1. n \in Nat /\ Off(h) \in Nat /\ Num(h) \in Inodes /\ Ino(h) = inodes[Num(h)]
  BY OpenHandle, FSAssumption DEF ssufs_write, MaxBytes
<1>2. Off(h) + n \in Nat
  BY <1>1
<1>3. PICK new \in NewBlocks(inodes[Num(h)], Off(h) + n) :
        LET blocks == inodes[Num(h)].direct_blocks \o new
        IN  /\ datablock_freelist' = datablock_freelist \cup Range(new)
            /\ data' = Stored(blocks, Patched(blocks, Off(h), n, v))
            /\ inodes' = [inodes EXCEPT ![Num(h)] =
                 [inodes[Num(h)] EXCEPT !.direct_blocks = blocks,
                                        !.file_size = IF @ < Off(h) + n THEN Off(h) + n ELSE @]]
  BY <1>1, Zenon DEF ssufs_write, Num, Off
<1>4. new \in Seq(Blocks)
  BY <1>1, <1>2, Taken
<1>5. inodes[Num(h)] \in Inode /\ inodes \in [Inodes -> Inode]
  BY <1>1 DEF FSTypes
<1>6. /\ inodes'[Num(h)].direct_blocks = inodes[Num(h)].direct_blocks \o new
      /\ inodes'[Num(h)].file_size =
           IF inodes[Num(h)].file_size < Off(h) + n THEN Off(h) + n ELSE inodes[Num(h)].file_size
      /\ inodes'[Num(h)].name = inodes[Num(h)].name
      /\ \A j \in Inodes \ {Num(h)} : inodes'[j] = inodes[j]
  BY <1>1, <1>3, <1>5 DEF Inode
<1>7. inodes' \in [Inodes -> Inode]
  <2> DEFINE ino == [inodes[Num(h)] EXCEPT
                       !.direct_blocks = inodes[Num(h)].direct_blocks \o new,
                       !.file_size = IF @ < Off(h) + n THEN Off(h) + n ELSE @]
  <2>1. ino \in Inode
    <3>1. inodes[Num(h)].direct_blocks \o new \in Seq(Blocks)
      BY <1>4, <1>5 DEF Inode
    <3>2. inodes[Num(h)].file_size \in Nat
      BY <1>5 DEF Inode
    <3>3. (IF inodes[Num(h)].file_size < Off(h) + n THEN Off(h) + n
           ELSE inodes[Num(h)].file_size) \in Nat
      BY <1>2, <3>2
    <3> QED  BY <1>5, <3>1, <3>3, Zenon DEF Inode
  <2>2. inodes' = [inodes EXCEPT ![Num(h)] = ino]
    BY <1>1, <1>3
  <2> HIDE DEF ino
  <2> QED  BY <1>1, <1>5, <2>1, <2>2
<1>8. handles' = [handles EXCEPT ![h].offset = Off(h) + n] /\ inode_freelist' = inode_freelist
  BY DEF ssufs_write, Off, FSTypes
<1>9. Grown(h, n, new)
  BY <1>3, <1>6, <1>7, <1>8, Zenon DEF Grown
<1> QED  BY <1>1, <1>2, <1>3, <1>9, Zenon

\* What create does: a free inode becomes an empty file with the name.
LEMMA Creates ==
  ASSUME FSTypes, NEW n \in Names, ssufs_create(n)
  PROVE  /\ \E i \in Inodes \ inode_freelist :
              /\ inode_freelist' = inode_freelist \cup {i} /\ ret' = i /\ i \in Nat
              /\ inodes' \in [Inodes -> Inode]
              /\ inodes'[i].direct_blocks = << >> /\ inodes'[i].file_size = 0
              /\ inodes'[i].name = IF n \in LongNames THEN Cut ELSE n
              /\ \A j \in Inodes \ {i} : inodes'[j] = inodes[j]
         /\ UNCHANGED <<datablock_freelist, data, handles>>
<1>1. PICK i \in First(FreeInodes) :
        /\ inode_freelist' = inode_freelist \cup {i} /\ ret' = i
        /\ inodes' = [inodes EXCEPT ![i] = NewInode(IF n \in LongNames THEN Cut ELSE n)]
  BY Zenon DEF ssufs_create
<1>2. i \in Inodes \ inode_freelist /\ i \in Nat
  BY Numbers DEF First, FreeInodes
<1> DEFINE stored == IF n \in LongNames THEN Cut ELSE n
           e == NewInode(stored)
<1>3. e \in Inode /\ e.direct_blocks = << >> /\ e.file_size = 0 /\ e.name = stored
  <2>1. stored \in Names \cup {Cut, NONE}
    OBVIOUS
  <2> HIDE DEF stored
  <2> QED  BY <2>1, NoBlocks
<1>4. inodes \in [Inodes -> Inode] /\ UNCHANGED <<datablock_freelist, data, handles>>
  BY DEF FSTypes, ssufs_create
<1>5. inodes' = [inodes EXCEPT ![i] = e]
  BY <1>1
<1> HIDE DEF e
<1>6. /\ inodes' \in [Inodes -> Inode] /\ inodes'[i] = e
      /\ \A j \in Inodes \ {i} : inodes'[j] = inodes[j]
  BY <1>2, <1>3, <1>4, <1>5
<1> QED  BY <1>1, <1>2, <1>3, <1>4, <1>6, Zenon

\* A formatted disk has no file.
LEMMA FormatFS == ASSUME ssufs_formatDisk PROVE FSInv
<1>1. FSTypes
  BY NoOwner DEF ssufs_formatDisk, FSTypes, NoHandle
<1>2. BlocksOwnedOnce
  BY NoOwner DEF ssufs_formatDisk, BlocksOwnedOnce
<1> QED  BY <1>1, <1>2 DEF FSInv

\* A new file has no blocks.
LEMMA CreateFS == ASSUME FSInv, NEW n \in Names, ssufs_create(n) PROVE FSInv'
<1>1. FSTypes /\ BlocksOwnedOnce
  BY DEF FSInv
<1>2. PICK i \in Inodes \ inode_freelist :
              /\ inode_freelist' = inode_freelist \cup {i}
              /\ inodes' \in [Inodes -> Inode]
              /\ inodes'[i].direct_blocks = << >>
              /\ \A j \in Inodes \ {i} : inodes'[j] = inodes[j]
  BY <1>1, Creates, Zenon
<1>3. UNCHANGED <<datablock_freelist, handles>>
  BY <1>1, Creates, Zenon
<1>4. FSTypes'
  BY <1>1, <1>2, <1>3 DEF FSTypes
<1>5. Range(inodes'[i].direct_blocks) = {} /\ IsInjective(inodes'[i].direct_blocks)
  BY <1>2, NoOwner, Zenon
<1>6. BlocksOwnedOnce'
  <2>1. ASSUME NEW j \in Inodes \ {i}
        PROVE  /\ inodes'[j].direct_blocks = inodes[j].direct_blocks
               /\ Range(inodes[j].direct_blocks) \subseteq datablock_freelist'
               /\ Range(inodes'[i].direct_blocks) \cap Range(inodes[j].direct_blocks) = {}
    BY <1>1, <1>2, <1>3, <1>5 DEF BlocksOwnedOnce
  <2> QED  BY <1>1, <1>2, <1>5, <2>1, OwnersChange
<1> QED  BY <1>4, <1>6 DEF FSInv

\* What freeing an inode does, its blocks included.
LEMMA Frees ==
  ASSUME FSTypes, NEW i \in Inodes, FreeInode(i)
  PROVE  /\ inode_freelist' = inode_freelist \ {i}
         /\ datablock_freelist' = datablock_freelist \ Range(inodes[i].direct_blocks)
         /\ inodes' \in [Inodes -> Inode] /\ inodes'[i] = EmptyInode
         /\ \A j \in Inodes \ {i} : inodes'[j] = inodes[j]
         /\ data' = [b \in Blocks |-> IF b \in Range(inodes[i].direct_blocks)
                                      THEN Zeros ELSE data[b]]
<1>1. /\ inode_freelist' = inode_freelist \ {i}
      /\ datablock_freelist' = datablock_freelist \ Range(inodes[i].direct_blocks)
      /\ inodes' = [inodes EXCEPT ![i] = EmptyInode]
      /\ data' = [b \in Blocks |-> IF b \in Range(inodes[i].direct_blocks)
                                      THEN Zeros ELSE data[b]]
  BY Zenon DEF FreeInode
<1>2. inodes \in [Inodes -> Inode] /\ EmptyInode \in Inode
  BY NoOwner DEF FSTypes
<1> QED  BY <1>1, <1>2, Zenon

\* The table of open files.
Table == [Handles -> [offset : Nat, inode_number : Inodes \cup {-1}]]

\* What delete does: it frees the inode of that name and closes one handle on
\* it, all of them if callers do not share a file they delete.
LEMMA Deletes ==
  ASSUME FSTypes, NEW n \in Names, ssufs_delete(n)
  PROVE  \E i \in inode_freelist :
           /\ i \in Inodes /\ NameIs(inodes[i], n) /\ FreeInode(i)
           /\ handles' \in Table /\ ret' = 0 /\ rbuf' = << >>
           /\ \A h \in Handles : handles'[h] \in {handles[h], NoHandle}
           /\ ~DeleteShared => \A h \in Handles :
                handles'[h] = IF Num(h) = i THEN NoHandle ELSE handles[h]
<1>1. PICK i \in First(open_namei(n)) :
        LET H == {h \in Handles : handles[h].inode_number = i}
        IN  /\ DeleteShared \/ \A g, h \in H : g = h
            /\ handles' = [h \in Handles |-> IF h \in First(H) THEN NoHandle ELSE handles[h]]
            /\ FreeInode(i)
  BY Zenon DEF ssufs_delete
<1>2. i \in inode_freelist /\ i \in Inodes /\ NameIs(inodes[i], n)
  BY DEF First, open_namei, FSTypes
<1>3. ret' = 0 /\ rbuf' = << >>
  BY DEF ssufs_delete
<1> DEFINE H == {h \in Handles : handles[h].inode_number = i}
<1>4. /\ DeleteShared \/ \A g, h \in H : g = h
      /\ handles' = [h \in Handles |-> IF h \in First(H) THEN NoHandle ELSE handles[h]]
  BY <1>1, Zenon
<1>5. \A h \in Handles : h \in H <=> Num(h) = i
  BY DEF Num
<1> HIDE DEF H
<1>6. \A h \in Handles :
        handles[h] \in [offset : Nat, inode_number : Inodes \cup {-1}] /\ h \in Nat
  BY Numbers DEF FSTypes
<1>7. NoHandle \in [offset : Nat, inode_number : Inodes \cup {-1}]
  BY DEF NoHandle
<1>8. handles' \in Table /\ \A h \in Handles : handles'[h] \in {handles[h], NoHandle}
  BY <1>4, <1>6, <1>7, Zenon DEF Table
<1>9. ASSUME ~DeleteShared, NEW h \in Handles PROVE h \in First(H) <=> Num(h) = i
  BY <1>4, <1>5, <1>6, <1>9 DEF First
<1>10. ~DeleteShared => \A h \in Handles :
         handles'[h] = IF Num(h) = i THEN NoHandle ELSE handles[h]
  BY <1>4, <1>9, Zenon
<1> QED  BY <1>1, <1>2, <1>3, <1>8, <1>10, Zenon

\* Steps that leave the disk alone.
LEMMA HandlesFS == ASSUME FSInv, UNCHANGED disk, handles' \in Table PROVE FSInv'
BY Zenon DEF FSInv, FSTypes, BlocksOwnedOnce, disk, Table

\* A deleted file gives its blocks back, and no other file has them.
LEMMA DeleteFS == ASSUME FSInv, NEW n \in Names, ssufs_delete(n) PROVE FSInv'
<1>1. FSTypes /\ BlocksOwnedOnce
  BY DEF FSInv
<1>2. PICK i \in Inodes : FreeInode(i)
  BY <1>1, Deletes, Zenon
<1>3. handles' \in Table
  BY <1>1, Deletes, Zenon
<1>4. /\ inode_freelist' = inode_freelist \ {i}
      /\ datablock_freelist' = datablock_freelist \ Range(inodes[i].direct_blocks)
      /\ inodes' \in [Inodes -> Inode] /\ inodes'[i] = EmptyInode
      /\ \A j \in Inodes \ {i} : inodes'[j] = inodes[j]
  BY <1>1, <1>2, Frees, Zenon
<1>5. FSTypes'
  BY <1>1, <1>3, <1>4 DEF FSTypes, Table
<1>6. Range(inodes'[i].direct_blocks) = {} /\ IsInjective(inodes'[i].direct_blocks)
  BY <1>4, NoOwner, Zenon
<1>7. ASSUME NEW j \in Inodes \ {i}
      PROVE  /\ inodes'[j].direct_blocks = inodes[j].direct_blocks
             /\ Range(inodes[j].direct_blocks) \subseteq datablock_freelist'
             /\ Range(inodes'[i].direct_blocks) \cap Range(inodes[j].direct_blocks) = {}
  <2>1. /\ Range(inodes[j].direct_blocks) \subseteq datablock_freelist
        /\ Range(inodes[i].direct_blocks) \cap Range(inodes[j].direct_blocks) = {}
    BY <1>1, Zenon DEF BlocksOwnedOnce
  <2> QED  BY <1>4, <1>6, <2>1
<1>8. BlocksOwnedOnce'
  BY <1>1, <1>6, <1>7, OwnersChange
<1> QED  BY <1>5, <1>8 DEF FSInv

\* What open does: a closed entry of the table gets the inode.
LEMMA Opens ==
  ASSUME FSTypes, NEW n \in Names, ssufs_open(n)
  PROVE  \E i \in inode_freelist, h \in Handles :
           /\ i \in Inodes /\ NameIs(inodes[i], n) /\ Num(h) = -1
           /\ handles' \in Table /\ handles'[h] = [offset |-> Off(h), inode_number |-> i]
           /\ \A g \in Handles \ {h} : handles'[g] = handles[g]
           /\ ret' = h /\ rbuf' = << >> /\ UNCHANGED disk
<1>1. PICK i \in First(open_namei(n)), h \in First(FreeHandles) :
        handles' = [handles EXCEPT ![h].inode_number = i] /\ ret' = h /\ rbuf' = << >>
  BY Zenon DEF ssufs_open
<1>2. i \in inode_freelist /\ i \in Inodes /\ NameIs(inodes[i], n)
  BY DEF First, open_namei, FSTypes
<1>3. h \in Handles /\ Num(h) = -1
  BY DEF First, FreeHandles, Num
<1>4. handles \in Table /\ UNCHANGED disk
  BY DEF FSTypes, Table, ssufs_open
<1>5. /\ handles' \in Table /\ handles'[h] = [offset |-> Off(h), inode_number |-> i]
      /\ \A g \in Handles \ {h} : handles'[g] = handles[g]
  BY <1>1, <1>2, <1>3, <1>4 DEF Table, Off
<1> QED  BY <1>1, <1>2, <1>3, <1>4, <1>5, Zenon

\* Reading and seeking move the position of one handle.
LEMMA Moves ==
  ASSUME FSTypes, NEW h \in Handles, NEW m \in Nat,
         handles' = [handles EXCEPT ![h].offset = m]
  PROVE  /\ handles' \in Table /\ handles'[h] = [offset |-> m, inode_number |-> Num(h)]
         /\ \A g \in Handles \ {h} : handles'[g] = handles[g]
<1>1. handles \in Table
  BY DEF FSTypes, Table
<1> QED  BY <1>1 DEF Table, Num

\* How far read and seek move it.
LEMMA ReadMoves ==
  ASSUME FSTypes, NEW h \in Handles, NEW n \in 0..MaxBytes, ssufs_read(h, n)
  PROVE  /\ IsOpen(h) /\ Off(h) + n \in Nat /\ Off(h) + n <= Ino(h).file_size
         /\ handles' = [handles EXCEPT ![h].offset = Off(h) + n] /\ UNCHANGED disk
<1>1. IsOpen(h) /\ Ino(h).file_size \in Nat /\ n \in Nat /\ Off(h) \in Nat
  BY OpenHandle, FSAssumption DEF ssufs_read, Inode, MaxBytes
<1>2. Ino(h).file_size >= n + Off(h)
  BY DEF ssufs_read, Off
<1>3. handles' = [handles EXCEPT ![h].offset = Off(h) + n] /\ UNCHANGED disk
  BY DEF ssufs_read, Off, FSTypes
<1> QED  BY <1>1, <1>2, <1>3

\* Seeking moves it by k, inside the file.
LEMMA SeekMoves ==
  ASSUME FSTypes, NEW h \in Handles, NEW k \in Int, ssufs_lseek(h, k)
  PROVE  /\ IsOpen(h) /\ Off(h) + k \in Nat /\ Off(h) + k <= Ino(h).file_size
         /\ handles' = [handles EXCEPT ![h].offset = Off(h) + k] /\ UNCHANGED disk
<1>1. IsOpen(h) /\ Ino(h).file_size \in Nat /\ Off(h) \in Nat
  BY OpenHandle DEF ssufs_lseek, Inode
<1>2. Off(h) + k \in 0..Ino(h).file_size
  BY DEF ssufs_lseek, Off
<1>3. handles' = [handles EXCEPT ![h].offset = Off(h) + k] /\ UNCHANGED disk
  BY DEF ssufs_lseek, Off, FSTypes
<1> QED  BY <1>1, <1>2, <1>3

\* A full disk: every block is marked, no inode changes.
LEMMA FullFS ==
  ASSUME FSInv, NEW h \in Handles, NEW n \in 0..MaxBytes, write_full(h, n) PROVE FSInv'
<1>1. datablock_freelist' = Blocks /\ UNCHANGED <<inode_freelist, inodes, handles>>
  BY DEF write_full
<1> QED  BY Zenon, <1>1 DEF FSInv, FSTypes, BlocksOwnedOnce

\* A file gets the blocks of a write behind its own.
LEMMA Appended ==
  ASSUME NEW s \in Seq(Blocks), NEW t \in Seq(Blocks),
         IsInjective(s), IsInjective(t), Range(s) \cap Range(t) = {}
  PROVE  Range(s \o t) = Range(s) \cup Range(t) /\ IsInjective(s \o t)
<1> DEFINE u == s \o t
<1>1. /\ DOMAIN u = 1..(Len(s) + Len(t)) /\ DOMAIN s = 1..Len(s) /\ DOMAIN t = 1..Len(t)
      /\ Len(s) \in Nat /\ Len(t) \in Nat
      /\ \A i \in 1..Len(s) : u[i] = s[i]
      /\ \A i \in 1..Len(t) : u[Len(s) + i] = t[i]
  OBVIOUS
<1> HIDE DEF u
<1>2. \A i \in DOMAIN u : i \in DOMAIN s \/ (i - Len(s) \in DOMAIN t /\ i = Len(s) + (i - Len(s)))
  BY <1>1
<1>3. \A i \in DOMAIN u :
        \/ i \in DOMAIN s /\ u[i] = s[i]
        \/ i - Len(s) \in DOMAIN t /\ u[i] = t[i - Len(s)]
  BY <1>1, <1>2
<1>4. /\ \A i \in DOMAIN s : i \in DOMAIN u /\ u[i] = s[i]
      /\ \A i \in DOMAIN t : Len(s) + i \in DOMAIN u /\ u[Len(s) + i] = t[i]
  BY <1>1
<1>5. Range(u) = Range(s) \cup Range(t)
  BY <1>3, <1>4 DEF Range
<1>6. ASSUME NEW i \in DOMAIN u, NEW j \in DOMAIN u, u[i] = u[j] PROVE i = j
  <2>1. CASE i \in DOMAIN s /\ u[i] = s[i] /\ j \in DOMAIN s /\ u[j] = s[j]
    BY Zenon, <1>6, <2>1 DEF IsInjective
  <2>2. CASE /\ i - Len(s) \in DOMAIN t /\ u[i] = t[i - Len(s)]
             /\ j - Len(s) \in DOMAIN t /\ u[j] = t[j - Len(s)]
    <3>1. i - Len(s) = j - Len(s)
      BY Zenon, <1>6, <2>2 DEF IsInjective
    <3> QED  BY <1>1, <3>1
  <2>3. CASE i \in DOMAIN s /\ u[i] = s[i] /\ j - Len(s) \in DOMAIN t /\ u[j] = t[j - Len(s)]
    BY Zenon, <1>6, <2>3 DEF Range
  <2>4. CASE j \in DOMAIN s /\ u[j] = s[j] /\ i - Len(s) \in DOMAIN t /\ u[i] = t[i - Len(s)]
    BY Zenon, <1>6, <2>4 DEF Range
  <2> QED  BY <1>3, <2>1, <2>2, <2>3, <2>4
<1> QED  BY <1>5, <1>6 DEF u, IsInjective

\* The blocks a write takes were free, so nobody else has them.
LEMMA WriteFS ==
  ASSUME FSInv, NEW h \in Handles, NEW n \in 0..MaxBytes, NEW v, ssufs_write(h, n, v)
  PROVE  FSInv'
<1> DEFINE i == Num(h)
<1>1. FSTypes /\ BlocksOwnedOnce
  BY DEF FSInv
<1>2. i \in Inodes /\ Off(h) + n \in Nat
  BY <1>1, Writes
<1>3. PICK new \in NewBlocks(inodes[i], Off(h) + n) : Grown(h, n, new)
  BY <1>1, Writes, Zenon
<1> HIDE DEF i
<1>4. new \in Seq(Blocks) /\ Range(new) \subseteq FreeBlocks /\ IsInjective(new)
  BY <1>1, <1>2, <1>3, Taken, Zenon
<1>5. /\ datablock_freelist' = datablock_freelist \cup Range(new)
      /\ inodes' \in [Inodes -> Inode] /\ inode_freelist' = inode_freelist
      /\ inodes'[i].direct_blocks = inodes[i].direct_blocks \o new
      /\ \A j \in Inodes \ {i} : inodes'[j] = inodes[j]
      /\ handles' = [handles EXCEPT ![h].offset = Off(h) + n]
  BY <1>3, Zenon DEF Grown, i
<1>6. handles' \in Table
  BY <1>1, <1>2, <1>5, Moves, Zenon
<1>7. FSTypes'
  BY <1>1, <1>4, <1>5, <1>6 DEF FSTypes, Table, FreeBlocks
<1>8. \A j \in Inodes :
        /\ inodes[j].direct_blocks \in Seq(Blocks)
        /\ Range(inodes[j].direct_blocks) \cap Range(new) = {}
        /\ Range(inodes[j].direct_blocks) \subseteq datablock_freelist
  BY <1>1, <1>4 DEF FSTypes, Inode, BlocksOwnedOnce, FreeBlocks
<1>9. /\ Range(inodes'[i].direct_blocks) = Range(inodes[i].direct_blocks) \cup Range(new)
      /\ IsInjective(inodes'[i].direct_blocks)
  <2>1. /\ inodes[i].direct_blocks \in Seq(Blocks) /\ IsInjective(inodes[i].direct_blocks)
        /\ Range(inodes[i].direct_blocks) \cap Range(new) = {}
    BY <1>1, <1>2, <1>8, Zenon DEF BlocksOwnedOnce
  <2> QED  BY <1>4, <1>5, <2>1, Appended
<1>10. BlocksOwnedOnce'
  <2>1. ASSUME NEW j \in Inodes \ {i}
        PROVE  /\ inodes'[j].direct_blocks = inodes[j].direct_blocks
               /\ Range(inodes[j].direct_blocks) \subseteq datablock_freelist'
               /\ Range(inodes'[i].direct_blocks) \cap Range(inodes[j].direct_blocks) = {}
    <3>1. Range(inodes[i].direct_blocks) \cap Range(inodes[j].direct_blocks) = {}
      BY <1>1, <1>2, Zenon DEF BlocksOwnedOnce
    <3> QED  BY <1>5, <1>8, <1>9, <3>1
  <2>2. Range(inodes'[i].direct_blocks) \subseteq datablock_freelist'
    BY <1>2, <1>5, <1>8, <1>9
  <2> QED  BY <1>1, <1>2, <1>9, <2>1, <2>2, OwnersChange
<1> QED  BY <1>7, <1>10 DEF FSInv

\* Every call keeps types and owners.
LEMMA NextFS == ASSUME FSInv, [Next]_vars PROVE FSInv'
<1>1. FSTypes
  BY DEF FSInv
<1>2. CASE UNCHANGED <<disk, handles>>
  <2>1. handles' \in Table
    BY <1>1, <1>2 DEF FSTypes, Table
  <2> QED  BY <1>2, <2>1, HandlesFS
<1>3. ASSUME NEW n \in Names, create_fails(n) \/ open_fails(n) PROVE FSInv'
  BY <1>2, <1>3 DEF create_fails, open_fails, Fail
<1>4. ASSUME NEW n \in Names, ssufs_create(n) \/ ssufs_delete(n) PROVE FSInv'
  BY <1>4, CreateFS, DeleteFS
<1>5. ASSUME NEW n \in Names, ssufs_open(n) PROVE FSInv'
  <2>1. handles' \in Table /\ UNCHANGED disk
    BY <1>1, <1>5, Opens, Zenon
  <2> QED  BY <2>1, HandlesFS
<1>6. ASSUME NEW h \in Handles, ssufs_close(h) PROVE FSInv'
  <2>1. handles' \in Table /\ UNCHANGED disk
    BY <1>1, <1>6 DEF ssufs_close, FSTypes, Table, NoHandle
  <2> QED  BY <2>1, HandlesFS
<1>7. ASSUME NEW h \in Handles, NEW n \in 0..MaxBytes, read_fails(h, n) \/ write_fails(h, n)
      PROVE  FSInv'
  BY <1>2, <1>7 DEF read_fails, write_fails, Fail
<1>8. ASSUME NEW h \in Handles, NEW n \in 0..MaxBytes, ssufs_read(h, n) PROVE FSInv'
  <2>1. handles' \in Table /\ UNCHANGED disk
    BY <1>1, <1>8, ReadMoves, Moves, Zenon
  <2> QED  BY <2>1, HandlesFS
<1>9. ASSUME NEW h \in Handles, NEW k \in Int, seek_fails(h, k) PROVE FSInv'
  BY <1>2, <1>9 DEF seek_fails, Fail
<1>10. ASSUME NEW h \in Handles, NEW k \in Int, ssufs_lseek(h, k) PROVE FSInv'
  <2>1. handles' \in Table /\ UNCHANGED disk
    BY <1>1, <1>10, SeekMoves, Moves, Zenon
  <2> QED  BY <2>1, HandlesFS
<1>11. \A k \in -MaxBytes..MaxBytes : k \in Int
  BY FSAssumption DEF MaxBytes
<1>12. CASE UNCHANGED vars
  BY <1>2, <1>12 DEF vars
<1> QED  BY <1>3, <1>4, <1>5, <1>6, <1>7, <1>8, <1>9, <1>10, <1>11, <1>12, FullFS, WriteFS,
           Zenon DEF Next

\* No block of an ssufs disk belongs to two files or twice to one, and none in
\* a file is marked free, for any sizes of the disk and whatever callers do
\* with their handles.
THEOREM BlocksHaveOneOwner == Spec => []BlocksOwnedOnce
<1>1. ssufs_formatDisk => FSInv
  BY FormatFS
<1>2. FSInv /\ [Next]_vars => FSInv'
  BY NextFS
<1>3. FSInv => BlocksOwnedOnce
  BY DEF FSInv
<1> QED  BY <1>1, <1>2, <1>3, PTL DEF Spec

-----------------------------------------------------------------------------
(* Sizes agree with blocks and positions.                                  *)

\* k blocks are what n bytes need.
Fits(k, n) == n <= k * BLOCKSIZE /\ (n > (k - 1) * BLOCKSIZE \/ (n = 0 /\ k <= 1))
FileOK(i) == Fits(Len(inodes[i].direct_blocks), inodes[i].file_size)

\* An open handle is on a file in use and not behind its end; a closed one
\* waits at the beginning for the next open, which does not set it.
HandleOK(h) ==
  \/ Num(h) \in inode_freelist /\ Off(h) <= inodes[Num(h)].file_size
  \/ Num(h) = -1 /\ Off(h) = 0

CallInv == (\A i \in inode_freelist : FileOK(i)) /\ (\A h \in Handles : HandleOK(h))

\* A write up to byte m leaves as many blocks as the new size needs.
LEMMA StillFits ==
  ASSUME NEW k \in Nat, NEW z \in Nat, Fits(k, z), NEW m \in Nat, NEW t,
         t = NumBlocks(m) - k
  PROVE  Fits(k + (IF t > 0 THEN t ELSE 0), IF z < m THEN m ELSE z)
<1> DEFINE q == NumBlocks(m)
<1>1. /\ q \in Nat /\ q > 0 /\ m <= q * BLOCKSIZE
      /\ m = 0 => q = 1
      /\ m > 0 => (q - 1) * BLOCKSIZE < m
  BY BlocksNeeded
<1> HIDE DEF q
<1>2. BLOCKSIZE \in Nat /\ BLOCKSIZE > 0
  BY FSAssumption
<1>3. CASE t > 0
  <2>1. k + t = q /\ k <= q - 1 /\ q - 1 \in Nat
    BY <1>1, <1>3 DEF q
  <2>2. k * BLOCKSIZE <= (q - 1) * BLOCKSIZE
    BY <1>2, <2>1
  <2>3. CASE m > 0
    <3>1. z < m
      BY <1>1, <1>2, <2>1, <2>2, <2>3 DEF Fits
    <3> QED  BY <1>1, <1>2, <1>3, <2>1, <2>3, <3>1 DEF Fits
  <2>4. CASE m = 0
    <3>1. q = 1 /\ k = 0
      BY <1>1, <2>1, <2>4
    <3>2. z = 0
      BY <1>2, <3>1 DEF Fits
    <3> QED  BY <1>2, <1>3, <2>1, <2>4, <3>1, <3>2 DEF Fits
  <2> QED  BY <2>3, <2>4
<1>4. CASE ~(t > 0)
  <2>1. q <= k
    BY <1>1, <1>4 DEF q
  <2>2. q * BLOCKSIZE <= k * BLOCKSIZE
    BY <1>1, <1>2, <2>1
  <2>3. m <= k * BLOCKSIZE
    BY <1>1, <1>2, <2>2
  <2>4. CASE z < m
    BY <1>2, <1>4, <2>3, <2>4 DEF Fits
  <2>5. CASE ~(z < m)
    BY <1>4, <2>5 DEF Fits
  <2> QED  BY <2>4, <2>5
<1> QED  BY <1>3, <1>4

\* What the invariants say of sizes is what SizesAgree says.
LEMMA SizesHold == ASSUME FSTypes, CallInv PROVE SizesAgree
<1>1. \A h \in Handles : IsOpen(h) => Off(h) <= Ino(h).file_size
  <2> SUFFICES ASSUME NEW h \in Handles, IsOpen(h) PROVE Off(h) <= Ino(h).file_size
    OBVIOUS
  <2>1. Num(h) \in Inodes /\ Ino(h) = inodes[Num(h)] /\ Num(h) # -1
    BY OpenHandle, Numbers
  <2> QED  BY <2>1 DEF CallInv, HandleOK
<1> QED  BY <1>1, Zenon DEF SizesAgree, CallInv, FileOK, Fits, Off

\* A formatted disk has no file and no open handle.
LEMMA FormatCalls == ASSUME ssufs_formatDisk PROVE CallInv
BY DEF ssufs_formatDisk, CallInv, HandleOK, Num, Off, NoHandle

\* Handles that nobody moved, on files that did not shrink.
LEMMA SameHandle ==
  ASSUME NEW h \in Handles, HandleOK(h), handles'[h] = handles[h],
         Num(h) \in inode_freelist =>
           /\ Num(h) \in inode_freelist'
           /\ Off(h) <= inodes[Num(h)].file_size => Off(h) <= inodes'[Num(h)].file_size
  PROVE  HandleOK(h)'
BY DEF HandleOK, Num, Off

\* A new file is empty, and no handle is on it.
LEMMA CreateCalls ==
  ASSUME FSTypes, CallInv, NEW n \in Names, ssufs_create(n) PROVE CallInv'
<1>1. PICK i \in Inodes \ inode_freelist :
        /\ inode_freelist' = inode_freelist \cup {i}
        /\ inodes'[i].direct_blocks = << >> /\ inodes'[i].file_size = 0
        /\ \A j \in Inodes \ {i} : inodes'[j] = inodes[j]
  BY Creates, Zenon
<1>2. handles' = handles
  BY Creates, Zenon
<1>3. \A j \in inode_freelist : j \in Inodes \ {i} /\ inodes'[j] = inodes[j]
  BY <1>1 DEF FSTypes
<1>4. ASSUME NEW h \in Handles PROVE HandleOK(h)'
  BY <1>1, <1>2, <1>3, SameHandle, Zenon DEF CallInv
<1>5. FileOK(i)'
  BY <1>1, FSAssumption DEF FileOK, Fits
<1>6. \A j \in inode_freelist : FileOK(j)'
  BY <1>3, Zenon DEF CallInv, FileOK
<1> QED  BY <1>1, <1>4, <1>5, <1>6, Zenon DEF CallInv

\* Deleting closes the one handle on the file, so none is left on a free
\* inode.
LEMMA DeleteCalls ==
  ASSUME ~DeleteShared, FSTypes, CallInv, NEW n \in Names, ssufs_delete(n) PROVE CallInv'
<1>1. PICK i \in Inodes :
        /\ FreeInode(i)
        /\ \A h \in Handles : handles'[h] = IF Num(h) = i THEN NoHandle ELSE handles[h]
  BY Deletes, Zenon
<1>2. /\ inode_freelist' = inode_freelist \ {i}
      /\ \A j \in Inodes \ {i} : inodes'[j] = inodes[j]
  BY <1>1, Frees, Zenon
<1>3. \A j \in inode_freelist' : j \in inode_freelist /\ inodes'[j] = inodes[j]
  BY <1>2 DEF FSTypes
<1>4. ASSUME NEW h \in Handles PROVE HandleOK(h)'
  <2>1. CASE Num(h) = i
    BY <1>1, <2>1 DEF HandleOK, Num, Off, NoHandle
  <2>2. CASE Num(h) # i
    <3>1. handles'[h] = handles[h]
      BY <1>1, <2>2, Zenon
    <3>2. Num(h) \in inode_freelist => Num(h) \in inode_freelist'
      BY <1>2, <2>2
    <3> QED  BY <1>3, <3>1, <3>2, SameHandle, Zenon DEF CallInv
  <2> QED  BY <2>1, <2>2
<1>5. \A j \in inode_freelist' : FileOK(j)'
  BY <1>3, Zenon DEF CallInv, FileOK
<1> QED  BY <1>4, <1>5, Zenon DEF CallInv

\* Calls that leave the disk alone and one handle sound.
LEMMA HandleCalls ==
  ASSUME CallInv, UNCHANGED disk, NEW h \in Handles, HandleOK(h)',
         \A g \in Handles \ {h} : handles'[g] = handles[g]
  PROVE  CallInv'
<1>1. inodes' = inodes /\ inode_freelist' = inode_freelist
  BY DEF disk
<1>2. ASSUME NEW g \in Handles \ {h} PROVE HandleOK(g)'
  BY <1>1, <1>2, SameHandle, Zenon DEF CallInv
<1>3. ASSUME NEW g \in Handles PROVE HandleOK(g)'
  BY <1>2
<1>4. \A j \in inode_freelist' : FileOK(j)'
  BY <1>1, Zenon DEF CallInv, FileOK
<1> QED  BY <1>3, <1>4, Zenon DEF CallInv

\* A moved handle that stays in its file.
LEMMA MoveCalls ==
  ASSUME FSTypes, CallInv, UNCHANGED disk, NEW h \in Handles, IsOpen(h), NEW m \in Nat,
         m <= Ino(h).file_size, handles' = [handles EXCEPT ![h].offset = m]
  PROVE  CallInv'
<1>1. /\ handles'[h] = [offset |-> m, inode_number |-> Num(h)]
      /\ \A g \in Handles \ {h} : handles'[g] = handles[g]
  BY Zenon, Moves
<1>2. Num(h) \in Inodes /\ Num(h) # -1 /\ Ino(h) = inodes[Num(h)]
  BY OpenHandle, Numbers
<1>3. Num(h) \in inode_freelist
  BY <1>2 DEF CallInv, HandleOK
<1>4. HandleOK(h)'
  BY <1>1, <1>2, <1>3 DEF HandleOK, Num, Off, disk
<1> QED  BY <1>1, <1>4, HandleCalls

\* Opening relies on the position that closed entries of the table have.
LEMMA OpenCalls ==
  ASSUME FSTypes, CallInv, NEW n \in Names, ssufs_open(n) PROVE CallInv'
<1>1. PICK i \in inode_freelist, h \in Handles :
           /\ i \in Inodes /\ Num(h) = -1
           /\ handles'[h] = [offset |-> Off(h), inode_number |-> i]
           /\ \A g \in Handles \ {h} : handles'[g] = handles[g]
           /\ UNCHANGED disk
  BY Opens, Zenon
<1>2. Off(h) = 0
  BY <1>1, Numbers DEF CallInv, HandleOK, FSTypes
<1>3. inodes[i].file_size \in Nat
  BY <1>1 DEF FSTypes, Inode
<1>4. HandleOK(h)'
  BY <1>1, <1>2, <1>3 DEF HandleOK, Num, Off, disk
<1> QED  BY <1>1, <1>4, HandleCalls, Zenon

\* Closing puts the entry back to the beginning.
LEMMA CloseCalls ==
  ASSUME FSTypes, CallInv, NEW h \in Handles, ssufs_close(h) PROVE CallInv'
<1>1. /\ handles'[h] = NoHandle /\ UNCHANGED disk
      /\ \A g \in Handles \ {h} : handles'[g] = handles[g]
  BY DEF ssufs_close, FSTypes
<1>2. HandleOK(h)'
  BY <1>1 DEF HandleOK, Num, Off, NoHandle
<1> QED  BY <1>1, <1>2, HandleCalls, Zenon

\* A write extends the file to its end and no further; handles on it stay
\* inside.
LEMMA WriteCalls ==
  ASSUME FSTypes, CallInv, NEW h \in Handles, NEW n \in 0..MaxBytes, NEW v,
         ssufs_write(h, n, v)
  PROVE  CallInv'
<1>0. PICK i \in Inodes : i = Num(h)
  BY Writes
<1> DEFINE m == Off(h) + n
           k == Len(inodes[i].direct_blocks)
           z == inodes[i].file_size
<1>1. i \in Inodes /\ m \in Nat /\ i # -1
  BY <1>0, Writes, Numbers
<1>2. PICK new \in NewBlocks(inodes[i], m) : Grown(h, n, new)
  BY <1>0, Writes, Zenon
<1>3. i \in inode_freelist
  BY <1>0, <1>1 DEF CallInv, HandleOK
<1>4. /\ inode_freelist' = inode_freelist
      /\ inodes'[i].direct_blocks = inodes[i].direct_blocks \o new
      /\ inodes'[i].file_size = IF z < m THEN m ELSE z
      /\ \A j \in Inodes \ {i} : inodes'[j] = inodes[j]
      /\ handles' = [handles EXCEPT ![h].offset = m]
  BY <1>0, <1>2, Zenon DEF Grown
<1>5. inodes[i].direct_blocks \in Seq(Blocks) /\ k \in Nat /\ z \in Nat
  BY <1>1 DEF FSTypes, Inode
<1>6. /\ handles'[h] = [offset |-> m, inode_number |-> i]
      /\ \A g \in Handles \ {h} : handles'[g] = handles[g]
  BY Zenon, <1>0, <1>1, <1>4, Moves
<1>7. FileOK(i)'
  <2> DEFINE t == NumBlocks(m) - k
  <2>1. new \in Seq(Blocks) /\ Len(new) = IF t > 0 THEN t ELSE 0
    BY <1>1, <1>2, Taken
  <2>2. Fits(k, z)
    BY <1>3, Zenon DEF CallInv, FileOK
  <2>3. Fits(k + (IF t > 0 THEN t ELSE 0), IF z < m THEN m ELSE z)
    BY <1>1, <1>5, <2>2, StillFits
  <2>4. Len(inodes[i].direct_blocks \o new) = k + Len(new)
    BY <1>5, <2>1
  <2> HIDE DEF t, k, z, m
  <2> QED  BY <1>4, <2>1, <2>3, <2>4, Zenon DEF FileOK
<1> HIDE DEF k, z, m
<1>8. \A j \in inode_freelist : FileOK(j)'
  <2>1. \A j \in inode_freelist : j # i => inodes'[j] = inodes[j]
    BY <1>4 DEF FSTypes
  <2> QED  BY <1>7, <2>1, Zenon DEF CallInv, FileOK
<1>9. HandleOK(h)'
  BY <1>1, <1>3, <1>4, <1>5, <1>6 DEF HandleOK, Num, Off, z
<1>10. ASSUME NEW g \in Handles \ {h} PROVE HandleOK(g)'
  <2>1. Num(g) \in inode_freelist /\ Off(g) <= inodes[Num(g)].file_size
          => Off(g) <= inodes'[Num(g)].file_size
    <3>1. Off(g) \in Nat
      BY OpenHandle
    <3>2. CASE Num(g) = i
      BY <1>1, <1>4, <1>5, <3>1, <3>2 DEF z
    <3>3. CASE Num(g) # i
      BY <1>4, <3>3 DEF FSTypes
    <3> QED  BY <3>2, <3>3
  <2> QED  BY <1>4, <1>6, <2>1, SameHandle, Zenon DEF CallInv
<1>11. ASSUME NEW g \in Handles PROVE HandleOK(g)'
  BY <1>9, <1>10
<1> QED  BY <1>4, <1>8, <1>11, Zenon DEF CallInv

\* Every call keeps sizes and positions, if callers close all but one handle
\* on a file before they delete it.
LEMMA NextCalls == ASSUME ~DeleteShared, FSTypes, CallInv, [Next]_vars PROVE CallInv'
<1>1. CASE UNCHANGED <<inode_freelist, inodes, handles>>
  BY <1>1, Zenon DEF CallInv, FileOK, HandleOK, Num, Off
<1>2. CASE UNCHANGED <<disk, handles>>
  BY <1>1, <1>2, Zenon DEF disk
<1>3. ASSUME NEW n \in Names, create_fails(n) \/ open_fails(n) PROVE CallInv'
  BY <1>2, <1>3 DEF create_fails, open_fails, Fail
<1>4. ASSUME NEW n \in Names, ssufs_create(n) \/ ssufs_delete(n) \/ ssufs_open(n) PROVE CallInv'
  BY <1>4, CreateCalls, DeleteCalls, OpenCalls
<1>5. ASSUME NEW h \in Handles, NEW n \in 0..MaxBytes, read_fails(h, n) \/ write_fails(h, n)
      PROVE  CallInv'
  BY <1>2, <1>5 DEF read_fails, write_fails, Fail
<1>6. ASSUME NEW h \in Handles, NEW n \in 0..MaxBytes, ssufs_read(h, n) PROVE CallInv'
  BY <1>6, ReadMoves, MoveCalls, Zenon
<1>7. ASSUME NEW h \in Handles, NEW k \in Int, seek_fails(h, k) PROVE CallInv'
  BY <1>2, <1>7 DEF seek_fails, Fail
<1>8. ASSUME NEW h \in Handles, NEW k \in Int, ssufs_lseek(h, k) PROVE CallInv'
  BY <1>8, SeekMoves, MoveCalls, Zenon
<1>9. ASSUME NEW h \in Handles, NEW n \in 0..MaxBytes, write_full(h, n) PROVE CallInv'
  BY <1>1, <1>9 DEF write_full
<1>10. \A k \in -MaxBytes..MaxBytes : k \in Int
  BY FSAssumption DEF MaxBytes
<1>11. CASE UNCHANGED vars
  BY <1>2, <1>11 DEF vars
<1> QED  BY <1>3, <1>4, <1>5, <1>6, <1>7, <1>8, <1>9, <1>10, <1>11, CloseCalls, WriteCalls,
           Zenon DEF Next

\* The size of every file is what its blocks hold and no handle is beyond the
\* end of its file, for any sizes of the disk.  Callers that delete a file
\* somebody else has open lose this: only one handle is closed.
THEOREM SizesAlwaysAgree == ASSUME ~DeleteShared PROVE Spec => []SizesAgree
<1>1. ssufs_formatDisk => FSInv /\ CallInv
  BY FormatFS, FormatCalls
<1>2. FSInv /\ CallInv /\ [Next]_vars => FSInv' /\ CallInv'
  BY NextFS, NextCalls DEF FSInv
<1>3. FSInv /\ CallInv => SizesAgree
  BY SizesHold DEF FSInv
<1> QED  BY <1>1, <1>2, <1>3, PTL DEF Spec

-----------------------------------------------------------------------------
(* The file service the calls implement.                                   *)

\* Byte j of a file is byte (j - 1) % BLOCKSIZE + 1 of one of its blocks.
LEMMA Place ==
  ASSUME NEW k \in Nat, NEW j \in 1..(BLOCKSIZE * k)
  PROVE  /\ ((j - 1) \div BLOCKSIZE) + 1 \in 1..k /\ ((j - 1) % BLOCKSIZE) + 1 \in 1..BLOCKSIZE
         /\ j = ((j - 1) \div BLOCKSIZE) * BLOCKSIZE + (((j - 1) % BLOCKSIZE) + 1)
<1> DEFINE q == (j - 1) \div BLOCKSIZE
           r == (j - 1) % BLOCKSIZE
<1>1. BLOCKSIZE \in Nat /\ BLOCKSIZE > 0 /\ BLOCKSIZE * k \in Nat /\ j \in Nat /\ j > 0
  BY FSAssumption
<1>2. q \in Nat /\ r \in 0..(BLOCKSIZE - 1) /\ j - 1 = BLOCKSIZE * q + r
  BY <1>1
<1> HIDE DEF q, r
<1>3. BLOCKSIZE * q < BLOCKSIZE * k
  BY <1>1, <1>2
<1>4. q < k
  <2>1. CASE k <= q
    <3>1. BLOCKSIZE * k <= BLOCKSIZE * q
      BY <1>1, <1>2, <2>1
    <3> QED  BY <1>1, <1>2, <1>3, <3>1
  <2> QED  BY <1>2, <2>1
<1> QED  BY <1>1, <1>2, <1>4 DEF q, r

\* The bytes of a file whose blocks nobody wrote to.
LEMMA SameBytes ==
  ASSUME NEW s \in Seq(Blocks), NEW d, NEW e, \A b \in Range(s) : d[b] = e[b]
  PROVE  BytesOf(d, s) = BytesOf(e, s)
<1>1. ASSUME NEW j \in 1..(BLOCKSIZE * Len(s))
      PROVE  d[s[((j - 1) \div BLOCKSIZE) + 1]] = e[s[((j - 1) \div BLOCKSIZE) + 1]]
  <2>1. ((j - 1) \div BLOCKSIZE) + 1 \in DOMAIN s
    BY <1>1, Place
  <2> QED  BY <2>1 DEF Range
<1> QED  BY <1>1, Zenon DEF BytesOf

\* A file has as many bytes as its size says.
LEMMA TextIs ==
  ASSUME FSTypes, CallInv, NEW i \in inode_freelist
  PROVE  /\ inodes[i].direct_blocks \in Seq(Blocks) /\ inodes[i].file_size \in Nat
         /\ inodes[i].file_size <= BLOCKSIZE * Len(inodes[i].direct_blocks)
         /\ Text(i) = [j \in 1..inodes[i].file_size |-> BytesOf(data, inodes[i].direct_blocks)[j]]
         /\ Len(Text(i)) = inodes[i].file_size
<1> DEFINE s == inodes[i].direct_blocks
           z == inodes[i].file_size
           B == BytesOf(data, s)
<1>1. s \in Seq(Blocks) /\ z \in Nat
  BY DEF FSTypes, Inode
<1>2. z <= BLOCKSIZE * Len(s)
  <2>1. z <= Len(s) * BLOCKSIZE
    BY DEF CallInv, FileOK, Fits
  <2>2. Len(s) * BLOCKSIZE = BLOCKSIZE * Len(s)
    BY <1>1, FSAssumption
  <2> QED  BY <2>1, <2>2
<1>3. Text(i) = SubSeq(B, 1, z)
  BY DEF Text
<1> HIDE DEF B, s, z
<1>4. SubSeq(B, 1, z) = [j \in 1..z |-> B[j]]
  BY <1>1
<1>5. [j \in 1..z |-> B[j]] \in [1..z -> {B[j] : j \in 1..z}]
  OBVIOUS
<1>6. Len([j \in 1..z |-> B[j]]) = z
  BY <1>1, <1>5
<1> QED  BY <1>1, <1>2, <1>3, <1>4, <1>6 DEF B, s, z

\* The names of the files are short and each is there once.
NamesOK == \A i, j \in inode_freelist :
  inodes[i].name \in Names /\ (inodes[i].name = inodes[j].name => i = j)

\* The abstract files and positions, seen through inodes and handles.
FilesOK ==
  /\ Files = [n \in DOMAIN Files |-> Files[n]]
  /\ DOMAIN Files = {inodes[i].name : i \in inode_freelist}
  /\ \A i \in inode_freelist : Files[inodes[i].name] = Text(i)
PositionsOK ==
  /\ Positions = [h \in Handles |-> Positions[h]]
  /\ \A h \in Handles :
       \/ /\ Num(h) \in inode_freelist /\ IsOpen(h)
          /\ Positions[h] = [name |-> inodes[Num(h)].name, pos |-> Off(h)] /\ Positions[h] # NONE
       \/ Num(h) = -1 /\ ~IsOpen(h) /\ Positions[h] = NONE

\* The invariants make the abstract files and positions well defined.
LEMMA ViewHolds == FSTypes /\ CallInv /\ NamesOK => FilesOK /\ PositionsOK
<1> SUFFICES ASSUME FSTypes, CallInv, NamesOK PROVE FilesOK /\ PositionsOK
  OBVIOUS
<1>1. FilesOK
  <2> DEFINE D == {inodes[i].name : i \in inode_freelist}
             at(n) == CHOOSE i \in inode_freelist : inodes[i].name = n
  <2>1. Files = [n \in D |-> Text(at(n))]
    BY DEF Files
  <2>2. \A i \in inode_freelist : at(inodes[i].name) = i /\ inodes[i].name \in D
    BY DEF NamesOK
  <2> HIDE DEF D, at
  <2>3. Files = [n \in DOMAIN Files |-> Files[n]] /\ DOMAIN Files = D
    BY <2>1
  <2>4. \A i \in inode_freelist : Files[inodes[i].name] = Text(i)
    BY <2>1, <2>2, Zenon
  <2> QED  BY <2>3, <2>4 DEF FilesOK, D
<1>2. ASSUME NEW h \in Handles
      PROVE  \/ /\ Num(h) \in inode_freelist /\ IsOpen(h)
                /\ Positions[h] = [name |-> inodes[Num(h)].name, pos |-> Off(h)]
                /\ Positions[h] # NONE
             \/ Num(h) = -1 /\ ~IsOpen(h) /\ Positions[h] = NONE
  <2>1. /\ Positions[h] = IF IsOpen(h) THEN [name |-> Ino(h).name, pos |-> Off(h)] ELSE NONE
        /\ Off(h) \in Nat /\ (IsOpen(h) <=> Num(h) \in Inodes) /\ Ino(h) = inodes[Num(h)]
    BY OpenHandle DEF Positions, Off
  <2>2. CASE Num(h) \in inode_freelist
    <3>1. IsOpen(h) /\ inodes[Num(h)].name \in Names
      BY <2>1, <2>2 DEF FSTypes, NamesOK
    <3>2. Positions[h] = [name |-> inodes[Num(h)].name, pos |-> Off(h)]
      BY <2>1, <3>1
    <3>3. Positions[h] \in [name : Names, pos : Nat]
      BY <2>1, <3>1, <3>2
    <3> QED  BY <2>2, <3>1, <3>2, <3>3, NoneAssumption
  <2>3. CASE Num(h) = -1
    BY <2>1, <2>3, Numbers
  <2> QED  BY <2>2, <2>3 DEF CallInv, HandleOK
<1>3. Positions = [h \in Handles |-> Positions[h]]
  BY DEF Positions
<1> QED  BY <1>1, <1>2, <1>3 DEF PositionsOK

\* Files that keep their blocks and bytes keep their text.
LEMMA SameText ==
  ASSUME FSTypes, NEW i \in Inodes, inodes'[i] = inodes[i],
         \A b \in Range(inodes[i].direct_blocks) : data'[b] = data[b]
  PROVE  Text(i)' = Text(i)
<1>1. inodes[i].direct_blocks \in Seq(Blocks)
  BY DEF FSTypes, Inode
<1>2. BytesOf(data', inodes[i].direct_blocks) = BytesOf(data, inodes[i].direct_blocks)
  BY <1>1, SameBytes
<1> QED  BY <1>2, Zenon DEF Text, BytesOf

\* The view, before and after a step.
View == FilesOK /\ PositionsOK

\* The files, when none comes or goes and only file k has a new text.
LEMMA SameFiles ==
  ASSUME View, View', inode_freelist' = inode_freelist, NEW k \in inode_freelist, NamesOK,
         \A i \in inode_freelist : inodes'[i].name = inodes[i].name,
         \A i \in inode_freelist \ {k} : Text(i)' = Text(i)
  PROVE  Files' = [Files EXCEPT ![inodes[k].name] = Text(k)']
<1>1. DOMAIN Files' = DOMAIN Files
  BY DEF View, FilesOK
<1>2. ASSUME NEW n \in DOMAIN Files
      PROVE  Files'[n] = IF n = inodes[k].name THEN Text(k)' ELSE Files[n]
  <2>1. PICK i \in inode_freelist : n = inodes[i].name
    BY DEF View, FilesOK
  <2>2. Files[n] = Text(i) /\ Files'[n] = Text(i)'
    BY <2>1, Zenon DEF View, FilesOK
  <2> QED  BY <2>1, <2>2 DEF NamesOK
<1>3. Files' = [n \in DOMAIN Files |-> Files'[n]] /\ Files = [n \in DOMAIN Files |-> Files[n]]
  BY <1>1, Zenon DEF View, FilesOK
<1> QED  BY <1>2, <1>3

\* The positions, when one handle changes and files keep their names.
LEMMA SamePositions ==
  ASSUME View, View', NEW h \in Handles,
         \A g \in Handles \ {h} : handles'[g] = handles[g],
         \A i \in inode_freelist : inodes'[i].name = inodes[i].name
  PROVE  Positions' = [Positions EXCEPT ![h] = Positions'[h]]
<1>1. ASSUME NEW g \in Handles \ {h} PROVE Positions'[g] = Positions[g]
  <2>1. handles'[g] = handles[g]
    OBVIOUS
  <2>2. Num(g)' = Num(g) /\ Off(g)' = Off(g) /\ (IsOpen(g)' <=> IsOpen(g))
    BY <2>1, Zenon DEF Num, Off, IsOpen
  <2> QED  BY <2>2 DEF View, PositionsOK
<1>2. Positions' = [g \in Handles |-> Positions'[g]] /\ Positions = [g \in Handles |-> Positions[g]]
  BY Zenon DEF View, PositionsOK
<1> QED  BY <1>1, <1>2

\* Calls that refuse change nothing a caller sees; one that fills the disk
\* clears only blocks no file has.
LEMMA SameView ==
  ASSUME UNCHANGED <<disk, handles>> PROVE Files' = Files /\ Positions' = Positions
<1>1. data' = data /\ inodes' = inodes /\ inode_freelist' = inode_freelist /\ handles' = handles
  BY DEF disk
<1>2. Files' = Files
  BY <1>1 DEF Files, Text, BytesOf
<1>3. Positions' = Positions
  BY <1>1, Zenon DEF Positions, IsOpen, Ino
<1> QED  BY <1>2, <1>3

\* A write that finds the disk full is a refusal.
LEMMA FullView ==
  ASSUME FSInv, NamesOK, View, View', NEW h \in Handles, NEW n \in 0..MaxBytes, write_full(h, n)
  PROVE  F!Refused
<1>1. /\ data' = Cleared /\ UNCHANGED <<inode_freelist, inodes, handles>>
      /\ ret' = -1 /\ rbuf' = << >>
  BY DEF write_full
<1>2. ASSUME NEW i \in inode_freelist PROVE Text(i)' = Text(i)
  <2>1. i \in Inodes /\ FSTypes /\ inodes[i].direct_blocks \in Seq(Blocks)
    BY DEF FSInv, FSTypes, Inode
  <2>2. Range(inodes[i].direct_blocks) \subseteq datablock_freelist
    BY <2>1 DEF FSInv, BlocksOwnedOnce
  <2>3. \A b \in Range(inodes[i].direct_blocks) : data'[b] = data[b]
    BY <1>1, <2>1, <2>2 DEF Cleared, FreeBlocks, FSTypes
  <2> QED  BY <1>1, <2>1, <2>3, SameText, Zenon
<1>3. Files' = Files
  <2>1. DOMAIN Files' = DOMAIN Files
    BY <1>1 DEF View, FilesOK
  <2>2. ASSUME NEW m \in DOMAIN Files PROVE Files'[m] = Files[m]
    BY <1>1, <1>2 DEF View, FilesOK
  <2> QED  BY <2>1, <2>2, Zenon DEF View, FilesOK
<1>4. Positions' = Positions
  BY <1>1, Zenon DEF Positions, IsOpen, Ino
<1> QED  BY <1>1, <1>3, <1>4 DEF F!Refused

\* create adds an empty file.
LEMMA CreateView ==
  ASSUME LongNames = {}, FSTypes, NamesOK, View, View', NEW n \in Names, NamesOK', ssufs_create(n)
  PROVE  F!Create(n)
<1>1. PICK i \in Inodes \ inode_freelist :
        /\ inode_freelist' = inode_freelist \cup {i} /\ ret' = i /\ i \in Nat
        /\ inodes'[i].file_size = 0 /\ inodes'[i].name = n
        /\ \A j \in Inodes \ {i} : inodes'[j] = inodes[j]
  BY Creates, Zenon
<1>2. UNCHANGED <<data, handles>> /\ rbuf' = << >>
  BY Creates, Zenon DEF ssufs_create
<1>3. \A j \in inode_freelist : j \in Inodes /\ j # i /\ inodes'[j] = inodes[j]
  BY <1>1 DEF FSTypes
<1>4. Text(i)' = << >>
  BY <1>1 DEF Text
<1>5. ASSUME NEW j \in inode_freelist PROVE Text(j)' = Text(j)
  BY <1>2, <1>3, SameText, Zenon
<1>6. DOMAIN Files' = DOMAIN Files \cup {n} /\ n \notin DOMAIN Files
  BY <1>1, <1>3 DEF View, FilesOK, NamesOK
<1>7. ASSUME NEW m \in DOMAIN Files' PROVE Files'[m] = IF m = n THEN << >> ELSE Files[m]
  BY <1>1, <1>3, <1>4, <1>5, <1>6 DEF View, FilesOK
<1>8. Files' = [m \in DOMAIN Files \cup {n} |-> IF m = n THEN << >> ELSE Files[m]]
  BY <1>6, <1>7, Zenon DEF View, FilesOK
<1>9. Positions' = Positions
  <2>1. ASSUME NEW h \in Handles PROVE Positions'[h] = Positions[h]
    <3>1. Num(h)' = Num(h) /\ Off(h)' = Off(h) /\ (IsOpen(h)' <=> IsOpen(h))
      BY <1>2, Zenon DEF Num, Off, IsOpen
    <3> QED  BY <1>3, <3>1 DEF View, PositionsOK
  <2> QED  BY <2>1, Zenon DEF View, PositionsOK
<1> QED  BY <1>1, <1>2, <1>6, <1>8, <1>9 DEF F!Create

\* delete takes the file away and closes its handle.
LEMMA DeleteView ==
  ASSUME ~DeleteShared, FSInv, CallInv, NamesOK, View, View', NEW n \in Names, ssufs_delete(n)
  PROVE  F!Delete(n)
<1>1. FSTypes
  BY DEF FSInv
<1>2. PICK i \in inode_freelist :
        /\ i \in Inodes /\ NameIs(inodes[i], n) /\ FreeInode(i) /\ ret' = 0 /\ rbuf' = << >>
        /\ \A h \in Handles : handles'[h] = IF Num(h) = i THEN NoHandle ELSE handles[h]
  BY <1>1, Deletes, Zenon
<1>3. /\ inode_freelist' = inode_freelist \ {i}
      /\ \A j \in Inodes \ {i} : inodes'[j] = inodes[j]
      /\ data' = [b \in Blocks |-> IF b \in Range(inodes[i].direct_blocks)
                                      THEN Zeros ELSE data[b]]
  BY <1>1, <1>2, Frees, Zenon
<1>4. inodes[i].name = n /\ \A j \in inode_freelist : inodes[j].name = n => j = i
  BY <1>2 DEF NameIs, NamesOK
<1>5. ASSUME NEW j \in inode_freelist'
      PROVE  /\ inodes'[j] = inodes[j] /\ Text(j)' = Text(j)
             /\ j \in inode_freelist /\ inodes[j].name # n
  <2>1. j \in Inodes \ {i} /\ inodes'[j] = inodes[j] /\ j \in inode_freelist
    BY <1>1, <1>3 DEF FSTypes
  <2>2. Range(inodes[i].direct_blocks) \cap Range(inodes[j].direct_blocks) = {}
    BY Zenon, <1>2, <2>1 DEF FSInv, BlocksOwnedOnce
  <2>3. Range(inodes[j].direct_blocks) \subseteq Blocks
    BY <1>1, <2>1 DEF FSInv, FSTypes, BlocksOwnedOnce
  <2>4. \A b \in Range(inodes[j].direct_blocks) : data'[b] = data[b]
    BY <1>3, <2>2, <2>3
  <2>5. Text(j)' = Text(j)
    BY <1>1, <2>1, <2>4, SameText, Zenon
  <2> QED  BY <1>4, <2>1, <2>5
<1>6. DOMAIN Files' = DOMAIN Files \ {n}
  <2>1. DOMAIN Files' = {inodes'[j].name : j \in inode_freelist'}
    BY DEF View, FilesOK
  <2>2. DOMAIN Files = {inodes[j].name : j \in inode_freelist}
    BY DEF View, FilesOK
  <2> QED  BY <1>3, <1>4, <1>5, <2>1, <2>2
<1>7. ASSUME NEW m \in DOMAIN Files' PROVE Files'[m] = Files[m]
  <2>1. PICK j \in inode_freelist' : m = inodes'[j].name
    BY DEF View, FilesOK
  <2> QED  BY <1>5, <2>1 DEF View, FilesOK
<1>8. Files' = [m \in DOMAIN Files \ {n} |-> Files[m]]
  BY <1>6, <1>7, Zenon DEF View, FilesOK
<1>9. ASSUME NEW h \in Handles
      PROVE  Positions'[h] =
               IF Positions[h] # NONE /\ Positions[h].name = n THEN NONE ELSE Positions[h]
  <2>1. CASE Num(h) = i
    <3>1. handles'[h] = NoHandle
      BY <1>2, <2>1
    <3>2. ~IsOpen(h)'
      BY <3>1 DEF IsOpen, NoHandle
    <3>3. Positions'[h] = NONE
      BY <3>2 DEF View, PositionsOK
    <3>4. Positions[h] # NONE /\ Positions[h].name = n
      BY <1>2, <1>4, <2>1, Numbers DEF View, PositionsOK
    <3> QED  BY <3>3, <3>4
  <2>2. CASE Num(h) # i
    <3>1. handles'[h] = handles[h]
      BY <1>2, <2>2
    <3>2. Num(h)' = Num(h) /\ Off(h)' = Off(h) /\ (IsOpen(h)' <=> IsOpen(h))
      BY <3>1, Zenon DEF Num, Off, IsOpen
    <3>3. CASE Num(h) = -1
      <4>1. Positions[h] = NONE /\ Positions'[h] = NONE
        BY <1>1, <3>2, <3>3, Numbers DEF View, PositionsOK, FSTypes
      <4> QED  BY <4>1
    <3>4. CASE Num(h) \in inode_freelist
      <4>1. Num(h) \in inode_freelist' /\ Num(h) # -1
        BY <1>1, <1>3, <2>2, <3>4, Numbers DEF FSTypes
      <4>2. inodes'[Num(h)].name = inodes[Num(h)].name /\ inodes[Num(h)].name # n
        BY <1>3, <1>1, <1>4, <2>2, <3>4 DEF FSTypes
      <4>3. Positions[h] = [name |-> inodes[Num(h)].name, pos |-> Off(h)]
        BY <4>1 DEF View, PositionsOK
      <4>4. Positions'[h] = Positions[h]
        BY <3>2, <4>1, <4>2, <4>3 DEF View, PositionsOK
      <4> QED  BY <4>2, <4>3, <4>4
    <3> QED  BY <3>3, <3>4 DEF View, PositionsOK
  <2> QED  BY <2>1, <2>2
<1>10. Positions' = [h \in Handles |->
         IF Positions[h] # NONE /\ Positions[h].name = n THEN NONE ELSE Positions[h]]
  BY <1>9, Zenon DEF View, PositionsOK
<1> QED  BY <1>2, <1>8, <1>10, Zenon DEF F!Delete

\* open puts a handle on the beginning of the file.
LEMMA OpenView ==
  ASSUME FSTypes, CallInv, View, View', NEW n \in Names, ssufs_open(n) PROVE F!Open(n)
<1>1. PICK i \in inode_freelist, h \in Handles :
           /\ i \in Inodes /\ NameIs(inodes[i], n) /\ Num(h) = -1
           /\ handles'[h] = [offset |-> Off(h), inode_number |-> i]
           /\ \A g \in Handles \ {h} : handles'[g] = handles[g]
           /\ ret' = h /\ rbuf' = << >> /\ UNCHANGED disk
  BY Opens, Zenon
<1>2. inodes' = inodes /\ inode_freelist' = inode_freelist /\ data' = data
  BY <1>1 DEF disk
<1>3. Files' = Files
  BY <1>2 DEF Files, Text, BytesOf
<1>4. i # -1 /\ i >= 0 /\ inodes[i].name = n
  BY <1>1, Numbers DEF NameIs
<1>5. Off(h) = 0 /\ Positions[h] = NONE
  BY <1>1, Numbers DEF CallInv, HandleOK, FSTypes, View, PositionsOK
<1>6. Positions'[h] = [name |-> n, pos |-> 0]
  <2>1. Num(h)' = i /\ Off(h)' = 0 /\ IsOpen(h)'
    BY <1>1, <1>4, <1>5 DEF Num, Off, IsOpen
  <2> QED  BY <1>2, <1>4, <2>1 DEF View, PositionsOK
<1>7. Positions' = [Positions EXCEPT ![h] = [name |-> n, pos |-> 0]]
  BY <1>1, <1>2, <1>6, SamePositions
<1>8. n \in DOMAIN Files
  BY <1>1, <1>4 DEF View, FilesOK
<1> QED  BY <1>1, <1>3, <1>5, <1>7, <1>8, Zenon DEF F!Open

\* close takes the handle off.
LEMMA CloseView ==
  ASSUME FSTypes, View, View', NEW h \in Handles, ssufs_close(h) PROVE F!Close(h)
<1>1. /\ handles'[h] = NoHandle /\ UNCHANGED disk /\ ret' = 0 /\ rbuf' = << >>
      /\ \A g \in Handles \ {h} : handles'[g] = handles[g]
  BY DEF ssufs_close, FSTypes
<1>2. inodes' = inodes /\ inode_freelist' = inode_freelist /\ data' = data
  BY <1>1 DEF disk
<1>3. Files' = Files
  BY <1>2 DEF Files, Text, BytesOf
<1>4. Positions'[h] = NONE
  <2>1. ~IsOpen(h)'
    BY <1>1 DEF IsOpen, NoHandle
  <2> QED  BY <2>1 DEF View, PositionsOK
<1>5. Positions' = [Positions EXCEPT ![h] = NONE]
  BY <1>1, <1>2, <1>4, SamePositions
<1> QED  BY <1>1, <1>3, <1>5, Zenon DEF F!Close

\* A handle that moves in its file, and what it is a position in.
LEMMA MoveView ==
  ASSUME FSTypes, CallInv, View, View', NEW h \in Handles, IsOpen(h), NEW m \in Nat,
         handles' = [handles EXCEPT ![h].offset = m], UNCHANGED inode_freelist,
         \A i \in inode_freelist : inodes'[i].name = inodes[i].name
  PROVE  /\ Num(h) \in inode_freelist /\ Positions[h] # NONE
         /\ Positions[h].name = inodes[Num(h)].name /\ Positions[h].pos = Off(h)
         /\ inodes[Num(h)].name \in DOMAIN Files /\ F!Content(h) = Text(Num(h))
         /\ Positions' = [Positions EXCEPT ![h].pos = m]
<1>1. /\ handles'[h] = [offset |-> m, inode_number |-> Num(h)]
      /\ \A g \in Handles \ {h} : handles'[g] = handles[g]
  BY Zenon, Moves
<1>2. /\ Num(h) \in inode_freelist /\ Positions[h] # NONE
      /\ Positions[h] = [name |-> inodes[Num(h)].name, pos |-> Off(h)]
  BY DEF View, PositionsOK
<1>3. Positions[h].name = inodes[Num(h)].name /\ Positions[h].pos = Off(h)
  BY <1>2
<1>4. inodes[Num(h)].name \in DOMAIN Files /\ F!Content(h) = Text(Num(h))
  BY <1>2, <1>3 DEF View, FilesOK, F!Content
<1>5. Positions'[h] = [Positions[h] EXCEPT !.pos = m]
  <2>1. Num(h)' = Num(h) /\ Off(h)' = m /\ IsOpen(h)'
    BY <1>1 DEF Num, Off, IsOpen
  <2>2. Positions'[h] = [name |-> inodes[Num(h)].name, pos |-> m]
    BY <1>2, <2>1 DEF View, PositionsOK
  <2> QED  BY <1>2, <2>2
<1>6. Positions' = [Positions EXCEPT ![h] = Positions'[h]]
  BY <1>1, SamePositions
<1>7. Positions' = [Positions EXCEPT ![h].pos = m]
  BY <1>5, <1>6
<1> QED  BY <1>2, <1>3, <1>4, <1>7

\* read returns the text from the position on.
LEMMA ReadView ==
  ASSUME FSTypes, CallInv, View, View', NEW h \in Handles, NEW n \in 0..MaxBytes,
         ssufs_read(h, n)
  PROVE  F!Read(h, n)
<1> DEFINE i == Num(h)
           z == inodes[i].file_size
           p == Off(h)
           B == BytesOf(data, inodes[i].direct_blocks)
<1>1. /\ IsOpen(h) /\ p + n \in Nat /\ p + n <= z /\ p \in Nat /\ n \in Nat
      /\ handles' = [handles EXCEPT ![h].offset = p + n] /\ UNCHANGED disk
  BY ReadMoves, OpenHandle, FSAssumption DEF MaxBytes
<1>2. inodes' = inodes /\ inode_freelist' = inode_freelist /\ data' = data
  BY <1>1 DEF disk
<1>3. Files' = Files
  BY <1>2 DEF Files, Text, BytesOf
<1>4. /\ i \in inode_freelist /\ Positions[h] # NONE /\ Positions[h].pos = p
      /\ F!Content(h) = Text(i) /\ Positions' = [Positions EXCEPT ![h].pos = p + n]
  BY Zenon, <1>1, <1>2, MoveView
<1>5. z \in Nat /\ Text(i) = [j \in 1..z |-> B[j]] /\ Len(Text(i)) = z
  BY <1>4, TextIs
<1>6. rbuf' = SubSeq(B, p + 1, p + n) /\ ret' = 0
  BY DEF ssufs_read, Num, Off, Ino
<1> HIDE DEF i, z, p, B
<1>7. SubSeq(B, p + 1, p + n) = SubSeq([j \in 1..z |-> B[j]], p + 1, p + n)
  <2> DEFINE T == [j \in 1..z |-> B[j]]
  <2>1. SubSeq(B, p + 1, p + n) = [j \in 1..n |-> B[j + p]]
    BY <1>1
  <2>2. \A j \in 1..n : j + p \in 1..z
    BY <1>1, <1>5
  <2>3. \A j \in 1..n : T[j + p] = B[j + p]
    BY <2>2
  <2> HIDE DEF T
  <2>4. SubSeq(T, p + 1, p + n) = [j \in 1..n |-> T[j + p]]
    BY <1>1
  <2> QED  BY Zenon, <2>1, <2>3, <2>4 DEF T
<1> QED  BY Zenon, <1>1, <1>3, <1>4, <1>5, <1>6, <1>7 DEF F!Read

\* lseek moves the position inside the text.
LEMMA SeekView ==
  ASSUME FSTypes, CallInv, View, View', NEW h \in Handles, NEW k \in Int, ssufs_lseek(h, k)
  PROVE  F!Seek(h, k)
<1> DEFINE i == Num(h)
           z == inodes[i].file_size
           p == Off(h)
<1>1. /\ IsOpen(h) /\ p + k \in Nat /\ p + k <= z /\ p \in Nat
      /\ handles' = [handles EXCEPT ![h].offset = p + k] /\ UNCHANGED disk
  BY SeekMoves, OpenHandle
<1>2. inodes' = inodes /\ inode_freelist' = inode_freelist /\ data' = data
  BY <1>1 DEF disk
<1>3. Files' = Files
  BY <1>2 DEF Files, Text, BytesOf
<1>4. /\ i \in inode_freelist /\ Positions[h] # NONE /\ Positions[h].pos = p
      /\ F!Content(h) = Text(i) /\ Positions' = [Positions EXCEPT ![h].pos = p + k]
  BY Zenon, <1>1, <1>2, MoveView
<1>5. z \in Nat /\ Len(Text(i)) = z
  BY <1>4, TextIs
<1>6. ret' = 0 /\ rbuf' = << >>
  BY DEF ssufs_lseek
<1> HIDE DEF i, z, p
<1> QED  BY <1>1, <1>3, <1>4, <1>5, <1>6 DEF F!Seek

\* What the abstract write puts together, byte by byte.
LEMMA Spliced ==
  ASSUME NEW z \in Nat, NEW S, NEW c \in [1..z -> S], NEW p \in 0..z, NEW n \in Nat, NEW v \in S
  PROVE  SubSeq(c, 1, p) \o [k \in 1..n |-> v] \o SubSeq(c, p + n + 1, z) =
           [j \in 1..(IF z < p + n THEN p + n ELSE z) |->
              IF j \in (p + 1)..(p + n) THEN v ELSE c[j]]
<1> DEFINE a == SubSeq(c, 1, p)
           s == [k \in 1..n |-> v]
           e == SubSeq(c, p + n + 1, z)
           l == IF z < p + n THEN 0 ELSE z - (p + n)
<1>1. p \in Nat /\ p <= z /\ l \in Nat /\ p + n + l = IF z < p + n THEN p + n ELSE z
  OBVIOUS
<1>2. a = [j \in 1..p |-> c[j]]
  BY <1>1
<1>3. e = [j \in 1..l |-> c[j + (p + n)]]
  <2>1. e = [j \in 1..(1 + z - (p + n + 1)) |-> c[j + (p + n + 1) - 1]]
    BY <1>1
  <2>2. 1..(1 + z - (p + n + 1)) = 1..l
    BY <1>1
  <2>3. \A j \in 1..l : j + (p + n + 1) - 1 = j + (p + n)
    BY <1>1
  <2> HIDE DEF l, e
  <2> QED  BY <2>1, <2>2, <2>3
<1>4. \A j \in 1..l : j + (p + n) \in 1..z
  BY <1>1
<1> HIDE DEF l
<1>5. a \in Seq(S) /\ Len(a) = p /\ \A j \in 1..p : a[j] = c[j]
  <2>1. \A j \in 1..p : j \in 1..z
    BY <1>1
  <2> HIDE DEF a
  <2>2. a \in [1..p -> S]
    BY <1>2, <2>1
  <2> QED  BY <1>1, <1>2, <2>2
<1>6. s \in Seq(S) /\ Len(s) = n /\ \A j \in 1..n : s[j] = v
  OBVIOUS
<1>7. e \in Seq(S) /\ Len(e) = l /\ \A j \in 1..l : e[j] = c[j + (p + n)]
  <2>1. e \in [1..l -> S]
    BY Zenon, <1>3, <1>4
  <2> HIDE DEF e
  <2> QED  BY <1>1, <1>3, <2>1
<1> HIDE DEF a, s, e
<1>8. /\ a \o s \in Seq(S) /\ Len(a \o s) = p + n
      /\ \A j \in 1..p : (a \o s)[j] = c[j]
      /\ \A j \in (p + 1)..(p + n) : (a \o s)[j] = v
  <2>1. a \o s \in Seq(S) /\ Len(a \o s) = p + n
    BY <1>5, <1>6
  <2>2. ASSUME NEW j \in (p + 1)..(p + n) PROVE (a \o s)[j] = v
    <3>1. j - p \in 1..n /\ j \in 1..(p + n) /\ ~(j <= p)
      BY <1>1
    <3>2. (a \o s)[j] = s[j - p]
      BY <1>1, <1>5, <1>6, <3>1
    <3> QED  BY <1>6, <3>1, <3>2
  <2>3. ASSUME NEW j \in 1..p PROVE (a \o s)[j] = c[j]
    BY <1>1, <1>5, <1>6
  <2> QED  BY <2>1, <2>2, <2>3
<1> DEFINE t == a \o s
<1> HIDE DEF t
<1>9. /\ t \o e = [j \in 1..(p + n + l) |-> (t \o e)[j]]
      /\ \A j \in 1..(p + n) : (t \o e)[j] = t[j]
      /\ \A j \in (p + n + 1)..(p + n + l) : (t \o e)[j] = c[j]
  <2>1. t \in Seq(S) /\ Len(t) = p + n
    BY <1>8 DEF t
  <2>2. t \o e \in Seq(S) /\ Len(t \o e) = p + n + l
    <3>1. e \in Seq(S) /\ Len(e) = l
      BY <1>7
    <3>2. t \o e \in Seq(S) /\ Len(t \o e) = Len(t) + Len(e)
      BY <2>1, <3>1
    <3> QED  BY <2>1, <3>1, <3>2
  <2>3. ASSUME NEW j \in (p + n + 1)..(p + n + l) PROVE (t \o e)[j] = c[j]
    <3>1. j - (p + n) \in 1..l /\ j \in 1..(p + n + l) /\ ~(j <= p + n)
      BY <1>1
    <3>2. (t \o e)[j] = e[j - (p + n)]
      BY <1>1, <1>7, <2>1, <3>1
    <3>3. (j - (p + n)) + (p + n) = j
      BY <1>1
    <3> QED  BY <1>7, <3>1, <3>2, <3>3
  <2>4. ASSUME NEW j \in 1..(p + n) PROVE (t \o e)[j] = t[j]
    BY <1>1, <1>7, <2>1
  <2>5. t \o e = [j \in 1..(p + n + l) |-> (t \o e)[j]]
    <3> DEFINE u == t \o e
    <3>1. u \in Seq(S) /\ Len(u) = p + n + l
      BY <2>2
    <3> HIDE DEF u
    <3>2. u = [j \in 1..Len(u) |-> u[j]]
      BY <3>1
    <3> QED  BY <3>1, <3>2 DEF u
  <2> QED  BY Zenon, <2>3, <2>4, <2>5
<1>10. ASSUME NEW j \in 1..(p + n + l)
       PROVE  (t \o e)[j] = IF j \in (p + 1)..(p + n) THEN v ELSE c[j]
  <2>1. CASE j \in (p + 1)..(p + n)
    <3>1. j \in 1..(p + n)
      BY <1>1, <2>1
    <3> QED  BY <1>8, <1>9, <2>1, <3>1 DEF t
  <2>2. CASE j \in 1..p
    <3>1. j \in 1..(p + n) /\ j \notin (p + 1)..(p + n)
      BY <1>1, <2>2
    <3> QED  BY <1>8, <1>9, <2>2, <3>1 DEF t
  <2>3. CASE j \in (p + n + 1)..(p + n + l)
    <3>1. j \notin (p + 1)..(p + n)
      BY <1>1, <2>3
    <3> QED  BY Zenon, <1>9, <2>3, <3>1
  <2>4. j \in (p + 1)..(p + n) \/ j \in 1..p \/ j \in (p + n + 1)..(p + n + l)
    BY <1>1
  <2> QED  BY Zenon, <2>1, <2>2, <2>3, <2>4
<1>11. t \o e = [j \in 1..(p + n + l) |-> IF j \in (p + 1)..(p + n) THEN v ELSE c[j]]
  BY <1>9, <1>10, Zenon
<1> QED  BY Zenon, <1>1, <1>11 DEF t, a, s, e

\* What was stored is what the blocks hold.
LEMMA StoredBytes ==
  ASSUME NEW blocks \in Seq(Blocks), IsInjective(blocks), NEW buf,
         NEW j \in 1..(BLOCKSIZE * Len(blocks))
  PROVE  BytesOf(Stored(blocks, buf), blocks)[j] = buf[j]
<1> DEFINE q == (j - 1) \div BLOCKSIZE
           r == (j - 1) % BLOCKSIZE
           d == Stored(blocks, buf)
           at == CHOOSE k \in DOMAIN blocks : blocks[k] = blocks[q + 1]
<1>1. q + 1 \in DOMAIN blocks /\ r + 1 \in 1..BLOCKSIZE /\ j = q * BLOCKSIZE + (r + 1) /\ q \in Int
  <2>1. Len(blocks) \in Nat /\ DOMAIN blocks = 1..Len(blocks)
    OBVIOUS
  <2> QED  BY <2>1, Place, FSAssumption
<1>2. BytesOf(d, blocks)[j] = d[blocks[q + 1]][r + 1]
  BY DEF BytesOf
<1> HIDE DEF q, r
<1>3. blocks[q + 1] \in Blocks /\ blocks[q + 1] \in Range(blocks)
  BY <1>1 DEF Range
<1>4. d[blocks[q + 1]] = [l \in 1..BLOCKSIZE |-> buf[(at - 1) * BLOCKSIZE + l]]
  BY <1>3, Zenon DEF Stored
<1>5. at = q + 1
  BY <1>1 DEF IsInjective
<1>6. (at - 1) * BLOCKSIZE + (r + 1) = j
  <2> HIDE DEF at
  <2>1. at - 1 = q
    BY <1>1, <1>5
  <2> QED  BY <1>1, <2>1
<1> HIDE DEF at, d
<1> QED  BY <1>1, <1>2, <1>4, <1>6 DEF d

\* A write puts the bytes into its own file, at the handle's position, and
\* leaves the text of every other file.
LEMMA WriteText ==
  ASSUME FSInv, CallInv, CallInv', NEW h \in Handles, NEW n \in 0..MaxBytes, NEW v,
         ssufs_write(h, n, v), NEW i \in Inodes, i = Num(h)
  PROVE  /\ Text(i)' = SubSeq(Text(i), 1, Off(h)) \o [k \in 1..n |-> v]
                         \o SubSeq(Text(i), Off(h) + n + 1, Len(Text(i)))
         /\ \A j \in inode_freelist \ {i} : Text(j)' = Text(j)
<1> DEFINE p == Off(h)
           s == inodes[i].direct_blocks
           z == inodes[i].file_size
           c == Text(i)
<1>1. FSTypes /\ BlocksOwnedOnce /\ p \in Nat /\ n \in Nat /\ p + n \in Nat
  BY Writes DEF FSInv
<1>2. PICK new \in NewBlocks(inodes[i], p + n) :
        Grown(h, n, new) /\ data' = Stored(s \o new, Patched(s \o new, p, n, v))
  BY <1>1, Writes, Zenon
<1> DEFINE blocks == s \o new
           y == IF z < p + n THEN p + n ELSE z
           old == BytesOf(Cleared, blocks)
           B == BytesOf(data', blocks)
<1>3. new \in Seq(Blocks) /\ Range(new) \subseteq FreeBlocks /\ IsInjective(new)
  BY <1>1, <1>2, Taken, Zenon
<1>4. i \in inode_freelist /\ p <= z
  BY Numbers DEF CallInv, HandleOK
<1>5. /\ s \in Seq(Blocks) /\ z \in Nat /\ z <= BLOCKSIZE * Len(s) /\ Len(c) = z
      /\ c = [j \in 1..z |-> BytesOf(data, s)[j]]
  BY <1>1, <1>4, TextIs
<1>6. \A j \in Inodes : Range(inodes[j].direct_blocks) \subseteq datablock_freelist
  BY <1>1, Zenon DEF BlocksOwnedOnce
<1>7. /\ inode_freelist' = inode_freelist /\ inodes'[i].direct_blocks = blocks
      /\ inodes'[i].file_size = y
      /\ \A j \in Inodes \ {i} : inodes'[j] = inodes[j]
  BY <1>2, Zenon DEF Grown
<1>8. /\ blocks \in Seq(Blocks) /\ Range(blocks) = Range(s) \cup Range(new) /\ IsInjective(blocks)
      /\ Len(blocks) = Len(s) + Len(new) /\ Len(s) \in Nat /\ Len(new) \in Nat
      /\ \A k \in 1..Len(s) : blocks[k] = s[k]
  <2>1. IsInjective(s) /\ Range(s) \cap Range(new) = {}
    BY <1>1, <1>3, <1>6 DEF BlocksOwnedOnce, FreeBlocks
  <2>2. Range(blocks) = Range(s) \cup Range(new) /\ IsInjective(blocks)
    BY <1>3, <1>5, <2>1, Appended, Zenon
  <2>3. s \in Seq(Blocks) /\ new \in Seq(Blocks)
    BY <1>3, <1>5
  <2> HIDE DEF s
  <2>4. /\ blocks \in Seq(Blocks) /\ Len(blocks) = Len(s) + Len(new)
        /\ Len(s) \in Nat /\ Len(new) \in Nat
        /\ \A k \in 1..Len(s) : blocks[k] = s[k]
    BY <2>3
  <2> HIDE DEF blocks
  <2> QED  BY <2>2, <2>4
<1>9. y \in Nat /\ y <= BLOCKSIZE * Len(blocks)
  <2>1. FileOK(i)'
    BY <1>4, <1>7, Zenon DEF CallInv
  <2>2. y <= Len(blocks) * BLOCKSIZE
    BY <1>7, <2>1, Zenon DEF FileOK, Fits
  <2>3. Len(blocks) \in Nat /\ Len(blocks) * BLOCKSIZE = BLOCKSIZE * Len(blocks)
    <3> HIDE DEF blocks
    <3> QED  BY <1>8, FSAssumption
  <2> QED  BY <1>1, <1>5, <2>2, <2>3
<1>10. Text(i)' = [j \in 1..y |-> B[j]]
  <2>1. Text(i)' = SubSeq(B, 1, y)
    BY <1>7, Zenon DEF Text, BytesOf
  <2> HIDE DEF B, y
  <2> QED  BY <1>9, <2>1
<1>11. ASSUME NEW j \in 1..(BLOCKSIZE * Len(blocks))
       PROVE  B[j] = IF j \in (p + 1)..(p + n) THEN v ELSE old[j]
  <2> DEFINE buf == Patched(blocks, p, n, v)
  <2>1. buf[j] = IF j \in (p + 1)..(p + n) THEN v ELSE old[j]
    BY DEF Patched
  <2> HIDE DEF buf
  <2>2. BytesOf(Stored(blocks, buf), blocks)[j] = buf[j]
    BY Zenon, <1>8, StoredBytes
  <2> QED  BY <1>2, <2>1, <2>2, Zenon DEF buf
<1>12. ASSUME NEW j \in 1..z PROVE old[j] = BytesOf(data, s)[j]
  <2> DEFINE q == ((j - 1) \div BLOCKSIZE) + 1
             r == ((j - 1) % BLOCKSIZE) + 1
  <2> HIDE DEF s, blocks
  <2>1. j \in 1..(BLOCKSIZE * Len(s)) /\ q \in 1..Len(s)
    <3>1. Len(s) \in Nat /\ z \in Nat /\ z <= BLOCKSIZE * Len(s)
      BY <1>5, <1>8
    <3>2. BLOCKSIZE * Len(s) \in Nat
      BY <3>1, FSAssumption
    <3>3. j \in 1..(BLOCKSIZE * Len(s))
      BY <3>1, <3>2
    <3> QED  BY <3>1, <3>3, Place
  <2>2. BytesOf(data, s)[j] = data[s[q]][r]
    BY <2>1, Zenon DEF BytesOf
  <2>3. j \in 1..(BLOCKSIZE * Len(blocks))
    <3>1. BLOCKSIZE * (Len(s) + Len(new)) = BLOCKSIZE * Len(s) + BLOCKSIZE * Len(new)
      BY <1>8, FSAssumption
    <3>2. BLOCKSIZE * Len(s) \in Nat /\ BLOCKSIZE * Len(new) \in Nat
      BY <1>8, FSAssumption
    <3> QED  BY <1>8, <2>1, <3>1, <3>2
  <2>4. old[j] = Cleared[blocks[q]][r]
    BY <2>3, Zenon DEF BytesOf
  <2> HIDE DEF q, r
  <2>5. blocks[q] = s[q] /\ s[q] \in Range(s) /\ s[q] \in Blocks
    BY <1>5, <1>8, <2>1 DEF Range
  <2>6. s[q] \notin FreeBlocks
    BY <1>6, <2>5 DEF FreeBlocks, s
  <2>7. Cleared[s[q]] = data[s[q]]
    BY <2>5, <2>6, Zenon DEF Cleared
  <2> QED  BY <2>2, <2>4, <2>5, <2>7, Zenon
<1>13. ASSUME NEW j \in 1..y PROVE B[j] = IF j \in (p + 1)..(p + n) THEN v ELSE c[j]
  <2> DEFINE l == BLOCKSIZE * Len(blocks)
  <2>1. l \in Nat /\ y <= l
    <3>1. Len(blocks) \in Nat
      <4> HIDE DEF blocks
      <4> QED  BY <1>8
    <3> HIDE DEF blocks, y
    <3> QED  BY <1>9, <3>1, FSAssumption
  <2>2. j \in 1..l
    <3> HIDE DEF l, y
    <3> QED  BY <1>9, <2>1
  <2>3. j \in (p + 1)..(p + n) \/ j \in 1..z
    <3> HIDE DEF p, z
    <3> QED  BY <1>1, <1>4, <1>5
  <2> HIDE DEF B, old, p, z, blocks
  <2>4. CASE j \in (p + 1)..(p + n)
    BY <1>11, <2>2, <2>4, Zenon
  <2>5. CASE j \in 1..z
    <3>1. c[j] = BytesOf(data, s)[j]
      BY <1>5, <2>5, Zenon
    <3> QED  BY <1>11, <1>12, <2>2, <2>5, <3>1, Zenon
  <2> QED  BY <2>3, <2>4, <2>5
<1>14. Text(i)' = [j \in 1..y |-> IF j \in (p + 1)..(p + n) THEN v ELSE c[j]]
  BY <1>10, <1>13, Zenon
<1>15. Text(i)' = SubSeq(c, 1, p) \o [k \in 1..n |-> v] \o SubSeq(c, p + n + 1, z)
  <2> DEFINE S == {c[j] : j \in 1..z} \cup {v}
  <2>1. c \in [1..z -> S] /\ v \in S
    <3> HIDE DEF z, c
    <3> QED  BY <1>5
  <2>2. p \in 0..z
    BY <1>1, <1>4, <1>5
  <2>3. z \in Nat /\ n \in Nat
    BY <1>1, <1>5
  <2> HIDE DEF c, z, p, S
  <2>4. SubSeq(c, 1, p) \o [k \in 1..n |-> v] \o SubSeq(c, p + n + 1, z) =
          [j \in 1..(IF z < p + n THEN p + n ELSE z) |->
             IF j \in (p + 1)..(p + n) THEN v ELSE c[j]]
    BY <2>1, <2>2, <2>3, Spliced
  <2> QED  BY <1>14, <2>4, Zenon
<1>16. ASSUME NEW j \in inode_freelist \ {i} PROVE Text(j)' = Text(j)
  <2>1. j \in Inodes \ {i} /\ inodes'[j] = inodes[j]
    BY <1>1, <1>7 DEF FSTypes
  <2>2. ASSUME NEW b \in Range(inodes[j].direct_blocks) PROVE data'[b] = data[b]
    <3>1. b \in Blocks /\ b \notin Range(s) /\ b \notin Range(new)
      BY Zenon, <1>1, <1>3, <1>6, <2>1 DEF BlocksOwnedOnce, FSTypes, FreeBlocks
    <3>2. b \notin Range(blocks)
      BY <1>8, <3>1, Zenon
    <3> HIDE DEF blocks
    <3> QED  BY <1>2, <3>1, <3>2, Zenon DEF Stored, blocks
  <2> QED  BY <1>1, <2>1, <2>2, SameText, Zenon
<1> QED  BY <1>5, <1>15, <1>16, Zenon

\* write replaces or appends the text at the position.
LEMMA WriteView ==
  ASSUME FSInv, CallInv, CallInv', NamesOK, View, View', NEW h \in Handles,
         NEW n \in 0..MaxBytes, NEW v, ssufs_write(h, n, v)
  PROVE  F!Write(h, [k \in 1..n |-> v])
<1> DEFINE p == Off(h)
           s == [k \in 1..n |-> v]
<1>1. FSTypes /\ p \in Nat /\ n \in Nat /\ p + n \in Nat
  BY Writes DEF FSInv
<1>2. PICK i \in Inodes : i = Num(h)
  BY <1>1, Writes
<1>3. PICK new \in NewBlocks(inodes[i], p + n) : Grown(h, n, new)
  BY <1>1, <1>2, Writes, Zenon
<1>4. /\ inode_freelist' = inode_freelist /\ inodes'[i].name = inodes[i].name
      /\ \A j \in Inodes \ {i} : inodes'[j] = inodes[j]
      /\ handles' = [handles EXCEPT ![h].offset = p + n]
  BY <1>2, <1>3, Zenon DEF Grown
<1>5. IsOpen(h) /\ p + n <= MaxBytes /\ ret' = 0 /\ rbuf' = << >>
  BY DEF ssufs_write, Off
<1>6. \A j \in inode_freelist : inodes'[j].name = inodes[j].name
  BY <1>1, <1>4 DEF FSTypes
<1>7. /\ i \in inode_freelist /\ Positions[h] # NONE /\ Positions[h].name = inodes[i].name
      /\ Positions[h].pos = p /\ F!Content(h) = Text(i)
      /\ Positions' = [Positions EXCEPT ![h].pos = p + n]
  BY Zenon, <1>1, <1>2, <1>4, <1>5, <1>6, MoveView
<1>8. /\ Text(i)' = SubSeq(Text(i), 1, p) \o s \o SubSeq(Text(i), p + n + 1, Len(Text(i)))
      /\ \A j \in inode_freelist \ {i} : Text(j)' = Text(j)
  BY <1>2, WriteText, Zenon
<1>9. Files' = [Files EXCEPT ![inodes[i].name] = Text(i)']
  BY <1>4, <1>6, <1>7, <1>8, SameFiles, Zenon
<1>10. Len(s) = n
  <2>1. s \in [1..n -> {v}]
    OBVIOUS
  <2> HIDE DEF s
  <2> QED  BY <1>1, <2>1
<1> HIDE DEF p, s
<1> QED  BY <1>5, <1>7, <1>8, <1>9, <1>10, Zenon DEF F!Write, s

\* A name create did not find is no name of a file.
LEMMA NoSuchName ==
  ASSUME FullNames = {}, LongNames = {}, NEW n, open_namei(n) = {}, NEW i \in inode_freelist
  PROVE  inodes[i].name # n
BY DEF open_namei, NameIs

\* Names stay short and unique.
LEMMA NextNames ==
  ASSUME FullNames = {}, LongNames = {}, FSTypes, NamesOK, [Next]_vars PROVE NamesOK'
<1>1. CASE UNCHANGED <<inode_freelist, inodes>>
  BY <1>1, Zenon DEF NamesOK
<1>2. CASE UNCHANGED <<disk, handles>> \/ UNCHANGED disk
  BY <1>1, <1>2, Zenon DEF disk
<1>3. ASSUME NEW n \in Names, ssufs_create(n) PROVE NamesOK'
  <2>1. PICK i \in Inodes \ inode_freelist :
          /\ inode_freelist' = inode_freelist \cup {i} /\ inodes'[i].name = n
          /\ \A j \in Inodes \ {i} : inodes'[j] = inodes[j]
    BY <1>3, Creates, Zenon
  <2>2. \A j \in inode_freelist : j # i /\ inodes'[j] = inodes[j] /\ inodes[j].name # n
    BY <1>3, <2>1, NoSuchName DEF FSTypes, ssufs_create
  <2> QED  BY <2>1, <2>2 DEF NamesOK
<1>4. ASSUME NEW n \in Names, ssufs_delete(n) PROVE NamesOK'
  <2>1. PICK i \in Inodes : FreeInode(i)
    BY <1>4, Deletes, Zenon
  <2>2. inode_freelist' = inode_freelist \ {i} /\ \A j \in Inodes \ {i} : inodes'[j] = inodes[j]
    BY <2>1, Frees, Zenon
  <2> QED  BY <2>2 DEF NamesOK, FSTypes
<1>5. ASSUME NEW n \in Names, create_fails(n) \/ open_fails(n) \/ ssufs_open(n) PROVE NamesOK'
  BY <1>2, <1>5, Zenon DEF create_fails, open_fails, ssufs_open, Fail
<1>6. ASSUME NEW h \in Handles, ssufs_close(h) PROVE NamesOK'
  BY <1>2, <1>6, Zenon DEF ssufs_close
<1>7. ASSUME NEW h \in Handles, NEW n, read_fails(h, n) \/ write_fails(h, n) \/ ssufs_read(h, n)
      PROVE  NamesOK'
  BY <1>2, <1>7, Zenon DEF read_fails, write_fails, ssufs_read, Fail
<1>8. ASSUME NEW h \in Handles, NEW n, write_full(h, n) PROVE NamesOK'
  BY <1>1, <1>8, Zenon DEF write_full
<1>9. ASSUME NEW h \in Handles, NEW n \in 0..MaxBytes, NEW v, ssufs_write(h, n, v) PROVE NamesOK'
  <2>1. PICK new : Grown(h, n, new)
    BY <1>9, Writes, Zenon
  <2>2. /\ inode_freelist' = inode_freelist /\ inodes'[Num(h)].name = inodes[Num(h)].name
        /\ \A j \in Inodes \ {Num(h)} : inodes'[j] = inodes[j]
    BY <2>1, Zenon DEF Grown
  <2>3. \A j \in inode_freelist : inodes'[j].name = inodes[j].name
    BY <2>2 DEF FSTypes
  <2> QED  BY <2>2, <2>3 DEF NamesOK
<1>10. ASSUME NEW h \in Handles, NEW k, seek_fails(h, k) \/ ssufs_lseek(h, k) PROVE NamesOK'
  BY <1>2, <1>10, Zenon DEF seek_fails, ssufs_lseek, Fail
<1>11. CASE UNCHANGED vars
  BY <1>1, <1>11 DEF vars, disk
<1> QED  BY <1>3, <1>4, <1>5, <1>6, <1>7, <1>8, <1>9, <1>10, <1>11, Zenon DEF Next

\* Every call is a step of the file service, or a refusal.
LEMMA NextView ==
  ASSUME ~DeleteShared, FullNames = {}, LongNames = {}, FSInv, CallInv, CallInv', NamesOK, NamesOK',
         View, View', [Next]_vars
  PROVE  [F!Next]_(F!vars)
<1>1. FSTypes /\ Names = ShortNames
  BY DEF FSInv, Names
<1>2. ASSUME Fail PROVE F!Refused
  BY <1>2, SameView DEF Fail, F!Refused
<1>3. ASSUME NEW n \in Names, create_fails(n) \/ open_fails(n) PROVE F!Next
  <2>1. F!Refused
    BY <1>2, <1>3 DEF create_fails, open_fails
  <2> QED  BY <2>1, Zenon DEF F!Next
<1>4. ASSUME NEW n \in Names, ssufs_create(n) \/ ssufs_delete(n) \/ ssufs_open(n) PROVE F!Next
  <2>1. F!Create(n) \/ F!Delete(n) \/ F!Open(n)
    BY <1>1, <1>4, CreateView, DeleteView, OpenView
  <2> QED  BY <1>1, <2>1, Zenon DEF F!Next
<1>5. ASSUME NEW h \in Handles, ssufs_close(h) PROVE F!Next
  BY <1>1, <1>5, CloseView, Zenon DEF F!Next
<1>6. ASSUME NEW h \in Handles, NEW n \in 0..MaxBytes,
             read_fails(h, n) \/ write_fails(h, n) \/ write_full(h, n)
      PROVE  F!Next
  <2>1. F!Refused
    BY <1>2, <1>6, FullView DEF read_fails, write_fails
  <2> QED  BY <2>1, Zenon DEF F!Next
<1>7. ASSUME NEW h \in Handles, NEW n \in 0..MaxBytes, ssufs_read(h, n) PROVE F!Next
  BY <1>1, <1>7, ReadView, Zenon DEF F!Next
<1>8. ASSUME NEW h \in Handles, NEW n \in 0..MaxBytes, NEW v \in Values, ssufs_write(h, n, v)
      PROVE  F!Next
  <2>1. F!Write(h, [k \in 1..n |-> v])
    BY Zenon, <1>8, WriteView
  <2>2. [k \in 1..n |-> v] \in Texts
    BY DEF Texts
  <2> QED  BY <2>1, <2>2, Zenon DEF F!Next
<1>9. ASSUME NEW h \in Handles, NEW k \in -MaxBytes..MaxBytes, seek_fails(h, k) \/ ssufs_lseek(h, k)
      PROVE  F!Next
  <2>1. k \in Int
    BY FSAssumption DEF MaxBytes
  <2>2. F!Refused \/ F!Seek(h, k)
    BY <1>1, <1>2, <1>9, <2>1, SeekView DEF seek_fails
  <2> QED  BY <2>2, Zenon DEF F!Next
<1>10. CASE UNCHANGED vars
  <2>1. UNCHANGED <<disk, handles>> /\ ret' = ret /\ rbuf' = rbuf
    BY <1>10 DEF vars
  <2> QED  BY <2>1, SameView DEF F!vars
<1>11. CASE Next
  BY <1>3, <1>4, <1>5, <1>6, <1>7, <1>8, <1>9, <1>11, Zenon DEF Next
<1> QED  BY <1>10, <1>11

\* The calls of ssufs, on any disk, are those of a file service: what is read
\* is what was last written there, through whatever handle and blocks, a call
\* that is refused changes nothing, also when the disk fills up half way.
\* Callers use names shorter than MAX_NAME_STRLEN and close all but one handle
\* on a file before they delete it.
THEOREM FilesAreImplemented ==
  ASSUME ~DeleteShared, FullNames = {}, LongNames = {}
  PROVE  Spec => ImplementsFiles
<1> DEFINE Inv == FSInv /\ CallInv /\ NamesOK
<1>1. ssufs_formatDisk => Inv
  BY FormatFS, FormatCalls DEF ssufs_formatDisk, NamesOK
<1>2. Inv /\ [Next]_vars => Inv'
  BY NextFS, NextCalls, NextNames DEF FSInv
<1>3. Inv => View
  BY ViewHolds DEF View, FSInv
<1>4. ssufs_formatDisk => F!Init
  <2> SUFFICES ASSUME ssufs_formatDisk PROVE F!Init
    OBVIOUS
  <2>1. Files = << >>
    BY DEF ssufs_formatDisk, Files
  <2>2. Positions = [h \in Handles |-> NONE]
    BY DEF ssufs_formatDisk, Positions, IsOpen, NoHandle
  <2> QED  BY <2>1, <2>2 DEF F!Init, ssufs_formatDisk
<1>5. Inv /\ Inv' /\ View /\ View' /\ [Next]_vars => [F!Next]_(F!vars)
  BY NextView
<1> HIDE DEF Inv
<1> QED  BY <1>1, <1>2, <1>3, <1>4, <1>5, PTL DEF Spec, ImplementsFiles, F!Spec
=============================================================================
