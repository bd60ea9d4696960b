------------------------------- MODULE SSUFS --------------------------------
(***************************************************************************)
(* The file system of design 6: ssufs-ops.c on top of ssufs-disk.c.  The   *)
(* disk holds a superblock with two free lists, NUM_INODES inodes and      *)
(* NUM_DATA_BLOCKS blocks; open files are entries of file_handle_array.    *)
(* Every call runs to its end before the next.                             *)
(*                                                                         *)
(* The used entries of direct_blocks are always a prefix, so the model     *)
(* keeps them as a sequence.  A name of MAX_NAME_STRLEN characters leaves  *)
(* no room for its terminator in the inode; a longer one is cut.           *)
(***************************************************************************)
EXTENDS Integers, Sequences, FiniteSets, Functions

CONSTANTS
  BLOCKSIZE, NUM_DATA_BLOCKS, NUM_INODES, MAX_FILE_SIZE, MAX_OPEN_FILES,
  ShortNames,      \* shorter than MAX_NAME_STRLEN
  FullNames,       \* exactly MAX_NAME_STRLEN
  LongNames,       \* longer: cut to the full name Cut
  Cut,
  Values,          \* byte values written; a write repeats one of them
  DeleteShared,    \* callers may delete a file that is open more than once
  NONE

Names   == ShortNames \cup FullNames \cup LongNames
Inodes  == 0..(NUM_INODES - 1)
Blocks  == 0..(NUM_DATA_BLOCKS - 1)
Handles == 0..(MAX_OPEN_FILES - 1)
MaxBytes == BLOCKSIZE * MAX_FILE_SIZE

ASSUME FSAssumption ==
  /\ {NUM_DATA_BLOCKS, NUM_INODES, MAX_OPEN_FILES} \subseteq Nat
  /\ BLOCKSIZE \in Nat \ {0} /\ MAX_FILE_SIZE \in Nat \ {0}

ASSUME NoneAssumption == NONE \notin [name : Names, pos : Nat]

VARIABLES
  inode_freelist, datablock_freelist,   \* superblock: the entries in use
  inodes,          \* the inodes on disk
  data,            \* the blocks on disk
  handles,         \* file_handle_array
  ret, rbuf        \* result of the last call, bytes of the last read

disk == <<inode_freelist, datablock_freelist, inodes, data>>
vars == <<disk, handles, ret, rbuf>>

NewInode(n) == [name |-> n, file_size |-> 0, direct_blocks |-> <<>>]
EmptyInode == NewInode(NONE)
NoHandle == [offset |-> 0, inode_number |-> -1]
Zeros == [i \in 1..BLOCKSIZE |-> 0]

ssufs_formatDisk ==
  /\ inode_freelist = {} /\ datablock_freelist = {}
  /\ inodes = [i \in Inodes |-> EmptyInode]
  /\ data = [b \in Blocks |-> Zeros]
  /\ handles = [h \in Handles |-> NoHandle]
  /\ ret = 0 /\ rbuf = <<>>

-----------------------------------------------------------------------------
\* strcmp of a stored name.  Behind a full name come the bytes of file_size:
\* the string ends there only if its low byte is 0, for the sizes 0 and
\* MaxBytes (256).
NameIs(ino, n) ==
  /\ ino.name = n
  /\ n \in FullNames => ino.file_size \in {0, MaxBytes}

\* The inodes in use with that name: the code answers with the first of them,
\* and with -1 if there is none.
open_namei(n) == {i \in inode_freelist : n \notin LongNames /\ NameIs(inodes[i], n)}

\* Where a scan of a table from its beginning stops, nowhere for no match.
First(S) == {i \in S : \A j \in S : i <= j}

FreeInodes == Inodes \ inode_freelist
FreeBlocks == Blocks \ datablock_freelist

Fail == ret' = -1 /\ rbuf' = <<>> /\ UNCHANGED <<disk, handles>>

create_fails(n) ==
  /\ open_namei(n) # {} \/ FreeInodes = {}
  /\ Fail

ssufs_create(n) ==
  /\ open_namei(n) = {}
  /\ \E i \in First(FreeInodes) :
       /\ inode_freelist' = inode_freelist \cup {i}
       /\ inodes' = [inodes EXCEPT ![i] = NewInode(IF n \in LongNames THEN Cut ELSE n)]
       /\ ret' = i /\ rbuf' = <<>>
  /\ UNCHANGED <<datablock_freelist, data, handles>>

\* Mutant: the inode keeps its block numbers.
FreeInodeStale(i) ==
  /\ inode_freelist' = inode_freelist \ {i}
  /\ datablock_freelist' = datablock_freelist \ Range(inodes[i].direct_blocks)
  /\ UNCHANGED <<inodes, data>>

\* ssufs_freeInode: the inode and its blocks are marked free.  The name and
\* the bytes stay on the disk in the code, and are wiped here: a name is read
\* only while its inode is in use, a block is cleared when it is taken.
FreeInode(i) ==
  LET B == Range(inodes[i].direct_blocks)
  IN  /\ inode_freelist' = inode_freelist \ {i}
      /\ datablock_freelist' = datablock_freelist \ B
      /\ inodes' = [inodes EXCEPT ![i] = EmptyInode]
      /\ data' = [b \in Blocks |-> IF b \in B THEN Zeros ELSE data[b]]

\* Only the first handle on the file is closed.
ssufs_delete(n) ==
  /\ \E i \in First(open_namei(n)) :
       LET H == {h \in Handles : handles[h].inode_number = i}
       IN  /\ DeleteShared \/ \A g, h \in H : g = h
           /\ handles' = [h \in Handles |-> IF h \in First(H) THEN NoHandle ELSE handles[h]]
           /\ FreeInode(i)
  /\ ret' = 0 /\ rbuf' = <<>>

FreeHandles == {h \in Handles : handles[h].inode_number = -1}

open_fails(n) ==
  /\ open_namei(n) = {} \/ FreeHandles = {}
  /\ Fail

\* The offset of the entry is left as close or the format set it: 0.
ssufs_open(n) ==
  /\ \E i \in First(open_namei(n)), h \in First(FreeHandles) :
       /\ handles' = [handles EXCEPT ![h].inode_number = i]
       /\ ret' = h /\ rbuf' = <<>>
  /\ UNCHANGED disk

\* Mutant: the offset is not reset.
ssufs_close_keeps(h) ==
  /\ handles' = [handles EXCEPT ![h].inode_number = -1]
  /\ ret' = 0 /\ rbuf' = <<>>
  /\ UNCHANGED disk

ssufs_close(h) ==
  /\ handles' = [handles EXCEPT ![h] = NoHandle]
  /\ ret' = 0 /\ rbuf' = <<>>
  /\ UNCHANGED disk

-----------------------------------------------------------------------------
Ino(h) == inodes[handles[h].inode_number]
IsOpen(h) == handles[h].inode_number >= 0

\* The bytes of the blocks of a file, one after the other.
BytesOf(d, blocks) ==
  [j \in 1..(BLOCKSIZE * Len(blocks)) |->
     d[blocks[((j - 1) \div BLOCKSIZE) + 1]][((j - 1) % BLOCKSIZE) + 1]]

read_fails(h, n) ==
  /\ IsOpen(h) => Ino(h).file_size < n + handles[h].offset
  /\ Fail

ssufs_read(h, n) ==
  /\ IsOpen(h) /\ Ino(h).file_size >= n + handles[h].offset
  /\ LET off == handles[h].offset
     IN  rbuf' = SubSeq(BytesOf(data, Ino(h).direct_blocks), off + 1, off + n)
  /\ handles' = [handles EXCEPT ![h].offset = @ + n]
  /\ ret' = 0
  /\ UNCHANGED disk

\* Mutant: off by one at a block boundary.
NumBlocksOver(n) == (n \div BLOCKSIZE) + 1

\* (offset + nbytes - 1) / BLOCKSIZE + 1 in C: one block for no bytes at all.
NumBlocks(n) == IF n = 0 THEN 1 ELSE ((n - 1) \div BLOCKSIZE) + 1

\* What a write up to byte n takes from the free list, one after the other the
\* lowest block that is left.
NewBlocks(ino, n) ==
  {new \in [1..(NumBlocks(n) - Len(ino.direct_blocks)) -> FreeBlocks] :
     \A k \in DOMAIN new : \A b \in FreeBlocks :
       b < new[k] <=> \E j \in 1..(k - 1) : new[j] = b}

Short(ino, n) ==
  NumBlocks(n) - Len(ino.direct_blocks) > Cardinality(FreeBlocks)

write_fails(h, n) ==
  /\ IsOpen(h) => handles[h].offset + n > MaxBytes
  /\ Fail

\* The blocks, those taken from the free list cleared.
Cleared == [b \in Blocks |-> IF b \in FreeBlocks THEN Zeros ELSE data[b]]

\* The disk fills up half way: the blocks taken so far stay marked and
\* cleared, the inode is not written.
write_full(h, n) ==
  /\ IsOpen(h) /\ handles[h].offset + n <= MaxBytes
  /\ Short(Ino(h), handles[h].offset + n)
  /\ datablock_freelist' = Blocks
  /\ data' = Cleared
  /\ ret' = -1 /\ rbuf' = <<>>
  /\ UNCHANGED <<inode_freelist, inodes, handles>>

\* The buffer of a write: the bytes of the file with those written put in.
Patched(blocks, off, n, v) ==
  LET old == BytesOf(Cleared, blocks)
  IN  [j \in 1..(BLOCKSIZE * Len(blocks)) |->
         IF j \in (off + 1)..(off + n) THEN v ELSE old[j]]

\* The disk once every block of the file has its part of the buffer.
Stored(blocks, buf) ==
  [b \in Blocks |->
     IF b \in Range(blocks)
     THEN LET k == CHOOSE k \in DOMAIN blocks : blocks[k] = b
          IN  [j \in 1..BLOCKSIZE |-> buf[(k - 1) * BLOCKSIZE + j]]
     ELSE data[b]]

\* All blocks are read, the bytes put in, all blocks written, and at last
\* the inode and the offset.
ssufs_write(h, n, v) ==
  LET i   == handles[h].inode_number
      off == handles[h].offset
  IN  /\ IsOpen(h) /\ off + n <= MaxBytes
      /\ ~Short(Ino(h), off + n)
      /\ \E new \in NewBlocks(Ino(h), off + n) :
           LET blocks == Ino(h).direct_blocks \o new
           IN  /\ datablock_freelist' = datablock_freelist \cup Range(new)
               /\ data' = Stored(blocks, Patched(blocks, off, n, v))
               /\ inodes' = [inodes EXCEPT ![i] =
                    [Ino(h) EXCEPT !.direct_blocks = blocks,
                                   !.file_size = IF @ < off + n THEN off + n ELSE @]]
      /\ handles' = [handles EXCEPT ![h].offset = @ + n]
      /\ ret' = 0 /\ rbuf' = <<>>
      /\ UNCHANGED inode_freelist

seek_fails(h, k) ==
  /\ IsOpen(h)
  /\ handles[h].offset + k \notin 0..Ino(h).file_size
  /\ Fail

ssufs_lseek(h, k) ==
  /\ IsOpen(h)
  /\ handles[h].offset + k \in 0..Ino(h).file_size
  /\ handles' = [handles EXCEPT ![h].offset = @ + k]
  /\ ret' = 0 /\ rbuf' = <<>>
  /\ UNCHANGED disk

-----------------------------------------------------------------------------
Next ==
  \/ \E n \in Names : \/ create_fails(n) \/ ssufs_create(n) \/ ssufs_delete(n)
                      \/ open_fails(n) \/ ssufs_open(n)
  \/ \E h \in Handles :
       \/ ssufs_close(h)
       \/ \E n \in 0..MaxBytes :
            \/ read_fails(h, n) \/ ssufs_read(h, n)
            \/ write_fails(h, n) \/ write_full(h, n)
            \/ \E v \in Values : ssufs_write(h, n, v)
       \/ \E k \in -MaxBytes..MaxBytes : seek_fails(h, k) \/ ssufs_lseek(h, k)

Spec == ssufs_formatDisk /\ [][Next]_vars

-----------------------------------------------------------------------------
\* No block belongs to two files or twice to one, and every block of a file
\* is marked used.  The assertions of ssufs_freeDataBlock and ssufs_freeInode
\* rest on this, also for inodes that only a left-over handle still reaches.
BlocksOwnedOnce ==
  /\ \A i \in Inodes :
       /\ Range(inodes[i].direct_blocks) \subseteq datablock_freelist
       /\ IsInjective(inodes[i].direct_blocks)
  /\ \A i, j \in Inodes : i # j =>
       Range(inodes[i].direct_blocks) \cap Range(inodes[j].direct_blocks) = {}

\* A file has exactly the blocks its size needs (a write of no bytes may give
\* an empty file its first one), and no handle is beyond the end of its file.
SizesAgree ==
  /\ \A i \in inode_freelist :
       LET k == Len(inodes[i].direct_blocks)
           n == inodes[i].file_size
       IN  n <= k * BLOCKSIZE /\ (n > (k - 1) * BLOCKSIZE \/ (n = 0 /\ k <= 1))
  /\ \A h \in Handles : IsOpen(h) => handles[h].offset <= Ino(h).file_size

\* The inodes as named byte strings, and the handles as positions in them.
Text(i) == SubSeq(BytesOf(data, inodes[i].direct_blocks), 1, inodes[i].file_size)
Files == [n \in {inodes[i].name : i \in inode_freelist} |->
            Text(CHOOSE i \in inode_freelist : inodes[i].name = n)]
Positions == [h \in Handles |->
                IF IsOpen(h) THEN [name |-> Ino(h).name, pos |-> handles[h].offset]
                ELSE NONE]

\* The byte strings callers write.
Texts == {[i \in 1..k |-> v] : k \in 0..MaxBytes, v \in Values}

F == INSTANCE FileService WITH
       Names <- ShortNames, MaxLen <- MaxBytes,
       Closed <- NONE, files <- Files, open <- Positions

\* ssufs is a file service: reads return what was written, whatever handle it
\* was written through and whatever blocks the bytes went through.  Callers
\* use names shorter than MAX_NAME_STRLEN, and close all but one handle on a
\* file before they delete it.
ImplementsFiles == F!Spec
=============================================================================
