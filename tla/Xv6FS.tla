------------------------------- MODULE Xv6FS --------------------------------
(***************************************************************************)
(* Inodes, directories and their system calls in xv6 (fs.c, sysfile.c and  *)
(* the inode half of file.c), on the disk image mkfs.c writes.             *)
(*                                                                         *)
(* What a call does to an inode while it holds its sleep lock is one step: *)
(* the lock hides the rest.  A lock is a variable where a process waits    *)
(* for another while it has it.  iput is two steps, since it gives up the  *)
(* lock before it gives up the reference.  The inode cache is indexed by   *)
(* inode number and, being written through, holds no second copy.          *)
(*                                                                         *)
(* The log is taken at its word (Xv6Log): the changes become durable when  *)
(* the last call in progress ends, all or none; a crash keeps what was     *)
(* durable and loses processes and cache.                                  *)
(***************************************************************************)
EXTENDS Naturals, Sequences, FiniteSets, SequencesExt

CONSTANTS
  Procs, NoProc,
  Names,           \* names a directory may hold, besides "." and ".."
  Ops,             \* calls with their path, which is [abs, el]
  Links,           \* arguments of link, pairs of paths
  ninodes,         \* inodes on the disk; 1 is the root
  nblocks,         \* data blocks on the disk
  NINODE,          \* entries of the inode cache
  RootFiles,       \* the names mkfs is given
  OldDirs,         \* directories of the root made before the behaviour starts
  MaxCalls         \* calls of a behaviour

NDIRECT == 1
NINDIRECT == 1
MAXFILE == NDIRECT + NINDIRECT
ROOTINO == 1
Inums == 1..ninodes
Blocks == 1..nblocks

VARIABLES
  fs,              \* the file system as the running kernel sees it
  stable,          \* what is durable
  icache,
  pr,              \* the processes
  calls,
  panic,           \* "none", or why the kernel stopped
  stray            \* an entry was made in a directory already removed

vars == <<fs, stable, icache, pr, calls, panic, stray>>

\* addrs is <<direct, indirect>>; ent and up are the entries of a directory
\* and its "..".
FreeInode == [type |-> "free", nlink |-> 0, size |-> 0, addrs |-> <<0, 0>>]
NoEntries == [n \in Names |-> 0]

Lowest(S) == CHOOSE x \in S : \A y \in S : x <= y

-----------------------------------------------------------------------------
\* Blocks.  The operators take a file system and return one.

\* balloc marks the first free block and bzero clears it; the block is the
\* one the bitmap gained.
balloc(F) ==
  LET b == Lowest(Blocks \ F.bitmap)
  IN  [F EXCEPT !.bitmap = @ \cup {b}, !.data[b] = 0]

Allocated(F, G) == CHOOSE b \in G.bitmap : b \notin F.bitmap

\* bmap of block bn of inode i, allocating it if there is none.  data[b] is
\* the entry of an indirect block.
bmap(F, i, bn) ==
  IF bn < NDIRECT
  THEN IF F.inode[i].addrs[1] # 0 THEN F
       ELSE LET G == balloc(F) IN [G EXCEPT !.inode[i].addrs[1] = Allocated(F, G)]
  ELSE LET G == IF F.inode[i].addrs[2] # 0 THEN F
                ELSE LET H == balloc(F) IN [H EXCEPT !.inode[i].addrs[2] = Allocated(F, H)]
           ind == G.inode[i].addrs[2]
           K == balloc(G) IN
       IF G.data[ind] # 0 THEN G ELSE [K EXCEPT !.data[ind] = Allocated(G, K)]

Room(F, k) == Cardinality(Blocks \ F.bitmap) >= k

\* Blocks bmap will allocate.
Needs(F, i, bn) ==
  LET a == F.inode[i].addrs IN
  CASE bn < NDIRECT -> IF a[1] = 0 THEN 1 ELSE 0
    [] bn >= NDIRECT /\ a[2] = 0 -> 2
    [] bn >= NDIRECT /\ a[2] # 0 -> IF F.data[a[2]] = 0 THEN 1 ELSE 0

BlocksOf(F, i) ==
  LET a == F.inode[i].addrs IN
  <<a[1], a[2], IF a[2] = 0 THEN 0 ELSE F.data[a[2]]>>

\* Mutant: the blocks an indirect block lists are not freed with it.
itrunc_shallow(F, i) ==
  LET a == F.inode[i].addrs IN
  [F EXCEPT !.bitmap = @ \ {a[1], a[2]}, !.inode[i].addrs = <<0, 0>>, !.inode[i].size = 0]

itrunc(F, i) ==
  LET bs == {BlocksOf(F, i)[k] : k \in 1..3} \ {0} IN
  [F EXCEPT !.bitmap = @ \ bs, !.inode[i].addrs = <<0, 0>>, !.inode[i].size = 0]

\* bfree panics on a block that is free already.
FreesFree(F, i) ==
  \E k \in 1..3 : BlocksOf(F, i)[k] \notin F.bitmap \cup {0}

\* writei of one block at block off; the caller has checked the size.
writei(F, i, off) ==
  LET G == bmap(F, i, off)
  IN  [G EXCEPT !.inode[i].size = IF off + 1 > @ THEN off + 1 ELSE @]

dirlink(F, d, name, i) == [F EXCEPT !.ent[d][name] = i]

ialloc(F, i, type) == [F EXCEPT !.inode[i] = [FreeInode EXCEPT !.type = type],
                                !.ent[i] = NoEntries, !.up[i] = 0]

Free(F) == {i \in Inums : F.inode[i].type = "free"}

\* create of a name that is not there, with the dots of a directory.
create(F, dp, name, ip, type) ==
  LET made == [ialloc(F, ip, type) EXCEPT !.inode[ip].nlink = 1]
      dots == IF type = "DIR"
              THEN [writei(made, ip, 0) EXCEPT !.inode[dp].nlink = @ + 1, !.up[ip] = dp]
              ELSE made
  IN  dirlink(dots, dp, name, ip)

-----------------------------------------------------------------------------
\* mkfs: the root directory and the given files, which reach their indirect
\* block.

Empty == [inode |-> [i \in Inums |-> FreeInode], ent |-> [i \in Inums |-> NoEntries],
          up |-> [i \in Inums |-> 0], bitmap |-> {}, data |-> [b \in Blocks |-> 0]]

\* ialloc and iappend of mkfs.
mkfs_ialloc(F, i, type) == [ialloc(F, i, type) EXCEPT !.inode[i].nlink = 1]
iappend(F, i, n) == FoldLeft(LAMBDA G, off : writei(G, i, off), F, [k \in 1..n |-> k - 1])

mkfs ==
  LET root == iappend([mkfs_ialloc(Empty, ROOTINO, "DIR") EXCEPT !.up[ROOTINO] = ROOTINO],
                      ROOTINO, 1)
      add(F, name) ==
        LET i == Lowest(Free(F))
        IN  dirlink(iappend(mkfs_ialloc(F, i, "FILE"), i, MAXFILE), ROOTINO, name, i)
  IN  FoldLeft(add, root, RootFiles)

Image == FoldLeft(LAMBDA F, name : create(F, ROOTINO, name, Lowest(Free(F)), "DIR"), mkfs, OldDirs)

NoEntry == [ref |-> 0, valid |-> FALSE, lock |-> NoProc]
Idle == [pc |-> "idle", call |-> "none", el |-> << >>, new |-> << >>, par |-> FALSE, ip |-> 0,
         dp |-> 0, puts |-> << >>, dropping |-> FALSE, cwd |-> ROOTINO, fd |-> 0, off |-> 0,
         w |-> FALSE]
ColdCache == [i \in Inums |-> IF i = ROOTINO THEN [NoEntry EXCEPT !.ref = Cardinality(Procs)]
                              ELSE NoEntry]

Init ==
  /\ fs = Image /\ stable = Image
  /\ icache = ColdCache
  /\ pr = [p \in Procs |-> Idle]
  /\ calls = 0 /\ panic = "none" /\ stray = FALSE

-----------------------------------------------------------------------------
\* The inode cache.

\* iget panics when every entry is in use.
CacheFull(i) ==
  icache[i].ref = 0 /\ Cardinality({j \in Inums : icache[j].ref > 0}) = NINODE

iget(C, i) == IF C[i].ref > 0 THEN [C EXCEPT ![i].ref = @ + 1]
              ELSE [C EXCEPT ![i] = [NoEntry EXCEPT !.ref = 1]]

\* ilock of an inode nobody holds reads it, and panics when it has no type.
Lockable(i) == icache[i].lock = NoProc
NoType(i) == ~icache[i].valid /\ fs.inode[i].type = "free"
Loaded(C, i) == [C EXCEPT ![i].valid = TRUE]
Locked(C, i, p) == [C EXCEPT ![i].valid = TRUE, ![i].lock = p]
Unlocked(C, i) == [C EXCEPT ![i].lock = NoProc]

Stop(why) ==
  panic' = why /\ UNCHANGED <<fs, stable, icache, pr, calls, stray>>

At(p, l) == pr[p].pc = l /\ pr[p].puts = << >> /\ panic = "none"
Type(i) == fs.inode[i].type
My(p) == pr[p]

\* The step of p holds inode i for its duration.
Holds(p, l, i) == At(p, l) /\ Lockable(i)

\* Mutant: the inode is freed whoever else refers to it.
iput_free_always(p) ==
  LET i == Head(pr[p].puts) IN
  /\ panic = "none" /\ pr[p].puts # << >> /\ ~pr[p].dropping /\ Lockable(i)
  /\ IF icache[i].valid /\ fs.inode[i].nlink = 0
     THEN /\ fs' = [itrunc(fs, i) EXCEPT !.inode[i].type = "free"]
          /\ icache' = [icache EXCEPT ![i].valid = FALSE]
     ELSE UNCHANGED <<fs, icache>>
  /\ pr' = [pr EXCEPT ![p].dropping = TRUE]
  /\ UNCHANGED <<stable, calls, panic, stray>>

\* iput with the lock: free an inode without links that nobody else refers
\* to.
iput_free(p) ==
  LET i == Head(pr[p].puts) IN
  /\ panic = "none" /\ pr[p].puts # << >> /\ ~pr[p].dropping /\ Lockable(i)
  /\ IF icache[i].valid /\ fs.inode[i].nlink = 0 /\ icache[i].ref = 1
     THEN IF FreesFree(fs, i) THEN Stop("freeing free block")
          ELSE /\ fs' = [itrunc(fs, i) EXCEPT !.inode[i].type = "free"]
               /\ icache' = [icache EXCEPT ![i].valid = FALSE]
               /\ pr' = [pr EXCEPT ![p].dropping = TRUE]
               /\ UNCHANGED <<stable, calls, panic, stray>>
     ELSE /\ pr' = [pr EXCEPT ![p].dropping = TRUE]
          /\ UNCHANGED <<fs, icache, stable, calls, panic, stray>>

\* iput after the lock: drop the reference.
iput_drop(p) ==
  LET i == Head(pr[p].puts) IN
  /\ panic = "none" /\ pr[p].dropping
  /\ icache' = [icache EXCEPT ![i].ref = @ - 1]
  /\ pr' = [pr EXCEPT ![p].dropping = FALSE, ![p].puts = Tail(@)]
  /\ UNCHANGED <<fs, stable, calls, panic, stray>>

\* iunlock of an inode p kept locked, the first half of iunlockput.
iunlock(p) ==
  /\ panic = "none" /\ pr[p].puts # << >> /\ icache[Head(pr[p].puts)].lock = p
  /\ icache' = Unlocked(icache, Head(pr[p].puts))
  /\ UNCHANGED <<fs, stable, pr, calls, panic, stray>>

-----------------------------------------------------------------------------
dirlookup(d, name) == fs.ent[d][name]

\* Paths.  ip and dp are the inodes a call refers to; a reference it gives up
\* moves to puts.

Start(p, path) == IF path.abs THEN ROOTINO ELSE pr[p].cwd

Begin(p, c, path, new) ==
  /\ pr' = [pr EXCEPT ![p] = [@ EXCEPT
              !.pc = "walk", !.call = c, !.el = path.el, !.ip = Start(p, path), !.new = new,
              !.par = c \in {"creat", "mkdir", "mknod", "unlink"}]]
  /\ icache' = iget(icache, Start(p, path))
  /\ calls' = calls + 1
  /\ UNCHANGED <<fs, stable, panic, stray>>

\* The call gives up the inodes is and goes on at l.
GiveUp(p, is, l) ==
  LET me == pr[p]
      given(x) == \E k \in DOMAIN is : is[k] = x IN
  [pr EXCEPT ![p] = [me EXCEPT !.puts = is, !.pc = l,
     !.ip = IF given(@) THEN 0 ELSE @,
     !.dp = IF given(@) /\ @ # me.ip THEN 0 ELSE @]]

Failed(p) == IF My(p).call = "link" /\ My(p).par THEN "bad" ELSE "end"

\* namex: one element of the path.
namex(p) ==
  LET ip == My(p).ip
      next == dirlookup(ip, Head(My(p).el))
      last == Len(My(p).el) = 1 IN
  /\ Holds(p, "walk", ip)
  /\ \/ NoType(ip) /\ Stop("ilock: no type")
     \/ /\ ~NoType(ip)
        /\ Type(ip) # "DIR" \/ (next = 0 /\ ~(My(p).par /\ last))
        /\ pr' = GiveUp(p, <<ip>>, Failed(p))
        /\ icache' = Loaded(icache, ip)
        /\ UNCHANGED <<fs, stable, calls, panic, stray>>
     \/ /\ ~NoType(ip) /\ Type(ip) = "DIR" /\ My(p).par /\ last
        /\ pr' = [pr EXCEPT ![p].pc = "at"]
        /\ icache' = Loaded(icache, ip)
        /\ UNCHANGED <<fs, stable, calls, panic, stray>>
     \/ /\ ~NoType(ip) /\ Type(ip) = "DIR" /\ ~(My(p).par /\ last) /\ next # 0
        /\ IF CacheFull(next) THEN Stop("iget: no inodes")
           ELSE /\ pr' = [GiveUp(p, <<ip>>, IF last THEN "at" ELSE "walk") EXCEPT
                            ![p].ip = next, ![p].el = Tail(@)]
                /\ icache' = iget(Loaded(icache, ip), next)
                /\ UNCHANGED <<fs, stable, calls, panic, stray>>

-----------------------------------------------------------------------------
\* open, mkdir, mknod.

\* The call keeps ip as its open file, if it has a descriptor left.
WithFile(p, ip, w) ==
  IF My(p).fd # 0 THEN GiveUp(p, <<ip>>, "end")
  ELSE [pr EXCEPT ![p] = [@ EXCEPT !.pc = "end", !.fd = ip, !.ip = 0, !.off = 0, !.w = w]]

sys_open(p) ==
  LET ip == My(p).ip
      w == My(p).call = "open_rw" IN
  /\ Holds(p, "at", ip) /\ My(p).call \in {"open_rd", "open_rw"}
  /\ \/ NoType(ip) /\ Stop("ilock: no type")
     \/ /\ ~NoType(ip)
        /\ pr' = IF Type(ip) = "DIR" /\ w THEN GiveUp(p, <<ip>>, "end") ELSE WithFile(p, ip, w)
        /\ icache' = Loaded(icache, ip)
        /\ UNCHANGED <<fs, stable, calls, panic, stray>>

NewType(p) == CASE My(p).call = "creat" -> "FILE"
                [] My(p).call = "mkdir" -> "DIR"
                [] My(p).call = "mknod" -> "DEV"
Creates(p) == My(p).call \in {"creat", "mkdir", "mknod"}

\* create finds the name.
create_found(p) ==
  LET dp == My(p).ip
      ip == dirlookup(dp, My(p).el[1]) IN
  /\ Holds(p, "at", dp) /\ Creates(p) /\ ip # 0
  /\ IF CacheFull(ip) THEN Stop("iget: no inodes")
     ELSE /\ icache' = iget(Loaded(icache, dp), ip)
          /\ pr' = [GiveUp(p, <<dp>>, "found") EXCEPT ![p].ip = ip]
          /\ UNCHANGED <<fs, stable, calls, panic, stray>>

create_old(p) ==
  LET ip == My(p).ip IN
  /\ Holds(p, "found", ip)
  /\ \/ NoType(ip) /\ Stop("ilock: no type")
     \/ /\ ~NoType(ip)
        /\ pr' = IF My(p).call = "creat" /\ Type(ip) = "FILE" THEN WithFile(p, ip, TRUE)
                 ELSE GiveUp(p, <<ip>>, "end")
        /\ icache' = Loaded(icache, ip)
        /\ UNCHANGED <<fs, stable, calls, panic, stray>>

\* create makes the inode, its dots and its entry with the directory locked,
\* and keeps the new inode locked while it drops the directory.
create_new(p) ==
  LET dp == My(p).ip
      name == My(p).el[1]
      free == Free(fs)
      ip == Lowest(free)
      isdir == NewType(p) = "DIR" IN
  /\ Holds(p, "at", dp) /\ Creates(p) /\ dirlookup(dp, name) = 0
  /\ \/ (free = {} \/ (isdir /\ ~Room(fs, 1))) /\ Stop("full")
     \/ /\ free # {} /\ (isdir => Room(fs, 1)) /\ Lockable(ip)
        /\ IF CacheFull(ip) THEN Stop("iget: no inodes")
           ELSE /\ fs' = create(fs, dp, name, ip, NewType(p))
                /\ icache' = Locked(iget(Loaded(icache, dp), ip), ip, p)
                /\ pr' = [GiveUp(p, <<dp>>, "made") EXCEPT ![p].ip = ip]
                /\ stray' = (stray \/ fs.inode[dp].nlink = 0)
                /\ UNCHANGED <<stable, calls, panic>>

create_done(p) ==
  LET ip == My(p).ip IN
  /\ At(p, "made")
  /\ pr' = IF My(p).call = "creat" THEN WithFile(p, ip, TRUE) ELSE GiveUp(p, <<ip>>, "end")
  /\ icache' = Unlocked(icache, ip)
  /\ UNCHANGED <<fs, stable, calls, panic, stray>>

-----------------------------------------------------------------------------
\* link, unlink, chdir.

\* Mutant: the link is counted only once it exists.
link_old_late(p) ==
  LET ip == My(p).ip IN
  /\ Holds(p, "at", ip) /\ My(p).call = "link" /\ ~My(p).par
  /\ IF NoType(ip) THEN Stop("ilock: no type")
     ELSE /\ pr' = IF Type(ip) = "DIR" THEN GiveUp(p, <<ip>>, "end")
                   ELSE [pr EXCEPT ![p] = [@ EXCEPT !.pc = "walk", !.dp = ip,
                          !.ip = Start(p, My(p).new), !.el = My(p).new.el, !.par = TRUE]]
          /\ icache' = IF Type(ip) = "DIR" THEN Loaded(icache, ip)
                       ELSE iget(Loaded(icache, ip), Start(p, My(p).new))
          /\ UNCHANGED <<fs, stable, calls, panic, stray>>

\* sys_link counts the link first, then looks for the place to put it.
link_old(p) ==
  LET ip == My(p).ip IN
  /\ Holds(p, "at", ip) /\ My(p).call = "link" /\ ~My(p).par
  /\ \/ NoType(ip) /\ Stop("ilock: no type")
     \/ /\ ~NoType(ip) /\ Type(ip) = "DIR"
        /\ pr' = GiveUp(p, <<ip>>, "end")
        /\ icache' = Loaded(icache, ip)
        /\ UNCHANGED <<fs, stable, calls, panic, stray>>
     \/ /\ ~NoType(ip) /\ Type(ip) # "DIR"
        /\ fs' = [fs EXCEPT !.inode[ip].nlink = @ + 1]
        /\ pr' = [pr EXCEPT ![p] = [@ EXCEPT !.pc = "walk", !.dp = ip,
                    !.ip = Start(p, My(p).new), !.el = My(p).new.el, !.par = TRUE]]
        /\ icache' = iget(Loaded(icache, ip), Start(p, My(p).new))
        /\ UNCHANGED <<stable, calls, panic, stray>>

\* dirlink: the name must be new; one that exists is looked up and put while
\* the directory stays locked.
link_new(p) ==
  LET dp == My(p).ip
      name == My(p).el[1]
      old == dirlookup(dp, name) IN
  /\ Holds(p, "at", dp) /\ My(p).call = "link" /\ My(p).par
  /\ \/ /\ old # 0
        /\ IF CacheFull(old) THEN Stop("iget: no inodes")
           ELSE /\ icache' = Locked(iget(icache, old), dp, p)
                /\ pr' = [pr EXCEPT ![p] = [@ EXCEPT !.puts = <<old, dp>>, !.ip = 0, !.pc = "bad"]]
                /\ UNCHANGED <<fs, stable, calls, panic, stray>>
     \/ /\ old = 0
        /\ fs' = dirlink(fs, dp, name, My(p).dp)
        /\ icache' = Loaded(icache, dp)
        /\ pr' = GiveUp(p, <<dp, My(p).dp>>, "end")
        /\ stray' = (stray \/ fs.inode[dp].nlink = 0)
        /\ UNCHANGED <<stable, calls, panic>>

link_bad(p) ==
  LET ip == My(p).dp IN
  /\ Holds(p, "bad", ip)
  /\ fs' = [fs EXCEPT !.inode[ip].nlink = @ - 1]
  /\ icache' = Loaded(icache, ip)
  /\ pr' = GiveUp(p, <<ip>>, "end")
  /\ UNCHANGED <<stable, calls, panic, stray>>

\* Mutant: the directory is unlocked while the inode is being locked.
unlink_parent_unlocked(p) ==
  LET dp == My(p).ip
      ip == dirlookup(dp, My(p).el[1]) IN
  /\ Holds(p, "at", dp) /\ My(p).call = "unlink"
  /\ IF ip = 0 THEN pr' = GiveUp(p, <<dp>>, "end") /\ icache' = Loaded(icache, dp)
     ELSE /\ icache' = iget(Loaded(icache, dp), ip)
          /\ pr' = [pr EXCEPT ![p] = [@ EXCEPT !.dp = dp, !.ip = ip, !.pc = "unlink"]]
  /\ UNCHANGED <<fs, stable, calls, panic, stray>>

unlink_parent(p) ==
  LET dp == My(p).ip
      ip == dirlookup(dp, My(p).el[1]) IN
  /\ Holds(p, "at", dp) /\ My(p).call = "unlink"
  /\ \/ /\ ip = 0
        /\ pr' = GiveUp(p, <<dp>>, "end")
        /\ icache' = Loaded(icache, dp)
        /\ UNCHANGED <<fs, stable, calls, panic, stray>>
     \/ /\ ip # 0
        /\ IF CacheFull(ip) THEN Stop("iget: no inodes")
           ELSE /\ icache' = Locked(iget(icache, ip), dp, p)
                /\ pr' = [pr EXCEPT ![p] = [@ EXCEPT !.dp = dp, !.ip = ip, !.pc = "unlink"]]
                /\ UNCHANGED <<fs, stable, calls, panic, stray>>

isdirempty(i) == fs.ent[i] = NoEntries

\* Both locked: the entry goes, then the directory's count.
unlink_entry(p) ==
  LET dp == My(p).dp
      ip == My(p).ip
      cleared == [fs EXCEPT !.ent[dp][My(p).el[1]] = 0] IN
  /\ Holds(p, "unlink", ip)
  /\ \/ NoType(ip) /\ Stop("ilock: no type")
     \/ ~NoType(ip) /\ fs.inode[ip].nlink < 1 /\ Stop("unlink: nlink < 1")
     \/ /\ ~NoType(ip) /\ fs.inode[ip].nlink > 0 /\ Type(ip) = "DIR" /\ ~isdirempty(ip)
        /\ pr' = GiveUp(p, <<ip, dp>>, "end")
        /\ icache' = Loaded(icache, ip)
        /\ UNCHANGED <<fs, stable, calls, panic, stray>>
     \/ /\ ~NoType(ip) /\ fs.inode[ip].nlink > 0 /\ (Type(ip) = "DIR" => isdirempty(ip))
        /\ fs' = IF Type(ip) = "DIR" THEN [cleared EXCEPT !.inode[dp].nlink = @ - 1] ELSE cleared
        /\ icache' = Unlocked(Locked(icache, ip, p), dp)
        /\ pr' = GiveUp(p, <<dp>>, "unlinked")
        /\ UNCHANGED <<stable, calls, panic, stray>>

\* Then the inode's.
unlink_inode(p) ==
  LET ip == My(p).ip IN
  /\ At(p, "unlinked")
  /\ fs' = [fs EXCEPT !.inode[ip].nlink = @ - 1]
  /\ icache' = Unlocked(icache, ip)
  /\ pr' = GiveUp(p, <<ip>>, "end")
  /\ UNCHANGED <<stable, calls, panic, stray>>

\* The old directory is put, then replaced; only the caller looks at cwd.
sys_chdir(p) ==
  LET ip == My(p).ip IN
  /\ Holds(p, "at", ip) /\ My(p).call = "chdir"
  /\ \/ NoType(ip) /\ Stop("ilock: no type")
     \/ /\ ~NoType(ip)
        /\ pr' = IF Type(ip) # "DIR" THEN GiveUp(p, <<ip>>, "end")
                 ELSE [pr EXCEPT ![p] = [@ EXCEPT !.cwd = ip, !.ip = 0, !.puts = <<My(p).cwd>>,
                                                  !.pc = "end"]]
        /\ icache' = Loaded(icache, ip)
        /\ UNCHANGED <<fs, stable, calls, panic, stray>>

-----------------------------------------------------------------------------
\* Open files.

filewrite_begin(p) ==
  /\ panic = "none" /\ pr[p].pc = "idle" /\ calls < MaxCalls
  /\ pr[p].fd # 0 /\ pr[p].w
  /\ pr' = [pr EXCEPT ![p].pc = "write"]
  /\ calls' = calls + 1
  /\ UNCHANGED <<fs, stable, icache, panic, stray>>

\* One block; a file may not grow past MAXFILE, a device takes no block.
filewrite(p) ==
  LET ip == My(p).fd
      off == My(p).off IN
  /\ Holds(p, "write", ip)
  /\ \/ /\ Type(ip) = "FILE" /\ off < MAXFILE /\ ~Room(fs, Needs(fs, ip, off))
        /\ Stop("full")
     \/ /\ Type(ip) = "FILE" /\ off < MAXFILE /\ Room(fs, Needs(fs, ip, off))
        /\ fs' = writei(fs, ip, off)
        /\ icache' = Loaded(icache, ip)
        /\ pr' = [pr EXCEPT ![p].off = off + 1, ![p].pc = "end"]
        /\ UNCHANGED <<stable, calls, panic, stray>>
     \/ /\ Type(ip) # "FILE" \/ off = MAXFILE
        /\ icache' = Loaded(icache, ip)
        /\ pr' = [pr EXCEPT ![p].pc = "end"]
        /\ UNCHANGED <<fs, stable, calls, panic, stray>>

\* fileread of one block; it changes nothing at the end of the file or on a
\* device.
fileread(p) ==
  LET ip == pr[p].fd IN
  /\ panic = "none" /\ pr[p].pc = "idle" /\ ip # 0 /\ Lockable(ip)
  /\ Type(ip) # "DEV" /\ pr[p].off < fs.inode[ip].size
  /\ pr' = [pr EXCEPT ![p].off = @ + 1]
  /\ icache' = Loaded(icache, ip)
  /\ UNCHANGED <<fs, stable, calls, panic, stray>>

\* fileclose of the last descriptor of a file.
fileclose(p) ==
  /\ panic = "none" /\ pr[p].pc = "idle" /\ pr[p].fd # 0
  /\ pr' = [pr EXCEPT ![p] = [@ EXCEPT !.pc = "end", !.puts = <<pr[p].fd>>, !.fd = 0, !.off = 0,
                                       !.w = FALSE]]
  /\ UNCHANGED <<fs, stable, icache, calls, panic, stray>>

\* end_op: the last call in progress commits.
end_op(p) ==
  /\ At(p, "end")
  /\ pr' = [pr EXCEPT ![p] = [Idle EXCEPT !.cwd = My(p).cwd, !.fd = My(p).fd, !.off = My(p).off,
                                          !.w = My(p).w]]
  /\ stable' = IF \E q \in Procs \ {p} : pr[q].pc # "idle" THEN stable ELSE fs
  /\ UNCHANGED <<fs, icache, calls, panic, stray>>

\* A crash, or the reset after a panic, and the recovery.
crash ==
  /\ fs # stable \/ icache # ColdCache \/ panic # "none"
  /\ fs' = stable /\ icache' = ColdCache
  /\ pr' = [p \in Procs |-> Idle]
  /\ panic' = "none"
  /\ UNCHANGED <<stable, calls, stray>>

-----------------------------------------------------------------------------
Call(p) ==
  \/ /\ panic = "none" /\ pr[p].pc = "idle" /\ calls < MaxCalls
     /\ \/ \E o \in Ops : Begin(p, o[1], o[2], << >>)
        \/ \E l \in Links : Begin(p, "link", l[1], l[2])
  \/ filewrite_begin(p)
  \/ fileread(p)
  \/ fileclose(p)

Step(p) ==
  \/ iput_free(p) \/ iput_drop(p) \/ iunlock(p) \/ namex(p)
  \/ sys_open(p) \/ create_found(p) \/ create_old(p) \/ create_new(p) \/ create_done(p)
  \/ link_old(p) \/ link_new(p) \/ link_bad(p)
  \/ unlink_parent(p) \/ unlink_entry(p) \/ unlink_inode(p)
  \/ sys_chdir(p) \/ filewrite(p) \/ end_op(p)

Next == crash \/ \E p \in Procs : Call(p) \/ Step(p)

Spec == Init /\ [][Next]_vars

\* Without crashes, which leave such inodes behind by design.
RunningSpec == Init /\ [][\E p \in Procs : Call(p) \/ Step(p)]_vars

-----------------------------------------------------------------------------
Used(F) == {i \in Inums : F.inode[i].type # "free"}
Dirs(F) == {i \in Inums : F.inode[i].type = "DIR"}

\* What is durable is a file system: outside calls, and so after a crash at
\* any time, the link count of every inode is the number of entries that name
\* it and of the directories in it, and an entry never names a free inode,
\* unless an entry was made in a directory that had been removed, which create
\* and sys_link do not refuse.
DurableLinks ==
  ~stray =>
  LET F == stable
      used == Used(F)
      named(i) == Cardinality({<<d, n>> \in Dirs(F) \X Names : F.ent[d][n] = i})
      subdirs(i) == Cardinality({d \in Dirs(F) \ {ROOTINO} :
                                   F.up[d] = i /\ F.inode[d].nlink > 0}) IN
  /\ \A i \in used :
       F.inode[i].nlink = named(i) + subdirs(i) + (IF i = ROOTINO THEN 1 ELSE 0)
  /\ \A d \in Dirs(F), n \in Names : F.ent[d][n] \in used \cup {0}

\* A block belongs to one place of one inode and is then marked in use, at
\* every moment and, as fs is then what was durable, after every crash: balloc
\* gives nothing away twice, and nothing is lost when an inode is freed.
BlocksOwnedOnce ==
  LET places == {<<i, k>> \in Inums \X (1..3) : BlocksOf(fs, i)[k] # 0} IN
  /\ fs.bitmap = {BlocksOf(fs, x[1])[x[2]] : x \in places}
  /\ Cardinality(fs.bitmap) = Cardinality(places)
  /\ \A x \in places : fs.inode[x[1]].type # "free"

Refs(i) ==
  Cardinality({<<p, k>> \in Procs \X (1..2) : k \in DOMAIN pr[p].puts /\ pr[p].puts[k] = i})
  + Cardinality({<<p, f>> \in Procs \X {"ip", "dp", "cwd", "fd"} : pr[p][f] = i})

\* References are exact, and an inode somebody refers to is not freed: not as
\* an open file, not as a current directory, not in the middle of a call,
\* even if its last link goes meanwhile.
HeldInodesLive ==
  panic = "none" =>
  \A i \in Inums :
    /\ icache[i].ref = Refs(i)
    /\ \A p \in Procs : i \in {pr[p].ip, pr[p].dp, pr[p].cwd, pr[p].fd} => Type(i) # "free"

\* iput frees what nobody can reach any more: an inode with no links is freed
\* with its last reference, as iput's comment promises.
NoOrphans ==
  panic = "none" =>
  \A i \in Used(fs) : fs.inode[i].nlink = 0 => icache[i].ref > 0

\* The kernel stops for want of inodes or blocks, never on its own checks:
\* no inode without type is locked, no link count is below one at unlink, no
\* free block is freed, and the inode cache does not run out.
NoPanic == panic \in {"none", "full"}
=============================================================================
