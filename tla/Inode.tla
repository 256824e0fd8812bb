------------------------------- MODULE Inode ---------------------------------
(***************************************************************************)
(* Inodes on the disk and in the inode cache, their blocks, and directories*)
(* (fs.c).  The file system is a record s, and an operator gives what a    *)
(* function of fs.c makes of it:                                           *)
(*                                                                         *)
(*    dinode, dirent, bitmap   what the buffer cache has of the disk       *)
(*    icache                   for an inode number, its cache entry: ref,  *)
(*                             I_BUSY, I_VALID and the copy of the inode   *)
(*    panic                    the message the kernel has stopped with     *)
(*                                                                         *)
(* The entries of icache are alike, so one is named by the inode it is for *)
(* and is free when its ref is 0.  Sizes are in blocks.                    *)
(***************************************************************************)
EXTENDS Mkfs, FiniteSets, Functions

CONSTANT NINODE         \* entries of the inode cache

ASSUME InodeAssumption == NINODE \in Nat \ {0}

Uncached == [ref |-> 0, busy |-> FALSE, valid |-> FALSE, copy |-> FreeInode]

Mounted ==
    [dinode |-> Image.dinode, dirent |-> Image.dirent, bitmap |-> Image.bitmap,
     icache |-> [i \in Inum |-> Uncached], panic |-> "none"]

\* panic(); the first message counts.
Panic(s, message) == IF s.panic = "none" THEN [s EXCEPT !.panic = message] ELSE s

-----------------------------------------------------------------------------
(***************************************************************************)
(* Blocks                                                                  *)
(***************************************************************************)
Unused(s) == (0 .. FSSIZE - 1) \ s.bitmap

\* balloc() of n blocks, lowest first: what it takes.
balloc(s, n) ==
    CHOOSE t \in SUBSET Unused(s) :
      Cardinality(t) = n /\ \A b \in Unused(s) \ t, c \in t : c < b

\* bmap() of the block after the last, with an indirect block if it is the
\* first that needs one.
Extend(s, i) ==
    LET ip == s.icache[i].copy
        indirect == Len(ip.addrs) = NDIRECT
        t == balloc(s, IF indirect THEN 2 ELSE 1)
    IN  IF Cardinality(Unused(s)) < (IF indirect THEN 2 ELSE 1)
          THEN Panic(s, "balloc: out of blocks")
          ELSE [s EXCEPT !.bitmap = @ \cup t,
                         !.icache[i].copy.addrs = Append(@, Max(t)),
                         !.icache[i].copy.indirect = IF indirect THEN Min(t) ELSE @]

BlocksOf(ip) == Range(ip.addrs) \cup ({ip.indirect} \ {0})

-----------------------------------------------------------------------------
(***************************************************************************)
(* The inode cache                                                         *)
(***************************************************************************)
iget(s, i) ==
    IF s.icache[i].ref > 0 THEN [s EXCEPT !.icache[i].ref = @ + 1]
    ELSE IF Cardinality({j \in Inum : s.icache[j].ref > 0}) >= NINODE
      THEN Panic(s, "iget: no inodes")
      ELSE [s EXCEPT !.icache[i] = [Uncached EXCEPT !.ref = 1]]

idup(s, i) == [s EXCEPT !.icache[i].ref = @ + 1]

\* A caller waits in ilock() while this holds.
Busy(s, i) == s.icache[i].busy

ilock(s, i) ==
    LET e == s.icache[i]
        copy == IF e.valid THEN e.copy ELSE s.dinode[i]
    IN  IF e.ref < 1 THEN Panic(s, "ilock")
        ELSE IF ~e.valid /\ copy.type = "none" THEN Panic(s, "ilock: no type")
        ELSE [s EXCEPT !.icache[i] = [e EXCEPT !.busy = TRUE, !.valid = TRUE, !.copy = copy]]

iunlock(s, i) ==
    IF ~s.icache[i].busy \/ s.icache[i].ref < 1 THEN Panic(s, "iunlock")
    ELSE [s EXCEPT !.icache[i].busy = FALSE]

iupdate(s, i) == [s EXCEPT !.dinode[i] = s.icache[i].copy]

\* A change of the number of links, written back.
AddLinks(s, i, n) == iupdate([s EXCEPT !.icache[i].copy.nlink = @ + n], i)

\* iput(), in three parts: it drops the reference, unless it is the last to an
\* inode without links.
Last(s, i) == s.icache[i].ref = 1 /\ s.icache[i].valid /\ s.icache[i].copy.nlink = 0

iput(s, i) ==
    IF ~Last(s, i) THEN [s EXCEPT !.icache[i] = IF @.ref = 1 THEN Uncached ELSE [@ EXCEPT !.ref = @ - 1]]
    ELSE IF s.icache[i].busy THEN Panic(s, "iput busy")
    ELSE [s EXCEPT !.icache[i].busy = TRUE]

\* The inode is truncated by itrunc() and marked free on the disk.
iputFrees_KeepsIndirect(s, i) ==
    iupdate([s EXCEPT !.bitmap = @ \ Range(s.icache[i].copy.addrs),
                      !.dirent[i] = NoEntries,
                      !.icache[i].copy = FreeInode], i)

iputFrees(s, i) ==
    IF ~(BlocksOf(s.icache[i].copy) \subseteq s.bitmap) THEN Panic(s, "freeing free block")
    ELSE iupdate([s EXCEPT !.bitmap = @ \ BlocksOf(s.icache[i].copy),
                           !.dirent[i] = NoEntries,
                           !.icache[i].copy = FreeInode], i)

\* The cache entry is unlocked, no longer valid, and the reference dropped.
iputEnds_Valid(s, i) ==
    [s EXCEPT !.icache[i] = IF @.ref = 1 THEN Uncached ELSE [@ EXCEPT !.ref = @ - 1, !.busy = FALSE]]

iputEnds(s, i) ==
    [s EXCEPT !.icache[i] = [Uncached EXCEPT !.ref = s.icache[i].ref - 1]]

\* ialloc(): the first free inode of the disk.
FreeInum(s) == {i \in Inum : s.dinode[i].type = "none"}

ialloc(s, type) ==
    IF FreeInum(s) = {} THEN Panic(s, "ialloc: no inodes")
    ELSE iget([s EXCEPT !.dinode[Min(FreeInum(s))] = [FreeInode EXCEPT !.type = type]], Min(FreeInum(s)))

-----------------------------------------------------------------------------
(***************************************************************************)
(* Contents: of files, and of directories                                  *)
(***************************************************************************)
\* What writei() of one block at off returns.
writeiFails(s, i, off) == off > Len(s.icache[i].copy.addrs) \/ off + 1 > MAXFILE

writei(s, i, off) ==
    IF s.icache[i].copy.type = "DEV" \/ off < Len(s.icache[i].copy.addrs) THEN s
    ELSE iupdate(Extend(s, i), i)

\* The inode number a name stands for, 0 for none.
dirlookup(s, i, name) == s.dirent[i][name]

\* dirlink() of a name that is not there; the first entry needs a block.
Entered(s, i, name, j) ==
    LET grown == IF s.icache[i].copy.addrs = <<>> THEN iupdate(Extend(s, i), i) ELSE s
    IN  [grown EXCEPT !.dirent[i][name] = j]

isdirempty(s, i) == \A n \in Name : s.dirent[i][n] = 0
=============================================================================
