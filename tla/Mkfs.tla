-------------------------------- MODULE Mkfs ---------------------------------
(***************************************************************************)
(* The file system image that mkfs makes (mkfs.c), from which the kernel   *)
(* starts: the root directory and one file for each program.  An inode     *)
(* lists its blocks in order; the ones past NDIRECT have their numbers in  *)
(* the indirect block.  A directory fits in one block.                     *)
(***************************************************************************)
EXTENDS Naturals, Sequences, FiniteSetsExt

CONSTANTS
    FSSIZE, NLOG,           \* blocks of the disk, and of them of the log
    NMETA,                  \* boot, super, inode and bitmap blocks
    NINODES,                \* inode numbers are below this
    NDIRECT, MAXFILE,       \* blocks of a file
    Name,                   \* of directory entries, besides "." and ".."
    Programs                \* [name, blocks] of the files given to mkfs

ASSUME MkfsAssumption ==
    /\ {FSSIZE, NLOG, NMETA, NINODES, NDIRECT, MAXFILE} \subseteq Nat \ {0}
    /\ NMETA + NLOG < FSSIZE /\ NDIRECT <= MAXFILE
    /\ \A k \in DOMAIN Programs :
         Programs[k].name \in Name /\ Programs[k].blocks \in 0 .. MAXFILE

ROOTINO == 1
Inum == 1 .. NINODES - 1

FreeInode == [type |-> "none", nlink |-> 0, addrs |-> <<>>, indirect |-> 0]
NoEntries == [n \in Name \cup {".", ".."} |-> 0]

\* "Then sb.nblocks data blocks.  Then sb.nlog log blocks."
DataArea == NMETA .. FSSIZE - NLOG - 1

Empty ==
    [dinode |-> [i \in Inum |-> FreeInode], dirent |-> [i \in Inum |-> NoEntries],
     freeinode |-> ROOTINO, freeblock |-> NMETA]

\* ialloc(): the next inode, with one link.
Ialloc(im, type) ==
    [im EXCEPT !.dinode[im.freeinode] = [FreeInode EXCEPT !.type = type, !.nlink = 1],
               !.freeinode = @ + 1]

\* iappend() of one block; the indirect block comes before the first that
\* needs it.
Iappend(im, i) ==
    LET indirect == Len(im.dinode[i].addrs) = NDIRECT
        b == IF indirect THEN im.freeblock + 1 ELSE im.freeblock
    IN  [im EXCEPT !.dinode[i].addrs = Append(@, b),
                   !.dinode[i].indirect = IF indirect THEN im.freeblock ELSE @,
                   !.freeblock = b + 1]

Root ==
    LET im == Iappend(Ialloc(Empty, "DIR"), ROOTINO)
    IN  [im EXCEPT !.dirent[ROOTINO] = [@ EXCEPT !["."] = ROOTINO, ![".."] = ROOTINO]]

AddProgram(im, k) ==
    LET i == im.freeinode
        named == [Ialloc(im, "FILE") EXCEPT !.dirent[ROOTINO][Programs[k].name] = i]
    IN  FoldSet(LAMBDA n, x : Iappend(x, i), named, 1 .. Programs[k].blocks)

\* main(), which ends with balloc(): the bitmap has the first blocks in use.
Image ==
    LET im[k \in 0 .. Len(Programs)] == IF k = 0 THEN Root ELSE AddProgram(im[k - 1], k)
        last == im[Len(Programs)]
    IN  [dinode |-> last.dinode, dirent |-> last.dirent, bitmap |-> 0 .. last.freeblock - 1]
=============================================================================
