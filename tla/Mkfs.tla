-------------------------------- MODULE Mkfs --------------------------------
(***************************************************************************)
(* mkfs.c: the image that the kernel boots from.  The unit of data is a    *)
(* directory entry in a directory and a byte in a file; an entry holds the *)
(* number of the inode it names, a byte that of the file it belongs to.    *)
(*                                                                         *)
(* The image is judged by what the kernel finds in it: bmap, readi and the *)
(* bitmap of module File, on the disk that mkfs leaves.                    *)
(***************************************************************************)
EXTENDS Integers, Sequences, FiniteSets

CONSTANTS
    FSSIZE, NINODES, IPB,       \* blocks of the disk; inodes; inodes in a block
    LOGSIZE, BPB,               \* blocks of the log; bits in a block of the bitmap
    NDIRECT, NINDIRECT, BSIZE,
    FileSizes, MaxFiles         \* files on the command line

VARIABLES
    args,       \* sizes of the files that are still to be copied
    img,        \* inodes and blocks of the image
    freeinode, freeblock,
    used,       \* bits of the bitmap that are set
    left,       \* bytes of the current file that are still to be copied
    total,      \* history: bytes of each file that was copied
    pc

vars == <<args, img, freeinode, freeblock, used, left, total, pc>>

nlog == LOGSIZE
nbitmap == (FSSIZE \div BPB) + 1
ninodeblocks == (NINODES \div IPB) + 1
nmeta == 2 + nlog + ninodeblocks + nbitmap
inodestart == 2 + nlog
bmapstart == inodestart + ninodeblocks
MAXFILE == NDIRECT + NINDIRECT
ROOTINO == 1

Inum == 1 .. MaxFiles + 1
zeroes == [k \in 0 .. BSIZE - 1 |-> 0]
NoInode == [type |-> 0, nlink |-> 0, size |-> 0, ref |-> 0, addrs |-> [n \in 0 .. NDIRECT |-> 0]]

\* main() up to the first ialloc(): every block is zeroed.
Init ==
    /\ args \in UNION {[1 .. n -> FileSizes] : n \in 0 .. MaxFiles}
    /\ img = [inode |-> [i \in Inum |-> NoInode], data |-> [b \in 1 .. FSSIZE - 1 |-> zeroes]]
    /\ freeinode = 1 /\ freeblock = nmeta
    /\ used = {} /\ left = 0
    /\ total = [i \in Inum |-> 0]
    /\ pc = "root"

\* ialloc(): the inode that winode() writes.
Allocated(m, type) == [m EXCEPT !.inode[freeinode] = [NoInode EXCEPT !.type = type, !.nlink = 1]]

\* Mutant: bcopy() to the start of the block.
OffsetZero(off) == 0

Offset(off) == off - (off \div BSIZE) * BSIZE

\* iappend() of n units with value v: w has the image, the next free block and
\* the address of the block at hand.
iappend(m, fb, inum, v, n) ==
    LET Address(w, bn) ==
            LET direct(x, k) == IF x.m.inode[inum].addrs[k] # 0
                                THEN [x EXCEPT !.x = x.m.inode[inum].addrs[k]]
                                ELSE [x EXCEPT !.m.inode[inum].addrs[k] = x.fb, !.x = x.fb, !.fb = @ + 1]
            IN  IF bn < NDIRECT THEN direct(w, bn)
                ELSE LET y == direct(w, NDIRECT)
                         k == bn - NDIRECT
                     IN  IF y.m.data[y.x][k] # 0 THEN [y EXCEPT !.x = y.m.data[y.x][k]]
                         ELSE [y EXCEPT !.m.data[y.x][k] = y.fb, !.x = y.fb, !.fb = @ + 1]
        Copied[k \in 0 .. n] ==
            IF k = 0 THEN [m |-> m, fb |-> fb, x |-> 0]
            ELSE LET w == Copied[k - 1]
                     off == w.m.inode[inum].size
                     y == Address(w, off \div BSIZE)
                 IN  [y EXCEPT !.m.data[y.x][Offset(off)] = v, !.m.inode[inum].size = off + 1]
    IN  Copied[n]

\* The root directory with "." and "..".
MakeRoot ==
    LET w == iappend(Allocated(img, 1), freeblock, ROOTINO, ROOTINO, 2)
    IN  /\ pc = "root"
        /\ img' = w.m /\ freeblock' = w.fb /\ freeinode' = freeinode + 1
        /\ pc' = "files" /\ UNCHANGED <<args, used, left, total>>

\* The next file: an inode, and an entry in the root directory.
AddFile ==
    LET w == iappend(Allocated(img, 2), freeblock, ROOTINO, freeinode, 1)
    IN  /\ pc = "files" /\ left = 0 /\ args # <<>>
        /\ img' = w.m /\ freeblock' = w.fb /\ freeinode' = freeinode + 1
        /\ left' = Head(args) /\ args' = Tail(args)
        /\ total' = [total EXCEPT ![freeinode] = Head(args)]
        /\ UNCHANGED <<used, pc>>

\* read(fd, buf, sizeof(buf)) returns up to a block, which is appended.
CopyFile ==
    LET inum == freeinode - 1 IN
    /\ pc = "files" /\ left > 0
    /\ \E cc \in 1 .. (IF left < BSIZE THEN left ELSE BSIZE) :
          LET w == iappend(img, freeblock, inum, inum, cc)
          IN  img' = w.m /\ freeblock' = w.fb /\ left' = left - cc
    /\ UNCHANGED <<args, freeinode, used, total, pc>>

RootSize(s) == ((s \div BSIZE) + 1) * BSIZE

\* "fix size of root inode dir"
FixRoot ==
    /\ pc = "files" /\ left = 0 /\ args = <<>>
    /\ img' = [img EXCEPT !.inode[ROOTINO].size = RootSize(@)]
    /\ pc' = "bitmap" /\ UNCHANGED <<args, freeinode, freeblock, used, left, total>>

\* balloc(freeblock) marks the blocks below freeblock.
Marked == 0 .. freeblock - 1

WriteBitmap ==
    /\ pc = "bitmap"
    /\ used' = Marked
    /\ pc' = "done" /\ UNCHANGED <<args, img, freeinode, freeblock, left, total>>

Done == pc = "done" /\ UNCHANGED vars

Next == MakeRoot \/ AddFile \/ CopyFile \/ FixRoot \/ WriteBitmap \/ Done

Spec == Init /\ [][Next]_vars

-----------------------------------------------------------------------------
(***************************************************************************)
(* Properties.                                                             *)
(***************************************************************************)
\* The kernel's view of the image: module File with this disk.
Kernel ==
    INSTANCE File WITH
        Proc <- {1}, initproc <- 1, File <- {1}, Fd <- {0}, Pipe <- {},
        Block <- nmeta .. FSSIZE - 1, MAXOPBLOCKS <- 1, Modes <- {}, Sizes <- {}, MaxWrites <- 0,
        alive <- {}, ofile <- <<>>, ftable <- <<>>, pipes <- <<>>, loc <- <<>>, writes <- 0,
        out <- <<>>, logged <- {}, panicked <- FALSE,
        inode <- img.inode, disk <- [used |-> used \ (0 .. nmeta - 1), data |-> img.data]

Files == 2 .. freeinode - 1

\* The bitmap that balloc() writes marks the metadata and exactly the blocks
\* that inodes of the image hold, each in one place: the kernel's balloc()
\* never hands out a block that is in use, nor fails to find a free one.  The
\* inodes lie in front of the bitmap, which would overwrite them.
ImageBitmap ==
    pc = "done" =>
        /\ (0 .. nmeta - 1) \subseteq used /\ Kernel!BlockOwnedOnce
        /\ \A i \in 1 .. freeinode - 1 : inodestart + (i \div IPB) < bmapstart

\* readi() finds in every file of the image the bytes that were copied, however
\* the reads of mkfs split them, and names every file in the root directory.
ImageContents ==
    pc = "done" =>
        /\ \A i \in Files : Kernel!Bytes(i) = [k \in 1 .. total[i] |-> i]
        /\ \A i \in Files : Kernel!ByteAt(ROOTINO, i) = i
        /\ Kernel!ByteAt(ROOTINO, 0) = ROOTINO /\ Kernel!ByteAt(ROOTINO, 1) = ROOTINO

\* A file has the blocks below its size and no others.  The root directory is
\* a whole number of blocks; when its entries fill their blocks its size
\* takes in a block that is not there.
ImageSizes ==
    pc = "done" =>
        /\ \A i \in Files, bn \in 0 .. MAXFILE - 1 :
              (IF bn < NDIRECT \/ img.inode[i].addrs[NDIRECT] # 0 THEN Kernel!AddrOf(i, bn) # 0 ELSE FALSE)
                  <=> bn * BSIZE < img.inode[i].size
        /\ LET entries == Cardinality(Files) + 2
               size == img.inode[ROOTINO].size
           IN  size % BSIZE = 0 /\ entries < size /\ size <= entries + BSIZE

=============================================================================
