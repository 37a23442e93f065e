------------------------------- MODULE MCFiles ------------------------------
(***************************************************************************)
(* Model checking of File, once with few descriptors and calls of read()   *)
(* and write() (Data) and once with pipes and more descriptors, whose      *)
(* contents do not matter (Table), and of Mkfs, whose image File reads.    *)
(* `part' says which of them a behaviour is of; Mkfs has its state in the  *)
(* same variables.                                                         *)
(***************************************************************************)
EXTENDS Integers, FiniteSets

CONSTANTS Proc, Sizes, MaxWrites, FileSizes, MaxFiles

VARIABLES part, alive, ofile, ftable, pipes, inode, disk, pc, loc, panicked, writes, out, logged

fileVars == <<alive, ofile, ftable, pipes, inode, disk, pc, loc, panicked, writes, out, logged>>

\* A block of the bitmap for every bit, so that each balloc() logs its own.
Data == INSTANCE File WITH
            initproc <- 1, File <- {1, 2}, Fd <- {0}, Pipe <- {}, Inum <- {1, 2}, Block <- {1, 2, 3},
            NDIRECT <- 1, NINDIRECT <- 1, BSIZE <- 2, BPB <- 1, MAXOPBLOCKS <- 2, Modes <- {"RDWR"}
Table == INSTANCE File WITH
            initproc <- 1, File <- {1, 2, 3}, Fd <- {0, 1}, Pipe <- {1}, Inum <- {1}, Block <- {1},
            NDIRECT <- 1, NINDIRECT <- 1, BSIZE <- 2, BPB <- 1, MAXOPBLOCKS <- 2, Sizes <- {},
            Modes <- {"RDONLY", "WRONLY"}
Image == INSTANCE Mkfs WITH
            FSSIZE <- 32, NINODES <- 4, IPB <- 2, LOGSIZE <- 2, BPB <- 40, NDIRECT <- 2, NINDIRECT <- 2,
            BSIZE <- 2, args <- alive, img <- ofile, freeinode <- ftable, freeblock <- pipes,
            used <- inode, left <- disk, total <- loc

FilesInit ==
    \/ part = "data" /\ Data!Init
    \/ part = "table" /\ Table!Init
    \/ part = "image" /\ Image!Init /\ panicked = FALSE /\ writes = 0 /\ out = 0 /\ logged = 0

FilesNext ==
    \/ part = "data" /\ Data!Next /\ UNCHANGED part
    \/ part = "table" /\ Table!Next /\ UNCHANGED part
    \/ part = "image" /\ Image!Next /\ UNCHANGED <<part, panicked, writes, out, logged>>

FilesSpec == FilesInit /\ [][FilesNext]_<<part, fileVars>>

\* Nothing depends on what a free block holds, for balloc() clears it, on what
\* the last read() returned, or on which blocks the last transaction wrote; only
\* whether those were too many is a property of the state.
FilesView ==
    IF part = "image" THEN <<part, fileVars>>
    ELSE <<part, alive, ofile, ftable, pipes, inode, disk.used, [b \in disk.used |-> disk.data[b]],
           pc, loc, panicked, writes, Data!TransactionFits>>

-----------------------------------------------------------------------------
\* The count of an open file is the number of descriptors and closing calls
\* that refer to it, that of an inode the number of open files; an end of a
\* pipe is open while an open file refers to it, and no longer.
RefsAreExact ==
    /\ part = "data" => Data!TypeOK /\ Data!FileRefs /\ Data!InodeRefs
    /\ part = "table" => Table!TypeOK /\ Table!FileRefs /\ Table!InodeRefs /\ Table!PipeEnds

\* A block belongs to one file or is free in the bitmap, and a file has a block
\* for every byte.
BlocksAreExact == part = "data" => Data!BlockOwnedOnce /\ Data!NoHoles

\* A transaction of filewrite() writes no more blocks than the log holds.
TransactionFits == part = "data" => Data!TransactionFits

\* Files are sequences of bytes with shared offsets.
FilesAreBytes == (part = "data" => Data!Abstract!Init) /\ [][part = "data" => Data!BytesStep]_<<part, fileVars>>

\* The kernel reads the files of the image as they were copied and finds their
\* blocks below their size; the bitmap has the blocks in use, and no other.
ImageIsReadable == part = "image" => Image!ImageBitmap /\ Image!ImageContents /\ Image!ImageSizes

=============================================================================
