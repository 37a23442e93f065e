-------------------------------- MODULE File --------------------------------
(***************************************************************************)
(* File contents and descriptors: blocks, bmap, readi, writei and itrunc   *)
(* of fs.c, the open file table of file.c, the descriptors of sysfile.c,   *)
(* and what fork() and exit() do with them.                                *)
(*                                                                         *)
(* A step is a critical section: of ftable.lock, of an inode's lock or of  *)
(* a pipe's lock.  A name is an inode number; directories, the inode cache *)
(* and transactions are modules of their own.                              *)
(***************************************************************************)
EXTENDS Integers, Sequences, FiniteSets, FiniteSetsExt, SequencesExt

CONSTANTS
    Proc, initproc,             \* processes; the one that is always there
    File, Fd, Pipe,             \* slots: ftable.file, proc->ofile, pages of pipes
    Inum, Block,                \* inodes and data blocks, numbers from 1 on
    NDIRECT, NINDIRECT, BSIZE,  \* block addresses in an inode, in a block; bytes in a block
    BPB,                        \* bits in a block of the bitmap
    MAXOPBLOCKS,                \* blocks that an operation may write
    Modes,                      \* modes of open(): "RDONLY", "WRONLY", "RDWR"
    Sizes,                      \* arguments of read() and write()
    MaxWrites                   \* bound on the calls of write()

VARIABLES
    alive,      \* processes
    ofile,      \* p->ofile
    ftable,     \* ftable.file
    pipes,      \* open ends of the pipes
    inode,      \* type (0: free), nlink, size, addrs, ref: in-memory references
    disk,       \* bitmap and blocks
    pc, loc,    \* step of the running call and its locals
    panicked,
    writes,     \* calls of write() so far
    out,        \* what this step's read() returned
    logged      \* blocks this step's transaction of filewrite() wrote

vars == <<alive, ofile, ftable, pipes, inode, disk, pc, loc, panicked, writes, out, logged>>

LOGSIZE == 3 * MAXOPBLOCKS
MAXFILE == NDIRECT + NINDIRECT

-----------------------------------------------------------------------------
(***************************************************************************)
(* Blocks.  The state w of a transaction has the bitmap, the contents of   *)
(* the blocks, the addresses of the inode, the blocks logged and whether   *)
(* balloc() ever found no free block.                                      *)
(***************************************************************************)
Zeroed == [k \in 0 .. BSIZE - 1 |-> 0]
Bitmap(b) == <<"bitmap", b \div BPB>>

bzero(data, b) == [data EXCEPT ![b] = Zeroed]

balloc(w) ==
    LET left == Block \ w.used IN
    IF left = {} THEN [w EXCEPT !.ok = FALSE, !.addr = 0]
    ELSE LET b == Min(left) IN
         [w EXCEPT !.used = @ \cup {b}, !.data = bzero(@, b), !.addr = b,
                   !.logged = @ \cup {Bitmap(b), <<"data", b>>}]

\* bmap(): w.addr is the address of the nth block, allocated if there is none.
bmap(w, bn) ==
    LET direct(x, n) == IF x.addrs[n] # 0 THEN [x EXCEPT !.addr = x.addrs[n]]
                        ELSE LET y == balloc(x) IN [y EXCEPT !.addrs[n] = y.addr]
    IN  IF bn < NDIRECT THEN direct(w, bn)
        ELSE LET x == direct(w, NDIRECT)
                 ind == x.addr
                 n == bn - NDIRECT
             IN  IF ~x.ok THEN x
                 ELSE IF x.data[ind][n] # 0 THEN [x EXCEPT !.addr = x.data[ind][n]]
                 ELSE LET y == balloc(x) IN
                      IF ~y.ok THEN y
                      ELSE [y EXCEPT !.data[ind][n] = y.addr, !.logged = @ \cup {<<"data", ind>>}]

\* The loop of writei(), a byte at a time: n bytes v from offset off on.
WriteBytes(w0, off, n, v) ==
    FoldLeft(LAMBDA w, k :
                LET x == bmap(w, (off + k) \div BSIZE) IN
                IF ~x.ok THEN x
                ELSE [x EXCEPT !.data[x.addr][(off + k) % BSIZE] = v, !.logged = @ \cup {<<"data", x.addr>>}],
             w0, [k \in 1 .. n |-> k - 1])

Begin(i) == [used |-> disk.used, data |-> disk.data, addrs |-> inode[i].addrs,
             addr |-> 0, logged |-> {}, ok |-> TRUE]

\* The bytes of inode i, found through its block addresses.
AddrOf(i, bn) ==
    IF bn < NDIRECT THEN inode[i].addrs[bn]
    ELSE disk.data[inode[i].addrs[NDIRECT]][bn - NDIRECT]
ByteAt(i, k) == disk.data[AddrOf(i, k \div BSIZE)][k % BSIZE]
Bytes(i) == [k \in 1 .. inode[i].size |-> ByteAt(i, k - 1)]

\* Mutant: itrunc() forgets the blocks behind the indirect block.
IndirectForgotten(i) == {}

\* Blocks that inode i holds: data blocks and the indirect block.
Indirect(i) == IF inode[i].addrs[NDIRECT] = 0 THEN {} ELSE Range(disk.data[inode[i].addrs[NDIRECT]])
BlocksOf(i) == (Range(inode[i].addrs) \cup Indirect(i)) \ {0}

FreeInode == [type |-> 0, nlink |-> 0, size |-> 0, ref |-> 0, addrs |-> [n \in 0 .. NDIRECT |-> 0]]

\* Mutant: iput() looks at the links alone.
iputEarly(i) ==
    IF inode[i].nlink = 0
      THEN /\ disk' = [disk EXCEPT !.used = @ \ BlocksOf(i)]
           /\ inode' = [inode EXCEPT ![i] = FreeInode]
      ELSE /\ inode' = [inode EXCEPT ![i].ref = @ - 1]
           /\ disk' = disk

\* iput(): the last reference to an inode without links truncates it with
\* itrunc() and frees it.
iput(i) ==
    IF inode[i].ref = 1 /\ inode[i].nlink = 0
      THEN /\ disk' = [disk EXCEPT !.used = @ \ BlocksOf(i)]
           /\ inode' = [inode EXCEPT ![i] = FreeInode]
      ELSE /\ inode' = [inode EXCEPT ![i].ref = @ - 1]
           /\ disk' = disk

-----------------------------------------------------------------------------
(***************************************************************************)
(* Descriptors and the open file table.                                    *)
(***************************************************************************)
FreeFile == [ref |-> 0, type |-> "NONE", readable |-> FALSE, writable |-> FALSE,
             ip |-> 0, off |-> 0, pipe |-> 0]
Idle == [todo |-> <<>>, ff |-> FreeFile, f |-> 0, i |-> 0, n |-> 0]

Init ==
    /\ alive = {initproc}
    /\ ofile = [p \in Proc |-> [fd \in Fd |-> 0]]
    /\ ftable = [f \in File |-> FreeFile]
    /\ pipes = [q \in Pipe |-> {}]
    /\ inode = [i \in Inum |-> FreeInode]
    /\ disk = [used |-> {}, data |-> [b \in Block |-> Zeroed]]
    /\ logged = {} /\ writes = 0 /\ out = <<>> /\ panicked = FALSE
    /\ pc = [p \in Proc |-> "user"]
    /\ loc = [p \in Proc |-> Idle]

Report(bytes, blocks) == out' = bytes /\ logged' = blocks
Quiet == Report(<<>>, {}) /\ UNCHANGED writes

FreeFds(p) == {fd \in Fd : ofile[p][fd] = 0}
FreeSlots == {f \in File : ftable[f].ref = 0}
Ready(p) == p \in alive /\ pc[p] = "user" /\ ~panicked

\* sys_open(), with O_CREATE where the file does not exist.
Open(p) ==
    /\ Ready(p) /\ FreeSlots # {} /\ FreeFds(p) # {}
    /\ \E i \in Inum, omode \in Modes :
          LET f == Min(FreeSlots) IN
          /\ inode[i].nlink > 0 \/ (inode[i].type = 0 /\ inode[i].ref = 0)
          /\ inode' = [inode EXCEPT ![i].type = 1, ![i].nlink = 1, ![i].ref = @ + 1]
          /\ ofile' = [ofile EXCEPT ![p][Min(FreeFds(p))] = f]
          /\ ftable' = [ftable EXCEPT ![f] = [ref |-> 1, type |-> "INODE", readable |-> omode # "WRONLY",
                            writable |-> omode # "RDONLY", ip |-> i, off |-> 0, pipe |-> 0]]
    /\ Quiet /\ UNCHANGED <<alive, pipes, disk, pc, loc, panicked>>

\* Without a slot or a descriptor: the file that create() made stays.
OpenFails(p) ==
    /\ Ready(p) /\ (FreeSlots = {} \/ FreeFds(p) = {})
    /\ \E i \in Inum :
          /\ inode[i].type = 0 /\ inode[i].ref = 0
          /\ inode' = [inode EXCEPT ![i].type = 1, ![i].nlink = 1]
    /\ Quiet /\ UNCHANGED <<alive, ofile, ftable, pipes, disk, pc, loc, panicked>>

\* sys_unlink() of a file.
Unlink(p) ==
    /\ Ready(p)
    /\ \E i \in Inum :
          /\ inode[i].nlink > 0
          /\ IF inode[i].ref = 0
               THEN /\ disk' = [disk EXCEPT !.used = @ \ BlocksOf(i)]
                    /\ inode' = [inode EXCEPT ![i] = FreeInode]
               ELSE inode' = [inode EXCEPT ![i].nlink = @ - 1] /\ disk' = disk
    /\ Quiet /\ UNCHANGED <<alive, ofile, ftable, pipes, pc, loc, panicked>>

\* sys_dup()
Dup(p) ==
    /\ Ready(p) /\ FreeFds(p) # {}
    /\ \E fd \in Fd \ FreeFds(p) :
          /\ ofile' = [ofile EXCEPT ![p][Min(FreeFds(p))] = ofile[p][fd]]
          /\ ftable' = [ftable EXCEPT ![ofile[p][fd]].ref = @ + 1]
    /\ Quiet /\ UNCHANGED <<alive, pipes, inode, disk, pc, loc, panicked>>

\* sys_pipe() and pipealloc(): two slots and a page, then two descriptors;
\* without the descriptors both files are closed again.
MakePipe(p) ==
    LET rf == Min(FreeSlots)
        wf == Min(FreeSlots \ {rf})
        fd0 == Min(FreeFds(p))
        fd1 == Min(FreeFds(p) \ {fd0})
        end(q, r) == [FreeFile EXCEPT !.ref = 1, !.type = "PIPE", !.readable = r, !.writable = ~r, !.pipe = q]
    IN  /\ Ready(p) /\ Cardinality(FreeSlots) >= 2
        /\ \E q \in Pipe :
              /\ pipes[q] = {}
              /\ pipes' = [pipes EXCEPT ![q] = {"read", "write"}]
              /\ ftable' = [ftable EXCEPT ![rf] = end(q, TRUE), ![wf] = end(q, FALSE)]
        /\ IF Cardinality(FreeFds(p)) >= 2
             THEN ofile' = [ofile EXCEPT ![p][fd0] = rf, ![p][fd1] = wf] /\ UNCHANGED <<pc, loc>>
             ELSE /\ pc' = [pc EXCEPT ![p] = "close"]
                  /\ loc' = [loc EXCEPT ![p].todo = <<rf, wf>>]
                  /\ UNCHANGED ofile
        /\ Quiet /\ UNCHANGED <<alive, inode, disk, panicked>>

\* Mutant: filedup() once for each file, not for each descriptor.
CopiedOnce(p, f) == IF \E fd \in Fd : ofile[p][fd] = f THEN 1 ELSE 0

\* Calls of filedup(f) in fork().
Copies(p, f) == Cardinality({fd \in Fd : ofile[p][fd] = f})

\* The descriptors that fork() copies to the child.
Fork(p) ==
    /\ Ready(p)
    /\ \E c \in Proc \ alive :
          /\ alive' = alive \cup {c}
          /\ ofile' = [ofile EXCEPT ![c] = ofile[p]]
    /\ ftable' = [f \in File |-> [ftable[f] EXCEPT !.ref = @ + Copies(p, f)]]
    /\ Quiet /\ UNCHANGED <<pipes, inode, disk, pc, loc, panicked>>

\* sys_close(), or a turn of the loop in exit(), which clears the descriptor
\* last; nobody else reads it.
Close(p) ==
    /\ pc[p] \in {"user", "exit"} /\ p \in alive /\ ~panicked
    /\ \E fd \in Fd \ FreeFds(p) :
          /\ pc[p] = "exit" => \A e \in Fd \ FreeFds(p) : fd <= e
          /\ loc' = [loc EXCEPT ![p].todo = <<ofile[p][fd]>>]
          /\ ofile' = [ofile EXCEPT ![p][fd] = 0]
    /\ pc' = [pc EXCEPT ![p] = IF @ = "exit" THEN "exitclose" ELSE "close"]
    /\ Quiet /\ UNCHANGED <<alive, ftable, pipes, inode, disk, panicked>>

After(p) == [pc EXCEPT ![p] = IF Len(loc[p].todo) > 1 THEN @ ELSE IF @ = "close" THEN "user" ELSE "exit"]

\* The slot afterwards.
ClosedFile(f) == FreeFile

\* fileclose() under ftable.lock: the last reference copies the file and frees
\* the slot.
fileclose(p) ==
    LET f == Head(loc[p].todo) IN
    /\ pc[p] \in {"close", "exitclose"} /\ loc[p].ff = FreeFile /\ ~panicked
    /\ IF ftable[f].ref > 1
         THEN /\ ftable' = [ftable EXCEPT ![f].ref = @ - 1]
              /\ pc' = After(p) /\ loc' = [loc EXCEPT ![p].todo = Tail(@)]
         ELSE /\ ftable' = [ftable EXCEPT ![f] = ClosedFile(f)]
              /\ loc' = [loc EXCEPT ![p].ff = ftable[f]] /\ pc' = pc
    /\ Quiet /\ UNCHANGED <<alive, ofile, pipes, inode, disk, panicked>>

\* pipeclose(ff.pipe, ff.writable)
PipeEnd(ff) == IF ff.writable THEN "write" ELSE "read"

\* The rest of fileclose(): pipeclose() or iput() on the copy.
Release(p) ==
    LET ff == loc[p].ff IN
    /\ pc[p] \in {"close", "exitclose"} /\ ff # FreeFile /\ ~panicked
    /\ IF ff.type = "PIPE"
         THEN /\ pipes' = [pipes EXCEPT ![ff.pipe] = @ \ {PipeEnd(ff)}]
              /\ UNCHANGED <<inode, disk>>
         ELSE iput(ff.ip) /\ UNCHANGED pipes
    /\ pc' = After(p)
    /\ loc' = [loc EXCEPT ![p].ff = FreeFile, ![p].todo = Tail(@)]
    /\ Quiet /\ UNCHANGED <<alive, ofile, ftable, panicked>>

Exit(p) ==
    /\ Ready(p) /\ p # initproc
    /\ pc' = [pc EXCEPT ![p] = "exit"]
    /\ Quiet /\ UNCHANGED <<alive, ofile, ftable, pipes, inode, disk, loc, panicked>>

Exited(p) ==
    /\ pc[p] = "exit" /\ FreeFds(p) = Fd /\ ~panicked
    /\ alive' = alive \ {p}
    /\ pc' = [pc EXCEPT ![p] = "user"]
    /\ Quiet /\ UNCHANGED <<ofile, ftable, pipes, inode, disk, loc, panicked>>

-----------------------------------------------------------------------------
\* fileread() of an inode, and readi().
Read(p) ==
    /\ Ready(p)
    /\ \E fd \in Fd \ FreeFds(p), n \in Sizes :
          LET f == ofile[p][fd]
              off == ftable[f].off
              size == inode[ftable[f].ip].size
              r == Min({n, size - off})
          IN  /\ ftable[f].type = "INODE" /\ ftable[f].readable /\ off <= size
              /\ Report([k \in 1 .. r |-> ByteAt(ftable[f].ip, off + k - 1)], {}) /\ UNCHANGED writes
              /\ ftable' = [ftable EXCEPT ![f].off = off + r]
    /\ UNCHANGED <<alive, ofile, pipes, inode, disk, pc, loc, panicked>>

\* filewrite() of an inode.
Write(p) ==
    /\ Ready(p)
    /\ \E fd \in Fd \ FreeFds(p), n \in Sizes :
          /\ ftable[ofile[p][fd]].type = "INODE" /\ ftable[ofile[p][fd]].writable
          /\ loc' = [loc EXCEPT ![p] = [Idle EXCEPT !.f = ofile[p][fd], !.n = n]]
    /\ pc' = [pc EXCEPT ![p] = "write"]
    /\ writes < MaxWrites /\ writes' = writes + 1
    /\ Report(<<>>, {}) /\ UNCHANGED <<alive, ofile, ftable, pipes, inode, disk, panicked>>

\* Mutant: the comment's "a few blocks" are all that the log has.
maxLog == LOGSIZE * BSIZE

\* The most that a turn of its loop writes.
max == ((LOGSIZE - 1 - 1 - 2) \div 2) * BSIZE

\* writei(): ip->size moves when the write ends behind it.
NewSize(i, off, n) == IF off + n > inode[i].size THEN off + n ELSE inode[i].size

\* A turn of the loop, one transaction: writei(), which puts p's own byte into
\* every place, and the new offset.
WriteChunk(p) ==
    LET f == loc[p].f
        i == ftable[f].ip
        off == ftable[f].off
        n1 == Min({loc[p].n - loc[p].i, max})
        w == WriteBytes(Begin(i), off, n1, p)
        grows == off + n1 > inode[i].size
        done == loc[p].i + n1 = loc[p].n
    IN  /\ pc[p] = "write" /\ ~panicked
        /\ IF off > inode[i].size \/ off + n1 > MAXFILE * BSIZE
             THEN /\ pc' = [pc EXCEPT ![p] = "user"] /\ loc' = [loc EXCEPT ![p] = Idle]
                  /\ Quiet /\ UNCHANGED <<ftable, inode, disk, panicked>>
             ELSE IF ~w.ok
             THEN panicked' = TRUE /\ Quiet /\ UNCHANGED <<ftable, inode, disk, pc, loc>>
             ELSE /\ disk' = [used |-> w.used, data |-> w.data]
                  /\ inode' = [inode EXCEPT ![i].addrs = w.addrs, ![i].size = NewSize(i, off, n1)]
                  /\ Report(<<>>, w.logged \cup (IF grows THEN {<<"inode", i>>} ELSE {})) /\ UNCHANGED writes
                  /\ ftable' = [ftable EXCEPT ![f].off = off + n1]
                  /\ pc' = [pc EXCEPT ![p] = IF done THEN "user" ELSE @]
                  /\ loc' = [loc EXCEPT ![p] = IF done THEN Idle ELSE [@ EXCEPT !.i = @ + n1]]
                  /\ UNCHANGED panicked
        /\ UNCHANGED <<alive, ofile, pipes>>

\* After balloc's panic nothing moves.
Halted == panicked /\ UNCHANGED vars

Next ==
    \/ \E p \in Proc : \/ Open(p) \/ OpenFails(p) \/ Unlink(p) \/ Dup(p) \/ MakePipe(p) \/ Fork(p) \/ Close(p)
                       \/ fileclose(p) \/ Release(p) \/ Exit(p) \/ Exited(p)
                       \/ Read(p) \/ Write(p) \/ WriteChunk(p)
    \/ Halted

Spec == Init /\ [][Next]_vars

-----------------------------------------------------------------------------
(***************************************************************************)
(* Properties.                                                             *)
(***************************************************************************)
\* What every variable holds (ftable, ofile, the inodes and the locals).
TypeOK ==
    /\ alive \subseteq Proc /\ initproc \in alive
    /\ ofile \in [Proc -> [Fd -> File \cup {0}]]
    /\ \A f \in File : ftable[f].ref \in Nat /\ (ftable[f].ref = 0 <=> ftable[f].type = "NONE")
    /\ \A i \in Inum : inode[i].ref \in Nat /\ inode[i].size \in 0 .. MAXFILE * BSIZE
    /\ disk.used \subseteq Block
    /\ pc \in [Proc -> {"user", "close", "exit", "exitclose", "write"}]

\* Files that p is about to close.
Closing(p) == IF loc[p].ff = FreeFile THEN ToSet(loc[p].todo) ELSE ToSet(Tail(loc[p].todo))
Released(p) == IF loc[p].ff = FreeFile THEN {} ELSE {loc[p].ff}

\* The reference counts of ftable are the descriptors that name the file and
\* the calls of fileclose() to come: dup(), fork(), pipe() that runs out of
\* descriptors, close() and exit() in any order keep them exact.
FileRefs ==
    \A f \in File : ftable[f].ref =
        Cardinality({pf \in Proc \X Fd : ofile[pf[1]][pf[2]] = f})
            + Cardinality({p \in Proc : f \in Closing(p)})

\* An inode is referenced once per open file, counting the copies that
\* fileclose() made of files whose slot may be in use again.
InodeRefs ==
    \A i \in Inum : inode[i].ref =
        Cardinality({f \in File : ftable[f].type = "INODE" /\ ftable[f].ip = i})
            + Cardinality({p \in Proc : \E ff \in Released(p) : ff.type = "INODE" /\ ff.ip = i})

\* An end of a pipe is open as long as somebody can close it; both slots and
\* the page of a pipe come back together.
PipeEnds ==
    \A q \in Pipe : pipes[q] =
        {IF x.writable THEN "write" ELSE "read" :
            x \in {y \in Range(ftable) \cup UNION {Released(p) : p \in Proc} : y.type = "PIPE" /\ y.pipe = q}}

\* The bitmap is right: a block is in use when one inode holds it in one place,
\* as data or as its indirect block.
BlockOwnedOnce ==
    LET places == {<<i, "addrs", n>> : i \in Inum, n \in 0 .. NDIRECT}
                    \cup {<<i, "indirect", n>> : i \in {j \in Inum : inode[j].addrs[NDIRECT] # 0},
                                                 n \in 0 .. NINDIRECT - 1}
        at(x) == IF x[2] = "addrs" THEN inode[x[1]].addrs[x[3]]
                 ELSE disk.data[inode[x[1]].addrs[NDIRECT]][x[3]]
        set == {x \in places : at(x) # 0}
    IN  /\ disk.used = {at(x) : x \in set}
        /\ \A x, y \in set : at(x) = at(y) => x = y

\* A file has the blocks below its size and no others, so readi() never makes
\* bmap() allocate (it runs outside any transaction).
NoHoles ==
    \A i \in Inum, bn \in 0 .. MAXFILE - 1 :
        LET there == IF bn < NDIRECT \/ inode[i].addrs[NDIRECT] # 0 THEN AddrOf(i, bn) # 0 ELSE FALSE
        IN  there <=> bn * BSIZE < inode[i].size

\* "write a few blocks at a time to avoid exceeding the maximum log transaction
\* size" (file.c:127): a turn of the loop in filewrite() writes at most LOGSIZE
\* blocks, with data, bitmap, indirect and inode blocks counted.
TransactionFits == Cardinality(logged) <= LOGSIZE

\* Blocks, bitmap, indirect blocks, descriptors and reference counts implement
\* byte sequences with shared offsets (readi, writei, bmap, itrunc, fileclose).
Abstract ==
    INSTANCE ByteFiles WITH
        Byte <- Proc, MaxBytes <- MAXFILE * BSIZE, Closed <- [ip |-> 0, off |-> 0],
        content <- [i \in Inum |-> Bytes(i)],
        open <- [f \in File |-> IF ftable[f].type = "INODE"
                                THEN [ip |-> ftable[f].ip, off |-> ftable[f].off]
                                ELSE [ip |-> 0, off |-> 0]]
FilesAreBytes == Abstract!Spec
BytesStep == [Abstract!Next]_(Abstract!vars)

=============================================================================
