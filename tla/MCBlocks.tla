------------------------------- MODULE MCBlocks -----------------------------
(***************************************************************************)
(* Model checking of the block layer, each part for itself: the buffer     *)
(* cache with the disk driver (BufCache) and the log (Log).  `part' says   *)
(* which of them a behaviour is of; v1, v2, ... hold the log's state.      *)
(***************************************************************************)
EXTENDS BufCache, TLC

CONSTANTS Others, LOGSIZE, NLOG, MAXOPBLOCKS, OpBlocks

VARIABLES part, v1, v2, v3, v4, v5, v6, v7, v8, v9, v10, v11, v12, v13

logVars == <<v1, v2, v3, v4, v5, v6, v7, v8, v9, v10, v11, v12, v13>>

L == INSTANCE Log WITH
        Proc <- Proc \cup Others,
        disk <- v1, logdisk <- v2, head <- v3, mem <- v4, dirty <- v5, lh <- v6, outstanding <- v7,
        committing <- v8, pc <- v9, held <- v10, written <- v11, tail <- v12, running <- v13

ASSUME L!LogAssumption

BlocksInit ==
    /\ Init
    /\ \/ part = "log" /\ L!Init
       \/ /\ part = "cache"
          /\ v1 = 0 /\ v2 = 0 /\ v3 = 0 /\ v4 = 0 /\ v5 = 0 /\ v6 = 0 /\ v7 = 0
          /\ v8 = 0 /\ v9 = 0 /\ v10 = 0 /\ v11 = 0 /\ v12 = 0 /\ v13 = 0

BlocksNext ==
    \/ part = "cache" /\ Next /\ UNCHANGED <<part, logVars>>
    \/ part = "log" /\ L!Next /\ UNCHANGED <<part, vars>>

BlocksSpec == BlocksInit /\ [][BlocksNext]_<<part, vars, logVars>>

\* Processes and blocks are interchangeable; buffers are not, for bcache.head is
\* initialised in one order.  The log has some processes more.
BlocksSymmetry == Permutations(Proc) \cup Permutations(Others) \cup Permutations(Block)

\* The data of a buffer that is not valid, and the data that comes with a read
\* command or at the end of a write, are not looked at: every read succeeds.
BlocksView ==
    <<part, logVars, disk, blockno, refcnt, valid, dirty,
      [b \in Buf |-> IF valid[b] THEN data[b] ELSE InitVal], holder, lru, idequeue, pc, procVars,
      IF drive.op = "read" \/ (drive.op = "done" /\ dirty[Head(idequeue)])
      THEN drive.op ELSE drive>>

-----------------------------------------------------------------------------
\* bread() returns the block's contents, and bget() always finds a buffer.
CacheServes == BreadContents /\ NoPanic

\* Nobody sleeps in begin_op() with nobody left to wake them.
NoStrandedCaller == part = "log" => L!NoStrandedCaller

\* The log implements Journal: operations are atomic with respect to crashes;
\* and log_write() never finds the log full.
AtomicOperations ==
    /\ part = "log" => L!J!Init
    /\ [](part = "log" => L!TypeOK /\ L!LogFits)
    /\ [][part = "log" => L!JournalStep]_<<part, logVars>>

=============================================================================
