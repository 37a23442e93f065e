-------------------------------- MODULE Log --------------------------------
(***************************************************************************)
(* log.c on a disk that writes one block at a time, with machine crashes   *)
(* at any point, recovery included, and with the buffer cache's eviction   *)
(* of blocks that log_write() has not pinned.                              *)
(*                                                                         *)
(* A critical section of log.lock is one step, and so is one bwrite().     *)
(***************************************************************************)
EXTENDS Naturals, FiniteSets, Sequences, SequencesExt

CONSTANTS
    Proc,           \* processes that make file system calls
    Block,          \* home blocks
    Val, InitVal,   \* contents of a block
    LOGSIZE,        \* capacity of log.lh.block[]
    NLOG,           \* log.size: blocks of the on-disk log, its header included
    MAXOPBLOCKS,    \* blocks that begin_op() reserves for an operation
    OpBlocks        \* distinct blocks that an operation really writes, at most

LogAssumption ==
    /\ IsFiniteSet(Proc) /\ InitVal \in Val
    /\ LOGSIZE \in Nat /\ NLOG \in Nat \ {0}
    /\ MAXOPBLOCKS \in 1 .. LOGSIZE /\ OpBlocks \in Nat

VARIABLES
    disk,           \* home blocks on disk
    logdisk,        \* the log's data blocks on disk
    head,           \* the log's header block on disk: the blocks it names
    mem,            \* contents of the blocks as bread() returns them
    dirty,          \* blocks with B_DIRTY, which bget() does not recycle
    lh,             \* log.lh
    outstanding, committing,
    pc, held,       \* what each process does; the buffer it has locked
    written,        \* blocks written so far by each process's operation
    tail,           \* loop variable of write_log() and install_trans()
    running         \* "up", or the step of recover_from_log() after a crash

vars == <<disk, logdisk, head, mem, dirty, lh, outstanding, committing, pc, held,
          written, tail, running>>

diskVars == <<disk, logdisk, head>>

Init ==
    /\ disk = [b \in Block |-> InitVal]
    /\ logdisk = [i \in 1 .. LOGSIZE |-> InitVal]
    /\ head = <<>>
    /\ mem = disk
    /\ dirty = {}
    /\ lh = <<>>
    /\ outstanding = 0
    /\ committing = FALSE
    /\ pc = [p \in Proc |-> "idle"]
    /\ held = [p \in Proc |-> {}]
    /\ written = [p \in Proc |-> {}]
    /\ tail = 1
    /\ running = "up"

Goto(p, l) == pc' = [pc EXCEPT ![p] = l]

\* Mutant: end_op() forgets its wakeup(&log).
NobodyWoken(f) == f

\* wakeup(&log): every process asleep in begin_op() goes round its loop again.
WakeAll(f) == [p \in Proc |-> IF f[p] = "asleep" THEN "begin" ELSE f[p]]

\* begin_op()'s test: this operation might exhaust the log.
MightExhaust == Len(lh) + (outstanding + 1) * MAXOPBLOCKS > LOGSIZE

Admitted == outstanding + 1

\* A system call enters begin_op().
CallBegin(p) ==
    /\ running = "up" /\ pc[p] = "idle"
    /\ Goto(p, "begin")
    /\ UNCHANGED <<diskVars, mem, dirty, lh, outstanding, committing, held, written, tail, running>>

\* One turn of begin_op()'s loop.
begin_op(p) ==
    /\ running = "up" /\ pc[p] = "begin"
    /\ IF committing \/ MightExhaust
       THEN Goto(p, "asleep") /\ UNCHANGED outstanding
       ELSE Goto(p, "op") /\ outstanding' = Admitted
    /\ UNCHANGED <<diskVars, mem, dirty, lh, committing, held, written, tail, running>>

Full == Len(lh) >= LOGSIZE \/ Len(lh) >= NLOG - 1

\* The caller modifies a block whose buffer it has locked, and log_write() makes
\* its first, unlocked test.
Modify(p, b, v) ==
    /\ running = "up" /\ pc[p] = "op"
    /\ \A q \in Proc : b \notin held[q]
    /\ Cardinality(written[p] \cup {b}) <= OpBlocks
    /\ mem' = [mem EXCEPT ![b] = v]
    /\ held' = [held EXCEPT ![p] = {b}]
    /\ written' = [written EXCEPT ![p] = @ \cup {b}]
    /\ Goto(p, IF Full THEN "panic" ELSE "log_write")
    /\ UNCHANGED <<diskVars, dirty, lh, outstanding, committing, tail, running>>

\* log.lh after the loop of log_write(): a block is logged once (absorption).
Absorb(b) == IF \E i \in 1 .. Len(lh) : lh[i] = b THEN lh ELSE Append(lh, b)

\* Mutant: the block is not pinned.
NotPinned(b) == dirty

Pinned(b) == dirty \cup {b}

\* log_write() under log.lock, and the caller's brelse().
log_write(p) ==
    /\ running = "up" /\ pc[p] = "log_write"
    /\ \E b \in held[p] :
          /\ lh' = Absorb(b)
          /\ dirty' = Pinned(b)
    /\ held' = [held EXCEPT ![p] = {}]
    /\ Goto(p, "op")
    /\ UNCHANGED <<diskVars, mem, outstanding, committing, written, tail, running>>

\* end_op() found itself last.
LastOut == outstanding = 1

\* end_op()'s first critical section, and commit()'s test for an empty log.
end_op(p) ==
    /\ running = "up" /\ pc[p] = "op"
    /\ outstanding' = outstanding - 1
    /\ written' = [written EXCEPT ![p] = {}]
    /\ committing' = LastOut
    /\ IF LastOut
       THEN Goto(p, IF lh = <<>> THEN "end" ELSE "write_log")
       ELSE pc' = WakeAll([pc EXCEPT ![p] = "idle"])
    /\ tail' = 1
    /\ UNCHANGED <<diskVars, mem, dirty, lh, held, running>>

\* One block of write_log(): from the cache to the log.
write_log(p) ==
    /\ running = "up" /\ pc[p] = "write_log"
    /\ logdisk' = [logdisk EXCEPT ![tail] = mem[lh[tail]]]
    /\ IF tail = Len(lh)
       THEN Goto(p, "write_head") /\ tail' = 1
       ELSE tail' = tail + 1 /\ UNCHANGED pc
    /\ UNCHANGED <<disk, head, mem, dirty, lh, outstanding, committing, held, written, running>>

\* write_head(): the commit point.
write_head(p) ==
    /\ running = "up" /\ pc[p] = "write_head"
    /\ head' = lh
    /\ Goto(p, "install_trans")
    /\ UNCHANGED <<disk, logdisk, mem, dirty, lh, outstanding, committing, held, written,
                   tail, running>>

\* One block of install_trans(): from the log to its home, which unpins it.
install_trans(p) ==
    /\ running = "up" /\ pc[p] = "install_trans"
    /\ disk' = [disk EXCEPT ![lh[tail]] = logdisk[tail]]
    /\ mem' = [mem EXCEPT ![lh[tail]] = logdisk[tail]]
    /\ dirty' = dirty \ {lh[tail]}
    /\ IF tail = Len(lh)
       THEN Goto(p, "clear_head") /\ tail' = 1
       ELSE tail' = tail + 1 /\ UNCHANGED pc
    /\ UNCHANGED <<logdisk, head, lh, outstanding, committing, held, written, running>>

\* log.lh.n = 0 and the second write_head(): the transaction is erased.
clear_head(p) ==
    /\ running = "up" /\ pc[p] = "clear_head"
    /\ lh' = <<>>
    /\ head' = <<>>
    /\ Goto(p, "end")
    /\ UNCHANGED <<disk, logdisk, mem, dirty, outstanding, committing, held, written, tail,
                   running>>

\* end_op()'s last critical section, after commit().
EndCommit(p) ==
    /\ running = "up" /\ pc[p] = "end"
    /\ committing' = FALSE
    /\ pc' = WakeAll([pc EXCEPT ![p] = "idle"])
    /\ UNCHANGED <<diskVars, mem, dirty, lh, outstanding, held, written, tail, running>>

\* bget() recycles a clean buffer nobody holds; the next bread() reads the disk.
Evict(b) ==
    /\ running = "up"
    /\ b \notin dirty /\ \A p \in Proc : b \notin held[p]
    /\ mem' = [mem EXCEPT ![b] = disk[b]]
    /\ UNCHANGED <<diskVars, dirty, lh, outstanding, committing, pc, held, written, tail, running>>

-----------------------------------------------------------------------------
\* The machine stops: memory is lost, the disk keeps what bwrite() finished.
Crash ==
    /\ running' = "read_head"
    /\ mem' = [b \in Block |-> InitVal]
    /\ dirty' = {}
    /\ lh' = <<>>
    /\ outstanding' = 0
    /\ committing' = FALSE
    /\ pc' = [p \in Proc |-> "idle"]
    /\ held' = [p \in Proc |-> {}]
    /\ written' = [p \in Proc |-> {}]
    /\ tail' = 1
    /\ UNCHANGED diskVars

procVars == <<outstanding, committing, pc, held, written>>

\* initlog() after a boot: read_head(), then install_trans() block by block.
read_head ==
    /\ running = "read_head"
    /\ lh' = head
    /\ running' = IF head = <<>> THEN "clear" ELSE "install"
    /\ UNCHANGED <<diskVars, mem, dirty, procVars, tail>>

RecoverInstall ==
    /\ running = "install"
    /\ disk' = [disk EXCEPT ![lh[tail]] = logdisk[tail]]
    /\ IF tail = Len(lh)
       THEN running' = "clear" /\ tail' = 1
       ELSE tail' = tail + 1 /\ UNCHANGED running
    /\ UNCHANGED <<logdisk, head, mem, dirty, lh, procVars>>

\* The log is cleared and the file system is open for use.
RecoverClear ==
    /\ running = "clear"
    /\ lh' = <<>>
    /\ head' = <<>>
    /\ mem' = disk
    /\ running' = "up"
    /\ UNCHANGED <<disk, logdisk, dirty, procVars, tail>>

-----------------------------------------------------------------------------
Step(p) ==
    \/ begin_op(p) \/ log_write(p) \/ end_op(p) \/ write_log(p) \/ write_head(p)
    \/ install_trans(p) \/ clear_head(p) \/ EndCommit(p)

Recovery == read_head \/ RecoverInstall \/ RecoverClear

Next ==
    \/ \E p \in Proc : CallBegin(p) \/ Step(p) \/ \E b \in Block, v \in Val : Modify(p, b, v)
    \/ \E b \in Block : Evict(b)
    \/ Crash
    \/ Recovery

Spec == Init /\ [][Next]_vars

-----------------------------------------------------------------------------
(***************************************************************************)
(* Properties.                                                             *)
(***************************************************************************)
Pcs == {"idle", "begin", "asleep", "op", "log_write", "panic", "write_log", "write_head",
        "install_trans", "clear_head", "end"}

\* Type invariant of the log, the disk and the callers.
TypeOK ==
    /\ disk \in [Block -> Val] /\ logdisk \in [1 .. LOGSIZE -> Val]
    /\ head \in Seq(Block) /\ lh \in Seq(Block)
    /\ mem \in [Block -> Val] /\ dirty \subseteq Block
    /\ outstanding \in Nat /\ committing \in BOOLEAN
    /\ pc \in [Proc -> Pcs]
    /\ held \in [Proc -> SUBSET Block] /\ written \in [Proc -> SUBSET Block]
    /\ tail \in 1 .. LOGSIZE
    /\ running \in {"up", "read_head", "install", "clear"}

\* The state of the disk that a crash now would lead to, after recovery.
Durable ==
    [b \in Block |-> IF \E i \in 1 .. Len(head) : head[i] = b
                     THEN logdisk[CHOOSE i \in 1 .. Len(head) : head[i] = b]
                     ELSE disk[b]]

J == INSTANCE Journal WITH
        volatile <- IF running = "up" THEN mem ELSE Durable,
        durable <- Durable,
        active <- {p \in Proc : pc[p] \in {"op", "log_write", "panic"}}

JournalStep == [J!Next]_(J!vars)

\* The log implements Journal: whatever the moment of a crash, in commit() or in
\* the recovery from an earlier crash, the disk is left as some commit left it;
\* nothing of an unfinished operation gets there, and no read sees old data.
AtomicOperations == J!Spec

\* The space that begin_op() reserves suffices: log_write() never panics with
\* "too big a transaction", and the header never names more than it can hold.
LogFits ==
    /\ \A p \in Proc : pc[p] # "panic"
    /\ Len(lh) <= LOGSIZE /\ Len(lh) <= NLOG - 1

\* begin_op() sleeps only while there is something to wait for: a process asleep
\* on the log has not missed the wakeup of end_op() or of the end of commit().
NoStrandedCaller ==
    \A p \in Proc : pc[p] = "asleep" =>
        /\ committing \/ MightExhaust
        /\ \E q \in Proc \ {p} : pc[q] \notin {"idle", "begin", "asleep"}
=============================================================================
