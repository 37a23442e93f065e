------------------------------ MODULE BufCache ------------------------------
(***************************************************************************)
(* The buffer cache (bio.c) and the disk driver under it (ide.c): bread(), *)
(* bwrite(), brelse(), log_write()'s pinning of buffers, the driver's      *)
(* queue and its interrupt handler.                                        *)
(*                                                                         *)
(* A critical section of bcache.lock or of idelock is one step.            *)
(***************************************************************************)
EXTENDS Naturals, FiniteSets, Sequences, SequencesExt

CONSTANTS
    Proc,
    None,           \* nobody, no block, no buffer
    Buf,            \* bcache.buf[NBUF]
    Block,
    Val, InitVal,   \* contents of a block
    MaxPin,         \* blocks that the log pins at the same time, at most
    Results         \* how the drive ends a command: "ok", or also "error" for a read

ASSUME BufCacheAssumption ==
    /\ None \notin Proc \cup Block \cup Buf
    /\ IsFiniteSet(Proc) /\ IsFiniteSet(Buf) /\ InitVal \in Val
    /\ MaxPin \in Nat /\ Results \subseteq {"ok", "error"}

VARIABLES
    disk,                                   \* blocks on the disk
    blockno, refcnt, valid, dirty, data,    \* fields of the buffers
    holder,                                 \* owner of the buffer's sleep lock
    lru,                                    \* bcache.head, most recently used first
    idequeue,                               \* the first one is the active request
    drive,                                  \* the drive: command it works on, or done
    pc, want, buf,                          \* each process's step, block and buffer
    modified                                \* processes that changed the data they hold

vars == <<disk, blockno, refcnt, valid, dirty, data, holder, lru, idequeue, drive, pc, want,
          buf, modified>>

cacheVars == <<blockno, refcnt, lru>>
procVars == <<want, buf, modified>>
ideVars == <<idequeue, drive>>

Init ==
    /\ disk = [k \in Block |-> InitVal]
    /\ blockno = [b \in Buf |-> None]
    /\ refcnt = [b \in Buf |-> 0]
    /\ valid = [b \in Buf |-> FALSE]
    /\ dirty = [b \in Buf |-> FALSE]
    /\ data = [b \in Buf |-> InitVal]
    /\ holder = [b \in Buf |-> None]
    /\ lru = SetToSeq(Buf)
    /\ idequeue = <<>>
    /\ drive = [op |-> "none"]
    /\ pc = [p \in Proc |-> "idle"]
    /\ want = [p \in Proc |-> None]
    /\ buf = [p \in Proc |-> None]
    /\ modified = {}

Goto(p, l) == pc' = [pc EXCEPT ![p] = l]

\* Mutant: bget() recycles buffers that the log has not committed.
UnusedOnly(b) == refcnt[b] = 0

\* Mutant: bget() recycles buffers in use.
CleanOnly(b) == ~dirty[b]

Recyclable(b) == refcnt[b] = 0 /\ ~dirty[b]

\* The buffers bget()'s second loop can take: it goes from the least recently used.
Victims == {i \in DOMAIN lru : Recyclable(lru[i])}

\* Mutant: a recycled buffer keeps its flags.
FlagsKept(b) == valid[b]

\* B_VALID of a recycled buffer: b->flags = 0
FlagsCleared(b) == FALSE

\* bget() under bcache.lock
bget(p, k) ==
    /\ pc[p] = "idle"
    /\ want' = [want EXCEPT ![p] = k]
    /\ \/ \E b \in Buf :
            /\ blockno[b] = k
            /\ refcnt' = [refcnt EXCEPT ![b] = @ + 1]
            /\ buf' = [buf EXCEPT ![p] = b]
            /\ Goto(p, "acquiresleep")
            /\ UNCHANGED <<blockno, valid>>
       \/ /\ \A b \in Buf : blockno[b] # k
          /\ IF Victims = {}
             THEN Goto(p, "panic") /\ UNCHANGED <<blockno, refcnt, valid, buf>>
             ELSE \E i \in Victims :
                    /\ \A j \in Victims : j <= i
                    /\ blockno' = [blockno EXCEPT ![lru[i]] = k]
                    /\ refcnt' = [refcnt EXCEPT ![lru[i]] = 1]
                    /\ valid' = [valid EXCEPT ![lru[i]] = FlagsCleared(lru[i])]
                    /\ buf' = [buf EXCEPT ![p] = lru[i]]
                    /\ Goto(p, "acquiresleep")
    /\ UNCHANGED <<disk, dirty, data, holder, lru, ideVars, modified>>

\* acquiresleep(&b->lock), and bread()'s test whether the disk must be read.
\* The flags of a victim are clear: it was not B_DIRTY.
Lock(p) ==
    /\ pc[p] = "acquiresleep" /\ holder[buf[p]] = None
    /\ holder' = [holder EXCEPT ![buf[p]] = p]
    /\ Goto(p, IF valid[buf[p]] THEN "use" ELSE "iderw")
    /\ UNCHANGED <<disk, cacheVars, valid, dirty, data, ideVars, procVars>>

\* The caller changes the block.
Modify(p, v) ==
    /\ pc[p] = "use"
    /\ data' = [data EXCEPT ![buf[p]] = v]
    /\ modified' = modified \cup {p}
    /\ UNCHANGED <<disk, cacheVars, valid, dirty, holder, ideVars, pc, want, buf>>

\* log_write() pins the block with B_DIRTY; the log pins at most MaxPin blocks.
LogWrite(p) ==
    /\ pc[p] = "use"
    /\ Cardinality({b \in Buf : dirty[b]} \cup {buf[p]}) <= MaxPin
    /\ dirty' = [dirty EXCEPT ![buf[p]] = TRUE]
    /\ modified' = modified \ {p}
    /\ UNCHANGED <<disk, cacheVars, valid, data, holder, ideVars, pc, want, buf>>

bwrite(p) ==
    /\ pc[p] = "use"
    /\ dirty' = [dirty EXCEPT ![buf[p]] = TRUE]
    /\ modified' = modified \ {p}
    /\ Goto(p, "iderw")
    /\ UNCHANGED <<disk, cacheVars, valid, data, holder, ideVars, want, buf>>

\* idestart(): the drive gets the command, and for a write the data with it.
idestart(b) ==
    [op |-> IF dirty[b] THEN "write" ELSE "read", block |-> blockno[b], val |-> data[b]]

\* iderw() up to its first sleep(): the request is queued.
iderw(p) ==
    /\ pc[p] = "iderw"
    /\ idequeue' = Append(idequeue, buf[p])
    /\ drive' = IF idequeue = <<>> THEN idestart(buf[p]) ELSE drive
    /\ Goto(p, IF valid[buf[p]] /\ ~dirty[buf[p]] THEN "panic" ELSE "asleep")
    /\ UNCHANGED <<disk, cacheVars, valid, dirty, data, holder, procVars>>

\* The drive carries out its command and asks for an interrupt.
DriveDone ==
    /\ drive.op \in {"read", "write"}
    /\ disk' = IF drive.op = "write" THEN [disk EXCEPT ![drive.block] = drive.val] ELSE disk
    /\ \E r \in Results :
          /\ drive.op = "write" => r = "ok"
          /\ drive' = [op |-> "done", result |-> r, val |-> disk[drive.block]]
    /\ UNCHANGED <<cacheVars, valid, dirty, data, holder, idequeue, pc, procVars>>

\* Mutant: the next request is not started.
NotStarted == [op |-> "none"]

\* The command the drive has after ideintr().
NextCommand == IF Len(idequeue) = 1 THEN [op |-> "none"] ELSE idestart(idequeue[2])

\* wakeup(b)
Woken(b) == [p \in Proc |-> IF pc[p] = "asleep" /\ buf[p] = b THEN "woken" ELSE pc[p]]

\* ideintr(): the first request of the queue is done.  A failed read leaves the
\* data as it was, and the buffer is marked valid all the same.
ideintr ==
    /\ drive.op = "done"
    /\ LET b == idequeue[1]
       IN  /\ data' = [data EXCEPT ![b] =
                          IF ~dirty[b] /\ drive.result = "ok" THEN drive.val ELSE @]
           /\ valid' = [valid EXCEPT ![b] = TRUE]
           /\ dirty' = [dirty EXCEPT ![b] = FALSE]
           /\ pc' = Woken(b)
    /\ drive' = NextCommand
    /\ idequeue' = Tail(idequeue)
    /\ UNCHANGED <<disk, cacheVars, holder, procVars>>

\* sleep() in iderw() returns, perhaps because of a kill(), and the loop looks
\* at the flags again.
IoReturn(p) ==
    /\ pc[p] = "woken"
    /\ Goto(p, IF valid[buf[p]] /\ ~dirty[buf[p]] THEN "use" ELSE "asleep")
    /\ UNCHANGED <<disk, cacheVars, valid, dirty, data, holder, ideVars, procVars>>

Kill(p) ==
    /\ pc[p] = "asleep"
    /\ Goto(p, "woken")
    /\ UNCHANGED <<disk, cacheVars, valid, dirty, data, holder, ideVars, procVars>>

\* brelse(): releasesleep(&b->lock).  What was modified has been written.
brelse(p) ==
    /\ pc[p] = "use" /\ p \notin modified
    /\ holder' = [holder EXCEPT ![buf[p]] = None]
    /\ Goto(p, "brelse")
    /\ UNCHANGED <<disk, cacheVars, valid, dirty, data, ideVars, procVars>>

RefDropped(b) == refcnt[b] - 1

\* bcache.head with buffer b moved to its front.
MovedToFront(b) ==
    LET i == CHOOSE k \in DOMAIN lru : lru[k] = b
    IN  [k \in DOMAIN lru |-> IF k = 1 THEN b ELSE IF k <= i THEN lru[k - 1] ELSE lru[k]]

\* brelse() under bcache.lock: the last user moves the buffer to the front.
BrelseDone(p) ==
    /\ pc[p] = "brelse"
    /\ refcnt' = [refcnt EXCEPT ![buf[p]] = RefDropped(buf[p])]
    /\ lru' = IF refcnt'[buf[p]] = 0 THEN MovedToFront(buf[p]) ELSE lru
    /\ Goto(p, "idle")
    /\ want' = [want EXCEPT ![p] = None]
    /\ buf' = [buf EXCEPT ![p] = None]
    /\ UNCHANGED <<disk, blockno, valid, dirty, data, holder, ideVars, modified>>

Step(p) == Lock(p) \/ iderw(p) \/ IoReturn(p) \/ brelse(p) \/ BrelseDone(p)

Next ==
    \/ \E p \in Proc : \/ Step(p) \/ LogWrite(p) \/ bwrite(p) \/ Kill(p)
                       \/ \E k \in Block : bget(p, k)
                       \/ \E v \in Val : Modify(p, v)
    \/ DriveDone
    \/ ideintr

Spec == Init /\ [][Next]_vars

-----------------------------------------------------------------------------
(***************************************************************************)
(* Properties.                                                             *)
(***************************************************************************)
\* What a reader of block k is entitled to: the cached copy if there is one.
Content(k) ==
    IF \E b \in Buf : blockno[b] = k /\ valid[b]
    THEN data[CHOOSE b \in Buf : blockno[b] = k /\ valid[b]]
    ELSE disk[k]

\* "Only one process at a time can use a buffer": a block has one buffer, and a
\* process that uses a block has its buffer locked, valid and in nobody else's hands.
OneBufferPerBlock ==
    /\ \A b, c \in Buf : blockno[b] = blockno[c] /\ blockno[b] # None => b = c
    /\ \A p \in Proc : pc[p] \in {"use", "iderw", "asleep", "woken"} =>
            /\ holder[buf[p]] = p
            /\ blockno[buf[p]] = want[p] /\ refcnt[buf[p]] > 0
    /\ \A p \in Proc : pc[p] = "use" => valid[buf[p]]

\* Only the process that has a block locked changes what the block contains:
\* neither recycling its buffer, nor reading it in again, nor the completion of
\* a request, its own or another's, brings old data back.
OnlyHolderChanges ==
    [][\A k \in Block : Content(k)' # Content(k) =>
            \E p \in Proc : pc[p] = "use" /\ want[p] = k /\ holder[buf[p]] = p]_vars

\* "Return a locked buf with the contents of the indicated block": what bread()
\* read from the disk is what the disk has.
BreadContents ==
    \A p \in Proc : pc[p] = "use" /\ p \notin modified /\ ~dirty[buf[p]]
                        => data[buf[p]] = disk[want[p]]

\* With a buffer for every block the log may pin and one for every process that
\* uses a block, bget() always finds one, and iderw() something to do.
NoPanic == \A p \in Proc : pc[p] # "panic"

\* A process sleeps in iderw() only while its request is in the queue; the drive
\* works exactly while there is one.
RequestPending ==
    /\ \A p \in Proc : pc[p] = "asleep" => \E i \in DOMAIN idequeue : idequeue[i] = buf[p]
    /\ drive.op = "none" <=> idequeue = <<>>
=============================================================================
