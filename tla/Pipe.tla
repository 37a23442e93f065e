-------------------------------- MODULE Pipe --------------------------------
(***************************************************************************)
(* pipe.c: one pipe, its readers and writers, kill() and the closing of    *)
(* both ends.  A step is one byte, one test, or one hand-over of p->lock.  *)
(***************************************************************************)
EXTENDS Naturals, FiniteSets, Sequences

CONSTANTS
    Reader, Writer, \* processes that hold the read, the write end open
    None,           \* nobody
    Val, InitVal,   \* bytes
    PIPESIZE,
    UINT,           \* one more than the largest unsigned integer
    MaxCall,        \* bound: bytes asked for by one call
    Killable        \* processes that somebody may kill

PipeAssumption ==
    /\ PIPESIZE \in Nat \ {0} /\ UINT \in Nat /\ UINT > PIPESIZE
    /\ UINT % PIPESIZE = 0
    /\ MaxCall \in Nat \ {0}
    /\ InitVal \in Val
    /\ Reader # {} /\ Writer # {} /\ Reader \cap Writer = {}
    /\ None \notin Reader \cup Writer
    /\ Killable \subseteq Reader \cup Writer

User == Reader \cup Writer

VARIABLES
    data, nread, nwrite, readopen, writeopen,
    freed,          \* kfree() was called
    lock,           \* holder of p->lock
    pc, left,       \* each process's step; bytes its call has still to move
    open,           \* processes that have not closed their end
    killed,
    addr            \* the byte that piperead() stored last

vars == <<data, nread, nwrite, readopen, writeopen, freed, lock, pc, left, open, killed, addr>>

Init ==
    /\ data = [i \in 0 .. PIPESIZE - 1 |-> InitVal]
    /\ nread = 0 /\ nwrite = 0
    /\ readopen = TRUE /\ writeopen = TRUE /\ freed = FALSE
    /\ lock = None
    /\ pc = [p \in User |-> "idle"]
    /\ left = [p \in User |-> 0]
    /\ open = User
    /\ killed = {}
    /\ addr = InitVal

\* p->nread++ and p->nwrite++ on an unsigned integer.
Increment(n) == (n + 1) % UINT

\* Mutant: the counters are compared as if they never wrapped.
FullUnwrapped == nwrite = nread + PIPESIZE

Full == nwrite = (nread + PIPESIZE) % UINT

Empty == nread = nwrite

\* wakeup(chan): "r" stands for &p->nread, where readers sleep, "w" for &p->nwrite.
Asleep == [r |-> "asleep_r", w |-> "asleep_w"]

WakeIn(f, ch) == [q \in User |-> IF f[q] = Asleep[ch] THEN "woken" ELSE f[q]]

\* pipewrite() and piperead(): acquire(&p->lock)
Call(p, n) ==
    /\ pc[p] = "idle" /\ p \in open /\ p \notin killed
    /\ lock = None /\ lock' = p
    /\ pc' = [pc EXCEPT ![p] = IF p \in Writer THEN "write" ELSE "empty?"]
    /\ left' = [left EXCEPT ![p] = n]
    /\ UNCHANGED <<data, nread, nwrite, readopen, writeopen, freed, open, killed, addr>>

\* Return from the call: release(&p->lock)
Return(p, f) ==
    /\ lock' = None
    /\ pc' = [f EXCEPT ![p] = "idle"]
    /\ left' = [left EXCEPT ![p] = 0]

WriteByte(p, v) ==
    /\ pc[p] = "write" /\ left[p] > 0 /\ ~Full
    /\ data' = [data EXCEPT ![nwrite % PIPESIZE] = v]
    /\ nwrite' = Increment(nwrite)
    /\ left' = [left EXCEPT ![p] = @ - 1]
    /\ UNCHANGED <<nread, readopen, writeopen, freed, lock, pc, open, killed, addr>>

FullWoken(f) == WakeIn(f, "r")

\* The loop for a full pipe, up to its sleep().
WriteFull(p) ==
    /\ pc[p] = "write" /\ left[p] > 0 /\ Full
    /\ IF ~readopen \/ p \in killed
       THEN Return(p, pc)
       ELSE /\ pc' = FullWoken([pc EXCEPT ![p] = "sleep_w"])
            /\ UNCHANGED <<lock, left>>
    /\ UNCHANGED <<data, nread, nwrite, readopen, writeopen, freed, open, killed, addr>>

WriteDone(p) ==
    /\ pc[p] = "write" /\ left[p] = 0
    /\ Return(p, WakeIn(pc, "r"))
    /\ UNCHANGED <<data, nread, nwrite, readopen, writeopen, freed, open, killed, addr>>

\* sleep(): p->lock is released and the state becomes SLEEPING in one critical
\* section of ptable.lock.
Sleep(p) ==
    /\ pc[p] \in {"sleep_w", "sleep_r"}
    /\ lock' = None
    /\ pc' = [pc EXCEPT ![p] = IF p \in Writer THEN "asleep_w" ELSE "asleep_r"]
    /\ UNCHANGED <<data, nread, nwrite, readopen, writeopen, freed, left, open, killed, addr>>

\* sleep() returns with p->lock.
Awake(p) ==
    /\ pc[p] = "woken"
    /\ lock = None /\ lock' = p
    /\ pc' = [pc EXCEPT ![p] = IF p \in Writer THEN "write" ELSE "empty?"]
    /\ UNCHANGED <<data, nread, nwrite, readopen, writeopen, freed, left, open, killed, addr>>

\* piperead()'s loop for an empty pipe.
ReadEmpty(p) ==
    /\ pc[p] = "empty?"
    /\ IF ~(Empty /\ writeopen)
       THEN pc' = [pc EXCEPT ![p] = "read"] /\ UNCHANGED <<lock, left>>
       ELSE IF p \in killed
            THEN Return(p, pc)
            ELSE pc' = [pc EXCEPT ![p] = "sleep_r"] /\ UNCHANGED <<lock, left>>
    /\ UNCHANGED <<data, nread, nwrite, readopen, writeopen, freed, open, killed, addr>>

ReadByte(p) ==
    /\ pc[p] = "read" /\ left[p] > 0 /\ ~Empty
    /\ addr' = data[nread % PIPESIZE]
    /\ nread' = Increment(nread)
    /\ left' = [left EXCEPT ![p] = @ - 1]
    /\ UNCHANGED <<data, nwrite, readopen, writeopen, freed, lock, pc, open, killed>>

ReadDone(p) ==
    /\ pc[p] = "read" /\ (left[p] = 0 \/ Empty)
    /\ Return(p, WakeIn(pc, "w"))
    /\ UNCHANGED <<data, nread, nwrite, readopen, writeopen, freed, open, killed, addr>>

\* Mutant: closing the write end wakes nobody.
CloseNotWoken(f, ch) == f

CloseWoken(f, ch) == WakeIn(f, ch)

\* A process closes its end (or exits); the last close of an end is pipeclose().
\* fileclose() calls it when the reference count of the end's file is zero.
pipeclose(p) ==
    /\ pc[p] = "idle" /\ p \in open /\ lock = None
    /\ open' = open \ {p}
    /\ readopen' = (open' \cap Reader # {})
    /\ writeopen' = (open' \cap Writer # {})
    /\ pc' = IF writeopen' # writeopen THEN CloseWoken(pc, "r")
             ELSE IF readopen' # readopen THEN CloseWoken(pc, "w") ELSE pc
    /\ freed' = (~readopen' /\ ~writeopen')
    /\ UNCHANGED <<data, nread, nwrite, lock, left, killed, addr>>

\* kill() on another CPU: it takes ptable.lock, not p->lock.
Kill(p) ==
    /\ p \in Killable \ killed
    /\ killed' = killed \cup {p}
    /\ pc' = [pc EXCEPT ![p] = IF @ \in {"asleep_r", "asleep_w"} THEN "woken" ELSE @]
    /\ UNCHANGED <<data, nread, nwrite, readopen, writeopen, freed, lock, left, open, addr>>

Step(p) ==
    \/ WriteFull(p) \/ WriteDone(p) \/ Sleep(p) \/ Awake(p)
    \/ ReadEmpty(p) \/ ReadByte(p) \/ ReadDone(p)
    \/ \E v \in Val : WriteByte(p, v)

Next == \E p \in User :
    Step(p) \/ pipeclose(p) \/ Kill(p) \/ \E n \in 1 .. MaxCall : Call(p, n)

Spec == Init /\ [][Next]_vars

-----------------------------------------------------------------------------
(***************************************************************************)
(* Properties.                                                             *)
(***************************************************************************)
Pcs == {"idle", "write", "sleep_w", "asleep_w", "empty?", "sleep_r", "asleep_r", "read", "woken"}

\* Type invariant of the pipe and its users.
TypeOK ==
    /\ data \in [0 .. PIPESIZE - 1 -> Val]
    /\ nread \in 0 .. UINT - 1 /\ nwrite \in 0 .. UINT - 1
    /\ readopen \in BOOLEAN /\ writeopen \in BOOLEAN /\ freed \in BOOLEAN
    /\ lock \in User \cup {None}
    /\ pc \in [User -> Pcs] /\ left \in [User -> 0 .. MaxCall]
    /\ open \subseteq User /\ killed \subseteq User
    /\ addr \in Val

C == INSTANCE Channel WITH
        Size <- PIPESIZE,
        buf <- [k \in 1 .. (nwrite + UINT - nread) % UINT |->
                    data[((nread + k - 1) % UINT) % PIPESIZE]],
        got <- addr, ropen <- readopen, wopen <- writeopen

ChannelStep == [C!Next]_(C!vars)

\* The ring buffer with its wrapping counters is a bounded FIFO channel: no byte
\* is lost, overwritten before it is read, read twice or read out of order, and
\* no end moves a byte after it was closed.
FifoChannel == C!Spec

\* Nobody misses a wakeup(): once p->lock is free, a reader sleeps only on an
\* empty pipe that can still be written, a writer only on a full one that can
\* still be read.  There is one exception in the code: a killed writer that has
\* filled the pipe returns -1 before it comes to wakeup(&p->nread).
NoMissedWakeup ==
    lock = None => \A p \in User :
        /\ pc[p] = "asleep_r" => writeopen /\ (Empty \/ killed \cap Writer # {})
        /\ pc[p] = "asleep_w" => Full /\ readopen

-----------------------------------------------------------------------------
\* Processes inside a call keep running, and a process that makes no more calls
\* ends and thereby closes its end.
Fairness == \A p \in User : WF_vars(Step(p)) /\ WF_vars(pipeclose(p))

FairSpec == Spec /\ Fairness

\* A lone reader always comes back from piperead(), although nothing is assumed
\* of who wins p->lock: writers that keep winning it fill the pipe and sleep, or
\* close their end.
ReaderReturns ==
    Cardinality(Reader) = 1 => \A p \in Reader : pc[p] # "idle" ~> pc[p] = "idle"
=============================================================================
