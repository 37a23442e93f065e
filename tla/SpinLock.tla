------------------------------ MODULE SpinLock ------------------------------
(***************************************************************************)
(* spinlock.c: spin locks on several CPUs, with nested critical sections   *)
(* and with interrupt handlers that use the same locks as the code they    *)
(* interrupt.                                                              *)
(***************************************************************************)
EXTENDS Naturals, FiniteSets

CONSTANTS
    Cpu,
    NoCpu,      \* lk->cpu = 0
    NLOCK       \* locks are 1 .. NLOCK; the kernel takes them in this order

ASSUME SpinLockAssumption == NoCpu \notin Cpu /\ NLOCK \in Nat

Lock == 1 .. NLOCK

VARIABLES
    locked, lcpu,       \* lk->locked, lk->cpu
    intr,               \* FL_IF in the CPU's eflags
    ncli, intena,       \* cpu->ncli, cpu->intena
    held,               \* locks held by the code on this CPU
    handler,            \* an interrupt handler runs on top of the interrupted code
    base,               \* those of them held by the code it interrupted
    pc, lk              \* each CPU's step and the lock it is about

vars == <<locked, lcpu, intr, ncli, intena, held, handler, base, pc, lk>>

Init ==
    /\ locked = [l \in Lock |-> FALSE]
    /\ lcpu = [l \in Lock |-> NoCpu]
    /\ intr \in [Cpu -> BOOLEAN]
    /\ ncli = [c \in Cpu |-> 0]
    /\ intena = [c \in Cpu |-> FALSE]
    /\ held = [c \in Cpu |-> {}]
    /\ handler = [c \in Cpu |-> FALSE]
    /\ base = [c \in Cpu |-> {}]
    /\ pc = [c \in Cpu |-> "run"]
    /\ lk = [c \in Cpu |-> 1]

Goto(c, l) == pc' = [pc EXCEPT ![c] = l]

\* lock->locked && lock->cpu == cpu
holding(c, l) == locked[l] /\ lcpu[l] = c

\* Locks taken by the code that runs now on the CPU.
Taken(c) == held[c] \ base[c]

\* Mutant: pushcli() counts but leaves interrupts as they are.
IntrKept(c) == intr[c]

\* FL_IF after cli()
IntrAfterCli(c) == FALSE

\* cpu->intena after pushcli()
IntenaAfterPush(c) == IF ncli[c] = 0 THEN intr[c] ELSE intena[c]

\* acquire(): pushcli() and the test holding(lk).
AcquireCall(c, l) ==
    /\ pc[c] = "run" /\ \A m \in Taken(c) : m < l
    /\ intena' = [intena EXCEPT ![c] = IntenaAfterPush(c)]
    /\ intr' = [intr EXCEPT ![c] = IntrAfterCli(c)]
    /\ ncli' = [ncli EXCEPT ![c] = @ + 1]
    /\ Goto(c, IF holding(c, l) THEN "panic" ELSE "xchg")
    /\ lk' = [lk EXCEPT ![c] = l]
    /\ UNCHANGED <<locked, lcpu, held, handler, base>>

\* xchg(&lk->locked, 1) returned 0
FoundFree(c) == ~locked[lk[c]]

\* The xchg that finds the lock free; the others change nothing.
Xchg(c) ==
    /\ pc[c] = "xchg" /\ FoundFree(c)
    /\ locked' = [locked EXCEPT ![lk[c]] = TRUE]
    /\ Goto(c, "record")
    /\ UNCHANGED <<lcpu, intr, ncli, intena, held, handler, base, lk>>

\* lk->cpu = cpu, and return into the critical section.
AcquireReturn(c) ==
    /\ pc[c] = "record"
    /\ lcpu' = [lcpu EXCEPT ![lk[c]] = c]
    /\ held' = [held EXCEPT ![c] = @ \cup {lk[c]}]
    /\ Goto(c, "run")
    /\ UNCHANGED <<locked, intr, ncli, intena, handler, base, lk>>

\* release(): the test holding(lk) and lk->cpu = 0.  Locks may be released in
\* any order.
ReleaseCall(c, l) ==
    /\ pc[c] = "run" /\ l \in Taken(c)
    /\ IF holding(c, l)
       THEN /\ lcpu' = [lcpu EXCEPT ![l] = NoCpu]
            /\ Goto(c, "unlock")
       ELSE Goto(c, "panic") /\ UNCHANGED lcpu
    /\ held' = [held EXCEPT ![c] = @ \ {l}]
    /\ lk' = [lk EXCEPT ![c] = l]
    /\ UNCHANGED <<locked, intr, ncli, intena, handler, base>>

\* movl $0, lk->locked
Unlock(c) ==
    /\ pc[c] = "unlock"
    /\ locked' = [locked EXCEPT ![lk[c]] = FALSE]
    /\ Goto(c, "popcli")
    /\ UNCHANGED <<lcpu, intr, ncli, intena, held, handler, base, lk>>

\* popcli() comes to its sti()
Sti(c) == ncli[c] = 1 /\ intena[c]

popcli(c) ==
    /\ pc[c] = "popcli"
    /\ IF intr[c] \/ ncli[c] = 0
       THEN Goto(c, "panic") /\ UNCHANGED <<intr, ncli>>
       ELSE /\ ncli' = [ncli EXCEPT ![c] = @ - 1]
            /\ intr' = [intr EXCEPT ![c] = Sti(c)]
            /\ Goto(c, "run")
    /\ UNCHANGED <<locked, lcpu, intena, held, handler, base, lk>>

\* A device or the timer interrupts; the gate clears FL_IF until iret.
Interrupt(c) ==
    /\ intr[c] /\ ~handler[c] /\ pc[c] = "run"
    /\ handler' = [handler EXCEPT ![c] = TRUE]
    /\ base' = [base EXCEPT ![c] = held[c]]
    /\ intr' = [intr EXCEPT ![c] = FALSE]
    /\ UNCHANGED <<locked, lcpu, ncli, intena, held, pc, lk>>

Iret(c) ==
    /\ handler[c] /\ pc[c] = "run" /\ Taken(c) = {}
    /\ handler' = [handler EXCEPT ![c] = FALSE]
    /\ base' = [base EXCEPT ![c] = {}]
    /\ intr' = [intr EXCEPT ![c] = TRUE]
    /\ UNCHANGED <<locked, lcpu, ncli, intena, held, pc, lk>>

Step(c) == Xchg(c) \/ AcquireReturn(c) \/ Unlock(c) \/ popcli(c)

Next == \E c \in Cpu :
    \/ Step(c) \/ Interrupt(c) \/ Iret(c)
    \/ \E l \in Lock : AcquireCall(c, l) \/ ReleaseCall(c, l)

Spec == Init /\ [][Next]_vars

-----------------------------------------------------------------------------
(***************************************************************************)
(* Properties.                                                             *)
(***************************************************************************)
\* The locks whose locked word this CPU has set: by the code running now, by the
\* code it interrupted, or in the middle of acquire() or release().
Owned(c) == held[c] \cup {l \in Lock : lk[c] = l /\ pc[c] \in {"record", "unlock"}}

\* A lock is held by one CPU at a time, and is free only when no CPU is between
\* its xchg and its store of 0.
MutualExclusion ==
    /\ \A c, d \in Cpu : c # d => Owned(c) \cap Owned(d) = {}
    /\ \A l \in Lock : locked[l] <=> \E c \in Cpu : l \in Owned(c)

\* "disable interrupts to avoid deadlock": a CPU never waits for a lock that the
\* code it interrupted holds, and no check of acquire(), release() or popcli()
\* panics.
NoSelfDeadlock ==
    \A c \in Cpu : /\ pc[c] # "panic"
                   /\ pc[c] = "xchg" => lk[c] \notin Owned(c)

\* Interrupts are off while a lock is held, at any nesting depth, and the locks
\* that an interrupt handler takes and releases do not turn them on inside it.
InterruptsOff == \A c \in Cpu : ncli[c] > 0 \/ handler[c] => ~intr[c]

\* pushcli and popcli "are matched": whatever the order in which locks were
\* released, code that holds none has interrupts as it had them, before.
RestoredTo(before) ==
    \A c \in Cpu : ncli[c] = 0 /\ pc[c] = "run" /\ ~handler[c] => intr[c] = before[c]
=============================================================================
