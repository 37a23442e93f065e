------------------------------- MODULE Switch -------------------------------
(***************************************************************************)
(* Interrupt masking across context switches: sched() and scheduler() hand *)
(* ptable.lock, and with it cpu->ncli and cpu->intena, from one thread to  *)
(* another on the same CPU, and a thread may go on on another CPU.         *)
(*                                                                         *)
(* acquire() and release() are one step (SpinLock has their instructions), *)
(* and lk, the lock that sleep() is called with, is free when it is wanted.*)
(* When a thread is picked again is left open.  The scheduler either gives *)
(* up ptable.lock after each thread (the priority queues) or goes on with  *)
(* it (CUSTOM_SCHEDULER): both are allowed at each turn.                   *)
(***************************************************************************)
EXTENDS Integers

CONSTANTS
    Cpu,
    Proc,
    NoCpu, NoProc

SwitchAssumption == NoCpu \notin Cpu /\ NoProc \notin Proc

VARIABLES
    ptlock,             \* the CPU that holds ptable.lock
    intr,               \* FL_IF of each CPU
    ncli, intena,       \* cpu->ncli, cpu->intena
    running,            \* cpu->proc, NoProc in the scheduler
    sc,                 \* where each CPU's scheduler is
    pc,                 \* where each process is in the kernel
    handler,            \* it runs in the handler of an interrupt gate
    saved               \* the local intena of its sched()

vars == <<ptlock, intr, ncli, intena, running, sc, pc, handler, saved>>
locks == <<ptlock, intr, ncli, intena>>

Init ==
    /\ ptlock = NoCpu
    /\ intr = [c \in Cpu |-> FALSE]
    /\ ncli = [c \in Cpu |-> 0]
    /\ intena = [c \in Cpu |-> FALSE]
    /\ running = [c \in Cpu |-> NoProc]
    /\ sc = [c \in Cpu |-> "loop"]
    /\ pc = [p \in Proc |-> "forkret"]
    /\ handler = [p \in Proc |-> FALSE]
    /\ saved = [p \in Proc |-> FALSE]

pushcli(c, was) ==
    /\ intr' = [intr EXCEPT ![c] = FALSE]
    /\ ncli' = [ncli EXCEPT ![c] = @ + 1]
    /\ intena' = [intena EXCEPT ![c] = IF ncli[c] = 0 THEN was ELSE @]

popcli(c) ==
    /\ ncli' = [ncli EXCEPT ![c] = @ - 1]
    /\ intr' = [intr EXCEPT ![c] = ncli[c] = 1 /\ intena[c]]
    /\ UNCHANGED intena

acquire(c, was) == ptlock = NoCpu /\ ptlock' = c /\ pushcli(c, was)
release(c) == ptlock' = NoCpu /\ popcli(c)

At(c, l) == running[c] # NoProc /\ pc[running[c]] = l
Goto(c, l) == pc' = [pc EXCEPT ![running[c]] = l]

-----------------------------------------------------------------------------
\* scheduler(): sti(), then acquire(&ptable.lock).
Loop(c) ==
    /\ sc[c] = "loop"
    /\ acquire(c, TRUE)
    /\ sc' = [sc EXCEPT ![c] = "pick"]
    /\ UNCHANGED <<running, pc, handler, saved>>

\* swtch(&c->scheduler, p->context): p is where it left off.
Pick(c) ==
    /\ sc[c] = "pick" /\ running[c] = NoProc
    /\ \E p \in Proc :
          /\ pc[p] \in {"forkret", "switched"}
          /\ \A d \in Cpu : running[d] # p
          /\ running' = [running EXCEPT ![c] = p]
    /\ UNCHANGED <<locks, sc, pc, handler, saved>>

Unlock(c) ==
    /\ sc[c] = "pick" /\ running[c] = NoProc
    /\ release(c)
    /\ sc' = [sc EXCEPT ![c] = "loop"]
    /\ UNCHANGED <<running, pc, handler, saved>>

-----------------------------------------------------------------------------
\* forkret() releases the lock; trapret then loads the eflags of user code.
forkret(c) ==
    /\ At(c, "forkret")
    /\ release(c)
    /\ Goto(c, "trapret")
    /\ UNCHANGED <<running, sc, handler, saved>>

trapret(c) ==
    /\ At(c, "trapret")
    /\ intr' = [intr EXCEPT ![c] = TRUE]
    /\ Goto(c, "run")
    /\ UNCHANGED <<ptlock, ncli, intena, running, sc, handler, saved>>

\* A timer interrupt, and the return from its handler (external).
Interrupt(c) ==
    /\ At(c, "run") /\ intr[c] /\ ~handler[running[c]]
    /\ intr' = [intr EXCEPT ![c] = FALSE]
    /\ handler' = [handler EXCEPT ![running[c]] = TRUE]
    /\ UNCHANGED <<ptlock, ncli, intena, running, sc, pc, saved>>

Iret(c) ==
    /\ At(c, "run") /\ handler[running[c]]
    /\ intr' = [intr EXCEPT ![c] = TRUE]
    /\ handler' = [handler EXCEPT ![running[c]] = FALSE]
    /\ UNCHANGED <<ptlock, ncli, intena, running, sc, pc, saved>>

\* yield() in the handler; exit(), and wait() with its sleep() on ptable.lock,
\* outside.
Enter(c) ==
    /\ At(c, "run")
    /\ acquire(c, intr[c])
    /\ \E l \in IF handler[running[c]] THEN {"sched"} ELSE {"sched", "exit"} : Goto(c, l)
    /\ UNCHANGED <<running, sc, handler, saved>>

\* sleep(chan, lk) with another lock: acquire(lk), acquire(&ptable.lock),
\* release(lk).
AcquireLk(c) ==
    /\ At(c, "run") /\ ~handler[running[c]]
    /\ pushcli(c, intr[c])
    /\ Goto(c, "lk")
    /\ UNCHANGED <<ptlock, running, sc, handler, saved>>

sleep(c) ==
    /\ At(c, "lk")
    /\ acquire(c, intr[c])
    /\ Goto(c, "sleep")
    /\ UNCHANGED <<running, sc, handler, saved>>

\* release(lk) in sleep()
LkReleased(c) == popcli(c)

ReleaseLk(c) ==
    /\ At(c, "sleep")
    /\ LkReleased(c)
    /\ Goto(c, "sched")
    /\ UNCHANGED <<ptlock, running, sc, handler, saved>>

\* sched(): intena = cpu->intena; swtch(&proc->context, cpu->scheduler).  The
\* slot of a process in exit() is next used by a new process.
sched(c) ==
    /\ running[c] # NoProc /\ pc[running[c]] \in {"sched", "exit"}
    /\ saved' = [saved EXCEPT ![running[c]] = pc[running[c]] = "sched" /\ intena[c]]
    /\ Goto(c, IF pc[running[c]] = "exit" THEN "forkret" ELSE "switched")
    /\ running' = [running EXCEPT ![c] = NoProc]
    /\ UNCHANGED <<locks, sc, handler>>

\* Mutant: intena stays with the CPU.
CpuIntena(c) == intena[c]

\* cpu->intena = intena
ThreadIntena(c) == saved[running[c]]

\* sched() returns: on whatever CPU has picked the process.
SchedReturns(c) ==
    /\ At(c, "switched")
    /\ intena' = [intena EXCEPT ![c] = ThreadIntena(c)]
    /\ saved' = [saved EXCEPT ![running[c]] = FALSE]
    /\ Goto(c, "unlock")
    /\ UNCHANGED <<ptlock, intr, ncli, running, sc, handler>>

\* release(&ptable.lock) of yield(), wait() and sleep(); what sleep() does next,
\* acquire(lk), is AcquireLk again.
Leave(c) ==
    /\ At(c, "unlock")
    /\ release(c)
    /\ Goto(c, "run")
    /\ UNCHANGED <<running, sc, handler, saved>>

\* The caller of sleep() releases lk, or finds that it need not sleep.
LeaveLk(c) ==
    /\ At(c, "lk")
    /\ popcli(c)
    /\ Goto(c, "run")
    /\ UNCHANGED <<ptlock, running, sc, handler, saved>>

Run(c) ==
    \/ forkret(c) \/ trapret(c) \/ Interrupt(c) \/ Iret(c) \/ Enter(c) \/ AcquireLk(c) \/ sleep(c)
    \/ ReleaseLk(c) \/ sched(c) \/ SchedReturns(c) \/ Leave(c) \/ LeaveLk(c)

Next == \E c \in Cpu : Loop(c) \/ Pick(c) \/ Unlock(c) \/ Run(c)

Spec == Init /\ [][Next]_vars

-----------------------------------------------------------------------------
\* sched(): "intena is a property of this kernel thread, not this CPU".  Code
\* that holds no lock has interrupts on outside handlers and off in handlers,
\* wherever it slept or was preempted and on whatever CPU it was resumed.
IntenaOfThread ==
    \A c \in Cpu : At(c, "run") => ncli[c] = 0 /\ intr[c] = ~handler[running[c]]

\* The four tests of sched() never panic: who calls it holds ptable.lock and no
\* other lock, with interrupts off, also when the CPU's ncli and ptable.lock
\* were handed over by a thread that has moved on.
SchedMayRun ==
    \A c \in Cpu : At(c, "sched") \/ At(c, "exit") => ptlock = c /\ ncli[c] = 1 /\ ~intr[c]

=============================================================================
