-------------------------------- MODULE Proc --------------------------------
(***************************************************************************)
(* The process table of proc.c, both schedulers, and the system calls that *)
(* change it: fork, exit, wait, sleep/wakeup, kill, yield and nice.        *)
(*                                                                         *)
(* A critical section of ptable.lock is one step, except where the lock is *)
(* handed over by swtch(): then `lock' keeps the CPU that holds it and the *)
(* thread on the other side of the switch releases it in a later step.     *)
(* Interrupts are off while the lock is held, so a timer tick (Yield) can  *)
(* fall only between two steps.                                            *)
(***************************************************************************)
EXTENDS Integers, FiniteSets, Sequences, SequencesExt

CONSTANTS
    NPROC,      \* size of ptable.proc; a slot number stands for a struct proc *
    Cpu,        \* the processors that run scheduler()
    NoCpu,      \* value of `lock' when ptable.lock is free
    Chan,       \* wait channels other than process slots (buffers, pipes, ticks ...)
    Builds,     \* the values of PQ: which of the two kernels is meant
    KillPids,   \* pids that callers pass to kill()
    NicePids,   \* pids that callers pass to nice()
    NicePrios,  \* priorities that callers pass to nice()
    MaxPid      \* bound on nextpid, to keep the model finite

Slot == 1 .. NPROC
PLEVELS == 5
Row == 0 .. PLEVELS - 1

\* userinit() runs before any other process exists: allocproc hands it slot 1.
InitSlot == 1

\* The pointer initproc once nice() has written past marker[]: no slot.
Wild == NPROC + 1

ASSUME ProcAssumption ==
    /\ NPROC \in Nat \ {0}
    /\ NoCpu \notin Cpu
    /\ Chan \cap (0 .. NPROC + 1) = {}
    /\ Builds \subseteq BOOLEAN
    /\ KillPids \subseteq Nat
    /\ NicePids \subseteq Nat
    /\ NicePrios \subseteq Int
    /\ MaxPid \in Nat

VARIABLES
    PQ,         \* TRUE: the build without -DCUSTOM_SCHEDULER (priority queues)
    state,      \* p->state
    pid,        \* p->pid
    parent,     \* p->parent: a slot, 0 for the null pointer, or Wild
    chan,       \* p->chan: 0 when not sleeping
    killed,     \* p->killed
    priority,   \* p->priority
    context,    \* p->context: where swtch() resumes the process
    pc,         \* what the process is executing above its saved context
    np,         \* local pointer of the call in progress: np of fork, p of nice
    val,        \* nice's argument `priority'
    old,        \* nice's local old_priority
    nextpid,
    cpuproc,    \* cpu->proc, 0 while the CPU is in its scheduler
    sp,         \* the scheduler's local p
    lock,       \* the CPU that holds ptable.lock across a swtch, or NoCpu
    queue,      \* priority_q[r][0 .. marker[r]-1] for every row r
    initwild    \* TRUE once initproc no longer points at InitSlot

vars == <<PQ, state, pid, parent, chan, killed, priority, context, pc, np, val, old,
          nextpid, cpuproc, sp, lock, queue, initwild>>

States == {"UNUSED", "EMBRYO", "SLEEPING", "RUNNABLE", "RUNNING", "ZOMBIE"}
Contexts == {"none", "forkret", "yield", "sleep"}
Pcs == {"user", "sys", "fork", "wait", "exit", "panic", "nice", "niceremove", "niceadd"}

(***************************************************************************)
(* The run queues.  Entries are pointers and are compared by the pid they  *)
(* point to, so every operator takes the pids in force when it is called.  *)
(* A row outside the array changes no queue (see NiceAdd for row 5; row -1 *)
(* belongs to slots that were never allocated).                            *)
(***************************************************************************)
Queued(q, pd, p, r) == \E i \in 1 .. Len(q[r]) : pd[q[r][i]] = pd[p]

\* Mutant: no search for a duplicate.
AddUnchecked(q, pd, p, r) == IF r \in Row THEN [q EXCEPT ![r] = Append(@, p)] ELSE q

\* What add_process_to_queue leaves behind; it returns -1 iff Queued.
add_process_to_queue(q, pd, p, r) ==
    IF r \in Row /\ ~ Queued(q, pd, p, r)
    THEN [q EXCEPT ![r] = Append(@, p)]
    ELSE q

\* Drop the first entry with p's pid and close the gap.
remove_process_from_queue(q, pd, p, r) ==
    IF r \in Row /\ Queued(q, pd, p, r)
    THEN LET i == CHOOSE i \in 1 .. Len(q[r]) :
                      /\ pd[q[r][i]] = pd[p]
                      /\ \A j \in 1 .. i - 1 : pd[q[r][j]] # pd[p]
         IN  [q EXCEPT ![r] = RemoveAt(@, i)]
    ELSE q

\* p is the first slot of S in table order.
First(p, S) == p \in S /\ \A t \in S : p <= t

SlotSeq == [i \in Slot |-> i]

\* The rows after wakeup1() appended the sleepers W in table order.
Enqueue(q, W) ==
    IF PQ
    THEN [r \in Row |->
            q[r] \o SelectSeq(SlotSeq, LAMBDA s : /\ s \in W
                                                  /\ priority[s] - 1 = r
                                                  /\ ~ Queued(q, pid, s, r))]
    ELSE q

\* The processes that wakeup1(ch) makes RUNNABLE.
Sleepers(ch) == {p \in Slot : state[p] = "SLEEPING" /\ chan[p] = ch}

initproc == IF initwild THEN Wild ELSE InitSlot

-----------------------------------------------------------------------------
\* After pinit() and userinit(): one RUNNABLE process, every CPU in scheduler().
Init ==
    /\ PQ \in Builds
    /\ state = [p \in Slot |-> IF p = InitSlot THEN "RUNNABLE" ELSE "UNUSED"]
    /\ pid = [p \in Slot |-> IF p = InitSlot THEN 1 ELSE 0]
    /\ parent = [p \in Slot |-> 0]
    /\ chan = [p \in Slot |-> 0]
    /\ killed = [p \in Slot |-> FALSE]
    /\ priority = [p \in Slot |-> IF p = InitSlot THEN 3 ELSE 0]
    /\ context = [p \in Slot |-> IF p = InitSlot THEN "forkret" ELSE "none"]
    /\ pc = [p \in Slot |-> "user"]
    /\ np = [p \in Slot |-> 0]
    /\ val = [p \in Slot |-> 0]
    /\ old = [p \in Slot |-> 0]
    /\ nextpid = 2
    /\ cpuproc = [c \in Cpu |-> 0]
    /\ sp = [c \in Cpu |-> 0]
    /\ lock = NoCpu
    /\ queue = [r \in Row |-> IF PQ /\ r = 2 THEN <<InitSlot>> ELSE <<>>]
    /\ initwild = FALSE

\* Process p executes on CPU c and is not between swtch() and release().
Executes(c, p) == cpuproc[c] = p /\ lock # c /\ context[p] = "none"

\* The same with ptable.lock held by this CPU.
ExecutesLocked(c, p) == cpuproc[c] = p /\ lock = c /\ context[p] = "none"

\* sched(): back in scheduler() after swtch.  The priority scheduler releases
\* the lock at once; the round-robin one goes on scanning with the lock held.
ToScheduler(c) ==
    /\ cpuproc' = [cpuproc EXCEPT ![c] = 0]
    /\ lock' = IF PQ THEN NoCpu ELSE c
    /\ UNCHANGED sp

\* scheduler() switches to p; p inherits the lock.
SwitchTo(c, p) ==
    /\ cpuproc' = [cpuproc EXCEPT ![c] = p]
    /\ state' = [state EXCEPT ![p] = "RUNNING"]
    /\ lock' = c

\* Mutant: the scheduler trusts its queue.
RunnableUnchecked(p) == p \in Slot

\* The priority scheduler's test before it switches to p: not null, and RUNNABLE.
Dispatchable(p) == p \in Slot /\ state[p] = "RUNNABLE"

\* Mutant: every pass starts at the beginning of the table.
ScanFromStart(c) == 1

\* Where the round-robin scan goes on: at the start of the table when the lock
\* was just acquired, after p when p has just switched back.
ScanFrom(c) == IF lock = c THEN sp[c] + 1 ELSE 1

tableVars == <<PQ, pid, parent, chan, killed, priority, nextpid, initwild>>
callVars == <<pc, np, val, old>>
cpuVars == <<cpuproc, sp, lock>>

\* One turn of the priority scheduler's loop.  Its p survives from the turn
\* before when every row is empty.
SchedulePQ(c) ==
    /\ PQ
    /\ cpuproc[c] = 0 /\ lock = NoCpu
    /\ LET busy == {r \in Row : queue[r] # <<>>}
           top  == CHOOSE r \in busy : \A s \in busy : r <= s
           p    == IF busy = {} THEN sp[c] ELSE Head(queue[top])
       IN  /\ sp' = [sp EXCEPT ![c] = p]
           /\ queue' = IF busy = {} THEN queue
                       ELSE remove_process_from_queue(queue, pid, p, top)
           /\ IF Dispatchable(p)
              THEN SwitchTo(c, p)
              ELSE UNCHANGED <<cpuproc, state, lock>>
    /\ UNCHANGED <<tableVars, callVars, context>>

\* The round-robin scheduler looks for the next RUNNABLE slot; at the end of
\* the table it releases the lock.
ScheduleRR(c) ==
    /\ ~ PQ
    /\ cpuproc[c] = 0 /\ lock \in {NoCpu, c}
    /\ LET ready == {p \in Slot : p >= ScanFrom(c) /\ state[p] = "RUNNABLE"}
       IN  \/ \E p \in ready :
                 /\ First(p, ready)
                 /\ sp' = [sp EXCEPT ![c] = p]
                 /\ SwitchTo(c, p)
           \/ /\ ready = {}
              /\ sp' = [sp EXCEPT ![c] = 0]
              /\ lock' = NoCpu
              /\ UNCHANGED <<cpuproc, state>>
    /\ UNCHANGED <<tableVars, callVars, context, queue>>

\* The process that was switched to returns from swtch: forkret, the end of
\* yield, or the end of sleep.  wait() keeps the lock, the others release it.
Resume(c, p) ==
    /\ cpuproc[c] = p /\ lock = c /\ context[p] # "none"
    /\ context' = [context EXCEPT ![p] = "none"]
    /\ chan' = [chan EXCEPT ![p] = IF context[p] = "sleep" THEN 0 ELSE @]
    /\ lock' = IF context[p] = "sleep" /\ pc[p] = "wait" THEN c ELSE NoCpu
    /\ UNCHANGED <<PQ, state, pid, parent, killed, priority, callVars, nextpid,
                   cpuproc, sp, queue, initwild>>

-----------------------------------------------------------------------------
\* Every trap from user space first looks at p->killed (trap.c), so a killed
\* process starts no system call: TrapExit is all it can do.
UserCall(c, p) == Executes(c, p) /\ pc[p] = "user" /\ ~ killed[p]

\* A call that init's program never makes: init.c only forks, waits, and opens,
\* duplicates and writes its console.
NonInitCall(c, p) == UserCall(c, p) /\ p # InitSlot

\* exit() as called from anywhere.
StartExit(p) == pc' = [pc EXCEPT ![p] = IF p = initproc THEN "panic" ELSE "exit"]

Return(p) == pc' = [pc EXCEPT ![p] = "user"]

\* Timer interrupt: trap() calls yield() in user mode and in the kernel.
Yield(c, p) ==
    /\ Executes(c, p) /\ lock = NoCpu
    /\ pc[p] # "panic"
    /\ pc[p] = "user" => ~ killed[p]
    /\ state' = [state EXCEPT ![p] = "RUNNABLE"]
    /\ context' = [context EXCEPT ![p] = "yield"]
    /\ queue' = IF PQ THEN add_process_to_queue(queue, pid, p, priority[p] - 1)
                ELSE queue
    /\ ToScheduler(c)
    /\ UNCHANGED <<tableVars, callVars>>

\* A system call that this module does not describe (read, write, sleep ...).
Syscall(c, p) ==
    /\ UserCall(c, p)
    /\ pc' = [pc EXCEPT ![p] = "sys"]
    /\ UNCHANGED <<state, tableVars, context, np, val, old, cpuVars, queue>>

SyscallReturn(c, p) ==
    /\ Executes(c, p) /\ pc[p] = "sys"
    /\ Return(p)
    /\ UNCHANGED <<state, tableVars, context, np, val, old, cpuVars, queue>>

\* sleep(ch, lk) with a lock other than ptable.lock, from such a system call or
\* from the file closing that exit() does before it takes ptable.lock.
Sleep(c, p, ch) ==
    /\ Executes(c, p) /\ lock = NoCpu
    /\ pc[p] \in {"sys", "exit"}
    /\ chan' = [chan EXCEPT ![p] = ch]
    /\ state' = [state EXCEPT ![p] = "SLEEPING"]
    /\ context' = [context EXCEPT ![p] = "sleep"]
    /\ ToScheduler(c)
    /\ UNCHANGED <<PQ, pid, parent, killed, priority, nextpid, initwild, callVars, queue>>

\* wakeup(ch) by an interrupt handler or a process on some CPU.
Wakeup(ch) ==
    /\ lock = NoCpu
    /\ Sleepers(ch) # {}
    /\ state' = [p \in Slot |-> IF p \in Sleepers(ch) THEN "RUNNABLE" ELSE state[p]]
    /\ queue' = Enqueue(queue, Sleepers(ch))
    /\ UNCHANGED <<tableVars, context, callVars, cpuVars>>

-----------------------------------------------------------------------------
PidAfter == nextpid + 1

\* allocproc()'s critical section, called by fork().
allocproc(c, p) ==
    /\ UserCall(c, p) /\ lock = NoCpu
    /\ nextpid <= MaxPid
    /\ \E n \in Slot :
          /\ First(n, {s \in Slot : state[s] = "UNUSED"})
          /\ state' = [state EXCEPT ![n] = "EMBRYO"]
          /\ pid' = [pid EXCEPT ![n] = nextpid]
          /\ priority' = [priority EXCEPT ![n] = 3]
          /\ np' = [np EXCEPT ![p] = n]
    /\ nextpid' = PidAfter
    /\ pc' = [pc EXCEPT ![p] = "fork"]
    /\ UNCHANGED <<PQ, parent, chan, killed, context, val, old, cpuVars, queue, initwild>>

\* kalloc() or copyuvm() found no memory: the slot is given back without the
\* lock, and keeps its pid.
ForkFail(c, p) ==
    /\ Executes(c, p) /\ pc[p] = "fork"
    /\ state' = [state EXCEPT ![np[p]] = "UNUSED"]
    /\ np' = [np EXCEPT ![p] = 0]
    /\ Return(p)
    /\ UNCHANGED <<tableVars, context, val, old, cpuVars, queue>>

\* The rest of fork().  The unlocked copying into the EMBRYO slot is seen by
\* nobody before the critical section that ends it, and is part of this step.
\* If the child is queued already the parent leaves through exit().
fork(c, p) ==
    /\ Executes(c, p) /\ pc[p] = "fork" /\ lock = NoCpu
    /\ LET n == np[p]
           r == priority[n] - 1
       IN  /\ state' = [state EXCEPT ![n] = "RUNNABLE"]
           /\ parent' = [parent EXCEPT ![n] = p]
           /\ context' = [context EXCEPT ![n] = "forkret"]
           /\ queue' = IF PQ THEN add_process_to_queue(queue, pid, n, r) ELSE queue
           /\ pc' = [pc EXCEPT ![n] = "user",
                               ![p] = IF ~ (PQ /\ Queued(queue, pid, n, r)) THEN "user"
                                      ELSE IF p = initproc THEN "panic" ELSE "exit"]
    /\ np' = [np EXCEPT ![p] = 0]
    /\ UNCHANGED <<PQ, pid, chan, killed, priority, val, old, nextpid, cpuVars, initwild>>

\* The exit system call.
Exit(c, p) ==
    /\ NonInitCall(c, p)
    /\ StartExit(p)
    /\ UNCHANGED <<state, tableVars, context, np, val, old, cpuVars, queue>>

\* trap() sends a killed process to exit() at the user boundary.
TrapExit(c, p) ==
    /\ Executes(c, p) /\ pc[p] = "user" /\ killed[p]
    /\ StartExit(p)
    /\ UNCHANGED <<state, tableVars, context, np, val, old, cpuVars, queue>>

Children(p) == {q \in Slot : parent[q] = p}

\* Mutant: any ZOMBIE will do.
AnyZombie(p) == {q \in Slot : state[q] = "ZOMBIE"}

ZombieChildren(p) == {q \in Children(p) : state[q] = "ZOMBIE"}

\* Mutants: children stay with the dying parent; the parent is not woken.
ChildrenKept(p) == parent
ParentNotWoken(p) == {}

\* exit()'s loop over the table: p's children become init's, and init is woken
\* if one of them is a ZOMBIE.
Reparented(p) == [q \in Slot |-> IF q \in Children(p) THEN initproc ELSE parent[q]]
InitWoken(p) == IF ZombieChildren(p) # {} THEN Sleepers(initproc) ELSE {}
ParentWoken(p) == Sleepers(parent[p])

\* exit() from its acquire on: wake the parent, give the children to init (and
\* wake init if one of them is a ZOMBIE), become a ZOMBIE and never return.
exit(c, p) ==
    /\ Executes(c, p) /\ pc[p] = "exit" /\ lock = NoCpu
    /\ parent' = Reparented(p)
    /\ state' = [q \in Slot |-> IF q = p THEN "ZOMBIE"
                                ELSE IF q \in ParentWoken(p) \cup InitWoken(p) THEN "RUNNABLE"
                                ELSE state[q]]
    /\ queue' = Enqueue(Enqueue(queue, ParentWoken(p)), InitWoken(p) \ ParentWoken(p))
    /\ ToScheduler(c)
    /\ UNCHANGED <<PQ, pid, chan, killed, priority, nextpid, initwild, context, callVars>>

-----------------------------------------------------------------------------
\* wait() acquires the lock and keeps it through its scans of the table.
WaitCall(c, p) ==
    /\ UserCall(c, p) /\ lock = NoCpu
    /\ pc' = [pc EXCEPT ![p] = "wait"]
    /\ lock' = c
    /\ UNCHANGED <<state, tableVars, context, np, val, old, cpuproc, sp, queue>>

\* The scan finds a ZOMBIE.  The pid is cleared before the queue is searched,
\* so the entry removed is the first one of the row whose pid is 0.
WaitReap(c, p) ==
    /\ ExecutesLocked(c, p) /\ pc[p] = "wait"
    /\ \E q \in ZombieChildren(p) :
          /\ First(q, ZombieChildren(p))
          /\ pid' = [pid EXCEPT ![q] = 0]
          /\ parent' = [parent EXCEPT ![q] = 0]
          /\ killed' = [killed EXCEPT ![q] = FALSE]
          /\ state' = [state EXCEPT ![q] = "UNUSED"]
          /\ queue' = IF PQ THEN remove_process_from_queue(queue, pid', q, priority[q] - 1)
                      ELSE queue
    /\ lock' = NoCpu
    /\ Return(p)
    /\ UNCHANGED <<PQ, chan, priority, context, np, val, old, nextpid, cpuproc, sp, initwild>>

WaitFail(c, p) ==
    /\ ExecutesLocked(c, p) /\ pc[p] = "wait"
    /\ ZombieChildren(p) = {}
    /\ Children(p) = {} \/ killed[p]
    /\ lock' = NoCpu
    /\ Return(p)
    /\ UNCHANGED <<state, tableVars, context, np, val, old, cpuproc, sp, queue>>

\* sleep(proc, &ptable.lock)
WaitSleep(c, p) ==
    /\ ExecutesLocked(c, p) /\ pc[p] = "wait"
    /\ ZombieChildren(p) = {}
    /\ Children(p) # {} /\ ~ killed[p]
    /\ chan' = [chan EXCEPT ![p] = p]
    /\ state' = [state EXCEPT ![p] = "SLEEPING"]
    /\ context' = [context EXCEPT ![p] = "sleep"]
    /\ ToScheduler(c)
    /\ UNCHANGED <<PQ, pid, parent, killed, priority, nextpid, initwild, callVars, queue>>

-----------------------------------------------------------------------------
\* kill(k).  The braces that would limit the queueing to a sleeping target are
\* missing: the target is queued whatever its state, and when it is queued
\* already the caller leaves through exit().
kill(c, p, k) ==
    /\ NonInitCall(c, p) /\ lock = NoCpu
    /\ \E q \in Slot :
          LET r == priority[q] - 1 IN
          /\ First(q, {s \in Slot : pid[s] = k})
          /\ killed' = [killed EXCEPT ![q] = TRUE]
          /\ state' = [state EXCEPT ![q] = IF @ = "SLEEPING" THEN "RUNNABLE" ELSE @]
          /\ queue' = IF PQ THEN add_process_to_queue(queue, pid, q, r) ELSE queue
          /\ IF PQ /\ r \in Row /\ Queued(queue, pid, q, r)
             THEN StartExit(p)
             ELSE UNCHANGED pc
    /\ UNCHANGED <<PQ, pid, parent, chan, priority, nextpid, initwild, context,
                   np, val, old, cpuVars>>

ValidPriority(v) == v >= 1 /\ v <= 5

\* nice(k, v) up to the release of ptable.lock.  A bad priority or an unknown
\* pid ends the caller.
nice(c, p, k, v) ==
    /\ NonInitCall(c, p) /\ lock = NoCpu
    /\ \/ /\ ValidPriority(v)
          /\ \E q \in Slot :
                /\ First(q, {s \in Slot : pid[s] = k})
                /\ np' = [np EXCEPT ![p] = q]
          /\ val' = [val EXCEPT ![p] = v]
          /\ pc' = [pc EXCEPT ![p] = "nice"]
       \/ /\ ~ ValidPriority(v) \/ \A s \in Slot : pid[s] # k
          /\ StartExit(p)
          /\ UNCHANGED <<np, val>>
    /\ UNCHANGED <<state, tableVars, context, old, cpuVars, queue>>

\* The rest of nice() runs without the lock and can be preempted between any
\* two of its steps.
NiceSet(c, p) ==
    /\ Executes(c, p) /\ pc[p] = "nice"
    /\ old' = [old EXCEPT ![p] = priority[np[p]]]
    /\ priority' = [priority EXCEPT ![np[p]] = val[p]]
    /\ pc' = [pc EXCEPT ![p] = "niceremove"]
    /\ UNCHANGED <<PQ, state, pid, parent, chan, killed, nextpid, initwild, context, np, val,
                   cpuVars, queue>>

\* Row old_priority, not old_priority - 1.  For row 5 the word read as marker[5]
\* is the pointer initproc, a negative int: the search loop does not run.
NiceRemove(c, p) ==
    /\ Executes(c, p) /\ pc[p] = "niceremove"
    /\ queue' = remove_process_from_queue(queue, pid, np[p], old[p])
    /\ pc' = [pc EXCEPT ![p] = "niceadd"]
    /\ UNCHANGED <<state, tableVars, context, np, val, old, cpuVars>>

\* Row priority, not priority - 1.  For row 5 the increment of marker[5] moves
\* the pointer initproc, the word that follows marker[] in the kernel image.
NiceAdd(c, p) ==
    /\ Executes(c, p) /\ pc[p] = "niceadd"
    /\ queue' = add_process_to_queue(queue, pid, np[p], val[p])
    /\ initwild' = (initwild \/ val[p] \notin Row)
    /\ Return(p)
    /\ np' = [np EXCEPT ![p] = 0]
    /\ val' = [val EXCEPT ![p] = 0]
    /\ old' = [old EXCEPT ![p] = 0]
    /\ UNCHANGED <<PQ, state, pid, parent, chan, killed, priority, nextpid, context, cpuVars>>

-----------------------------------------------------------------------------
ProcStep(c, p) ==
    \/ Resume(c, p) \/ Yield(c, p) \/ Syscall(c, p) \/ SyscallReturn(c, p)
    \/ allocproc(c, p) \/ ForkFail(c, p) \/ fork(c, p)
    \/ Exit(c, p) \/ TrapExit(c, p) \/ exit(c, p)
    \/ WaitCall(c, p) \/ WaitReap(c, p) \/ WaitFail(c, p) \/ WaitSleep(c, p)
    \/ NiceSet(c, p) \/ NiceRemove(c, p) \/ NiceAdd(c, p)
    \/ \E ch \in Chan : Sleep(c, p, ch)
    \/ \E k \in KillPids : kill(c, p, k)
    \/ \E k \in NicePids, v \in NicePrios : nice(c, p, k, v)

Next ==
    \/ \E c \in Cpu : SchedulePQ(c) \/ ScheduleRR(c) \/ \E p \in Slot : ProcStep(c, p)
    \/ \E ch \in Chan : Wakeup(ch)

Spec == Init /\ [][Next]_vars
-----------------------------------------------------------------------------
(***************************************************************************)
(* Properties.                                                             *)
(***************************************************************************)

\* Type invariant of the process table, the CPUs and the run queues.
TypeOK ==
    /\ PQ \in BOOLEAN
    /\ state \in [Slot -> States]
    /\ pid \in [Slot -> Nat]
    /\ parent \in [Slot -> 0 .. Wild]
    /\ chan \in [Slot -> {0} \cup Slot \cup Chan]
    /\ killed \in [Slot -> BOOLEAN]
    /\ priority \in [Slot -> 0 .. 5]
    /\ context \in [Slot -> Contexts]
    /\ pc \in [Slot -> Pcs]
    /\ np \in [Slot -> 0 .. NPROC]
    /\ val \in [Slot -> 0 .. 5]
    /\ old \in [Slot -> 0 .. 5]
    /\ nextpid \in Nat
    /\ cpuproc \in [Cpu -> 0 .. NPROC]
    /\ sp \in [Cpu -> 0 .. NPROC]
    /\ lock \in Cpu \cup {NoCpu}
    /\ queue \in [Row -> Seq(Slot)]
    /\ initwild \in BOOLEAN

Live == {"SLEEPING", "RUNNABLE", "RUNNING"}

\* A process is RUNNING exactly while one CPU has it as cpu->proc, and no two
\* CPUs share one: stale queue entries (kill and nice queue processes that are
\* not RUNNABLE) and the scheduler's stale p never start a process twice.
OneCpuPerProcess ==
    /\ \A p \in Slot : state[p] = "RUNNING" <=> \E c \in Cpu : cpuproc[c] = p
    /\ \A c, d \in Cpu : cpuproc[c] = cpuproc[d] /\ cpuproc[c] # 0 => c = d

\* exit() and wait() cannot miss each other: a process asleep in wait() has no
\* ZOMBIE child (it would sleep through the exit it waits for) and was not
\* killed (kill would have had to wake it).
NoLostChildExit ==
    \A p \in Slot : state[p] = "SLEEPING" /\ pc[p] = "wait" =>
                        ZombieChildren(p) = {} /\ ~ killed[p]

\* "Pass abandoned children to init": every process other than init has a
\* parent that can still call wait() for it, so no ZOMBIE is left for ever.
OrphansToInit ==
    \A p \in Slot : p # InitSlot /\ state[p] \in Live \cup {"ZOMBIE"} =>
                        parent[p] \in Slot /\ state[parent[p]] \in Live

\* The pid of a process names it alone; a slot in use never has pid 0.
\* kill, nice and the run queues find processes by pid.
UniquePids ==
    \A p, q \in Slot : /\ state[p] # "UNUSED" => pid[p] # 0
                       /\ pid[p] = pid[q] /\ pid[p] # 0 => p = q

\* No slot stands twice in a row, so a row of NPROC entries never overflows, and
\* the pids by which the queues know their entries tell processes apart.
QueueFits ==
    /\ TypeOK /\ UniquePids
    /\ \A r \in Row : /\ \A i, j \in 1 .. Len(queue[r]) : queue[r][i] = queue[r][j] => i = j
                      /\ Len(queue[r]) <= NPROC

\* How a slot in use becomes UNUSED: its parent, in wait(), collects a ZOMBIE,
\* or fork() gives up on an EMBRYO.
FreedByParent ==
    \A q \in Slot : state'[q] = "UNUSED" /\ state[q] # "UNUSED" =>
        \/ state[q] = "ZOMBIE" /\ parent[q] \in Slot /\ pc[parent[q]] = "wait"
        \/ state[q] = "EMBRYO"

\* A ZOMBIE slot is freed by its parent's wait() and by nothing else, and a slot
\* is never taken from a process that has not exited.
ReapedByParent == [][FreedByParent]_vars

\* The scheduler gives the CPU to a process of the highest priority (lowest
\* nice value) among the RUNNABLE ones.
HighestFirst ==
    [][\A c \in Cpu : cpuproc[c] = 0 /\ cpuproc'[c] # 0 =>
          \A q \in Slot : state[q] = "RUNNABLE" => priority[cpuproc'[c]] <= priority[q]]_vars

-----------------------------------------------------------------------------
\* Liveness.  A CPU's loop and the code between swtch and release run on with
\* interrupts off (weak fairness).  The timer interrupt is held pending while
\* interrupts are off and taken as soon as they are on again (strong fairness).
Fairness ==
    \A c \in Cpu :
        /\ WF_vars(SchedulePQ(c) \/ ScheduleRR(c))
        /\ \A p \in Slot :
              /\ WF_vars(Resume(c, p))
              /\ WF_vars(WaitReap(c, p) \/ WaitFail(c, p) \/ WaitSleep(c, p))
              /\ SF_vars(Yield(c, p) \/ TrapExit(c, p))

FairSpec == Spec /\ Fairness

\* Every RUNNABLE process gets the CPU.
RunnableRuns == \A p \in Slot : state[p] = "RUNNABLE" ~> state[p] = "RUNNING"

\* wait() returns once there is a ZOMBIE to collect, and once its caller is
\* killed: the exit of a child, the wakeup, the scheduler and the second scan
\* of the table work together.
WaitReturns ==
    \A p \in Slot : pc[p] = "wait" /\ (ZombieChildren(p) # {} \/ killed[p]) ~> pc[p] # "wait"
=============================================================================
