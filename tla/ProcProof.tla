------------------------------ MODULE ProcProof ------------------------------
(***************************************************************************)
(* Safety of the process table for every number of slots and CPUs, and for *)
(* both schedulers.  None of the arguments looks at the contents of the    *)
(* run queues: they hold whatever kill() and nice() leave there.           *)
(***************************************************************************)
EXTENDS Proc, TLAPS

\* TypeOK without the run queues and without the scheduler's pointer into them.
TableTypeOK ==
    /\ state \in [Slot -> States]
    /\ pid \in [Slot -> Nat]
    /\ parent \in [Slot -> 0 .. Wild]
    /\ chan \in [Slot -> {0} \cup Slot \cup Chan]
    /\ killed \in [Slot -> BOOLEAN]
    /\ priority \in [Slot -> 0 .. 5]
    /\ context \in [Slot -> Contexts]
    /\ pc \in [Slot -> Pcs]
    /\ np \in [Slot -> 0 .. NPROC]
    /\ val \in [Slot -> 0 .. 5]
    /\ old \in [Slot -> 0 .. 5]
    /\ nextpid \in Nat \ {0}
    /\ cpuproc \in [Cpu -> 0 .. NPROC]
    /\ lock \in Cpu \cup {NoCpu}
    /\ initwild \in BOOLEAN

\* A process inside fork() or nice() holds a pointer to a slot.
PointerOK ==
    \A p \in Slot : pc[p] \in {"fork", "nice", "niceremove", "niceadd"} => np[p] \in Slot

\* Slots are the non-null pointers, and initproc starts as one.
LEMMA SlotFacts ==
    /\ InitSlot \in Slot
    /\ Slot \subseteq 0 .. NPROC /\ Slot \subseteq 0 .. Wild
    /\ 0 \notin Slot /\ 0 \in 0 .. NPROC /\ 0 \in 0 .. Wild
    /\ Wild \in 0 .. Wild /\ Wild \notin Slot
BY ProcAssumption DEF InitSlot, Slot, Wild

\* The initial table is well typed.
LEMMA TypingInit == Init => TableTypeOK /\ PointerOK
<1> SUFFICES ASSUME Init PROVE TableTypeOK /\ PointerOK
  OBVIOUS
<1> USE ProcAssumption, SlotFacts DEF Init
<1>1. state \in [Slot -> States] /\ pid \in [Slot -> Nat] /\ priority \in [Slot -> 0 .. 5]
  BY DEF States
<1>2. parent \in [Slot -> 0 .. Wild] /\ chan \in [Slot -> {0} \cup Slot \cup Chan]
  BY DEF Wild
<1>3. /\ killed \in [Slot -> BOOLEAN] /\ initwild \in BOOLEAN
      /\ context \in [Slot -> Contexts] /\ pc \in [Slot -> Pcs]
  BY DEF Contexts, Pcs
<1>4. np \in [Slot -> 0 .. NPROC] /\ val \in [Slot -> 0 .. 5] /\ old \in [Slot -> 0 .. 5]
  OBVIOUS
<1>5. cpuproc \in [Cpu -> 0 .. NPROC] /\ lock \in Cpu \cup {NoCpu} /\ nextpid \in Nat \ {0}
  OBVIOUS
<1>6. PointerOK
  BY DEF PointerOK
<1> QED
  BY <1>1, <1>2, <1>3, <1>4, <1>5, <1>6 DEF TableTypeOK

\* Every step keeps the table well typed.
LEMMA TypingStep ==
    ASSUME TableTypeOK, PointerOK, [Next]_vars
    PROVE  TableTypeOK' /\ PointerOK'
<1> USE ProcAssumption, SlotFacts DEF TableTypeOK, PointerOK, States, Contexts, Pcs
<1>1. ASSUME NEW c \in Cpu, SchedulePQ(c)
      PROVE  TableTypeOK' /\ PointerOK'
  <2>1. \/ \E p \in Slot : SwitchTo(c, p)
        \/ UNCHANGED <<cpuproc, state, lock>>
    BY <1>1 DEF SchedulePQ, Dispatchable
  <2>2. UNCHANGED <<pid, parent, chan, killed, priority, nextpid, initwild, pc, np, val,
                  old, context>>
    BY <1>1 DEF SchedulePQ, tableVars, callVars
  <2>3. QED
    BY <2>1, <2>2 DEF SwitchTo
<1>2. ASSUME NEW c \in Cpu, ScheduleRR(c)
      PROVE  TableTypeOK' /\ PointerOK'
  <2>1. \/ \E p \in Slot : SwitchTo(c, p)
        \/ UNCHANGED <<cpuproc, state>> /\ lock' = NoCpu
    BY <1>2 DEF ScheduleRR
  <2>2. UNCHANGED <<pid, parent, chan, killed, priority, nextpid, initwild, pc, np, val,
                  old, context>>
    BY <1>2 DEF ScheduleRR, tableVars, callVars
  <2>3. QED
    BY <2>1, <2>2 DEF SwitchTo
<1>3. ASSUME NEW ch \in Chan, Wakeup(ch)
      PROVE  TableTypeOK' /\ PointerOK'
  BY <1>3 DEF Wakeup, tableVars, callVars, cpuVars
<1>4. ASSUME NEW c \in Cpu, NEW p \in Slot, Resume(c, p)
      PROVE  TableTypeOK' /\ PointerOK'
  BY <1>4 DEF Resume, callVars
<1>5. ASSUME NEW c \in Cpu, NEW p \in Slot, Yield(c, p)
      PROVE  TableTypeOK' /\ PointerOK'
  BY <1>5 DEF Yield, ToScheduler, tableVars, callVars
<1>6. ASSUME NEW c \in Cpu, NEW p \in Slot, Syscall(c, p) \/ SyscallReturn(c, p)
      PROVE  TableTypeOK' /\ PointerOK'
  BY <1>6 DEF Syscall, SyscallReturn, Return, tableVars, cpuVars
<1>7. ASSUME NEW c \in Cpu, NEW p \in Slot, allocproc(c, p)
      PROVE  TableTypeOK' /\ PointerOK'
  BY <1>7 DEF allocproc, First, PidAfter, cpuVars
<1>8. ASSUME NEW c \in Cpu, NEW p \in Slot, ForkFail(c, p)
      PROVE  TableTypeOK' /\ PointerOK'
  BY <1>8 DEF ForkFail, Return, tableVars, cpuVars
<1>9. ASSUME NEW c \in Cpu, NEW p \in Slot, fork(c, p)
      PROVE  TableTypeOK' /\ PointerOK'
  BY <1>9 DEF fork, cpuVars
<1>10. ASSUME NEW c \in Cpu, NEW p \in Slot, Exit(c, p) \/ TrapExit(c, p)
       PROVE  TableTypeOK' /\ PointerOK'
  BY <1>10 DEF Exit, TrapExit, StartExit, tableVars, cpuVars
<1>11. ASSUME NEW c \in Cpu, NEW p \in Slot, exit(c, p)
       PROVE  TableTypeOK' /\ PointerOK'
  BY <1>11 DEF exit, Reparented, initproc, ToScheduler, callVars
<1>12. ASSUME NEW c \in Cpu, NEW p \in Slot, WaitCall(c, p) \/ WaitFail(c, p)
       PROVE  TableTypeOK' /\ PointerOK'
  BY <1>12 DEF WaitCall, WaitFail, Return, tableVars
<1>13. ASSUME NEW c \in Cpu, NEW p \in Slot, WaitReap(c, p)
       PROVE  TableTypeOK' /\ PointerOK'
  BY <1>13 DEF WaitReap, Return, ZombieChildren, Children
<1>14. ASSUME NEW c \in Cpu, NEW p \in Slot, WaitSleep(c, p)
       PROVE  TableTypeOK' /\ PointerOK'
  BY <1>14 DEF WaitSleep, ToScheduler, callVars
<1>15. ASSUME NEW c \in Cpu, NEW p \in Slot, NEW ch \in Chan, Sleep(c, p, ch)
       PROVE  TableTypeOK' /\ PointerOK'
  BY <1>15 DEF Sleep, ToScheduler, callVars
<1>16. ASSUME NEW c \in Cpu, NEW p \in Slot, NEW k \in KillPids, kill(c, p, k)
       PROVE  TableTypeOK' /\ PointerOK'
  BY <1>16 DEF kill, StartExit, First, cpuVars
<1>17. ASSUME NEW c \in Cpu, NEW p \in Slot, NEW k \in NicePids, NEW v \in NicePrios,
              nice(c, p, k, v)
       PROVE  TableTypeOK' /\ PointerOK'
  <2>1. ValidPriority(v) => v \in 0 .. 5
    BY DEF ValidPriority
  <2>2. QED
    BY <1>17, <2>1 DEF nice, StartExit, First, tableVars, cpuVars
<1>18. ASSUME NEW c \in Cpu, NEW p \in Slot, NiceSet(c, p)
       PROVE  TableTypeOK' /\ PointerOK'
  BY <1>18 DEF NiceSet, cpuVars
<1>19. ASSUME NEW c \in Cpu, NEW p \in Slot, NiceRemove(c, p) \/ NiceAdd(c, p)
       PROVE  TableTypeOK' /\ PointerOK'
  <2>1. CASE NiceRemove(c, p)
    BY <2>1 DEF NiceRemove, tableVars, cpuVars
  <2>2. CASE NiceAdd(c, p)
    <3>1. initwild' \in BOOLEAN
      BY <2>2 DEF NiceAdd
    <3>2. QED
      BY <2>2, <3>1 DEF NiceAdd, Return, cpuVars
  <2>3. QED
    BY <1>19, <2>1, <2>2
<1>20. CASE UNCHANGED vars
  BY <1>20 DEF vars
<1>21. QED
  BY <1>1, <1>2, <1>3, <1>4, <1>5, <1>6, <1>7, <1>8, <1>9, <1>10, <1>11, <1>12, <1>13,
     <1>14, <1>15, <1>16, <1>17, <1>18, <1>19, <1>20 DEF Next, ProcStep
-----------------------------------------------------------------------------
\* The slot that fork() is filling is EMBRYO and is filled by one process only.
ForkOK ==
    /\ \A p \in Slot : pc[p] = "fork" => state[np[p]] = "EMBRYO"
    /\ \A p, q \in Slot : pc[p] = "fork" /\ pc[q] = "fork" /\ np[p] = np[q] => p = q

RunInv == OneCpuPerProcess /\ ForkOK

\* At boot no process is RUNNING and no fork is in progress.
LEMMA RunInvInit == Init => RunInv
BY SlotFacts DEF Init, RunInv, OneCpuPerProcess, ForkOK

\* Every step keeps RUNNING processes on exactly one CPU.
LEMMA RunInvStep ==
    ASSUME TableTypeOK, PointerOK, RunInv, [Next]_vars
    PROVE  RunInv'
<1> USE SlotFacts DEF TableTypeOK, PointerOK, RunInv, OneCpuPerProcess, ForkOK
<1>1. ASSUME NEW c \in Cpu, SchedulePQ(c)
      PROVE  RunInv'
  <2>1. \/ \E p \in Slot : state[p] = "RUNNABLE" /\ SwitchTo(c, p)
        \/ UNCHANGED <<cpuproc, state>>
    BY <1>1 DEF SchedulePQ, Dispatchable
  <2>2. cpuproc[c] = 0 /\ UNCHANGED <<pc, np>>
    BY <1>1 DEF SchedulePQ, callVars
  <2>3. QED
    BY <2>1, <2>2 DEF SwitchTo
<1>2. ASSUME NEW c \in Cpu, ScheduleRR(c)
      PROVE  RunInv'
  <2>1. \/ \E p \in Slot : state[p] = "RUNNABLE" /\ SwitchTo(c, p)
        \/ UNCHANGED <<cpuproc, state>>
    BY <1>2 DEF ScheduleRR, First
  <2>2. cpuproc[c] = 0 /\ UNCHANGED <<pc, np>>
    BY <1>2 DEF ScheduleRR, callVars
  <2>3. QED
    BY <2>1, <2>2 DEF SwitchTo
<1>3. ASSUME NEW ch \in Chan, Wakeup(ch)
      PROVE  RunInv'
  BY <1>3 DEF Wakeup, Sleepers, tableVars, callVars, cpuVars
<1>4. ASSUME NEW c \in Cpu, NEW p \in Slot, Resume(c, p)
      PROVE  RunInv'
  BY <1>4 DEF Resume, callVars
<1>5. ASSUME NEW c \in Cpu, NEW p \in Slot, Yield(c, p)
      PROVE  RunInv'
  BY <1>5 DEF Yield, Executes, ToScheduler, tableVars, callVars
<1>6. ASSUME NEW c \in Cpu, NEW p \in Slot, Syscall(c, p) \/ SyscallReturn(c, p)
      PROVE  RunInv'
  BY <1>6 DEF Syscall, SyscallReturn, Return, cpuVars
<1>7. ASSUME NEW c \in Cpu, NEW p \in Slot, allocproc(c, p)
      PROVE  RunInv'
  BY <1>7 DEF allocproc, First, cpuVars
<1>8. ASSUME NEW c \in Cpu, NEW p \in Slot, ForkFail(c, p)
      PROVE  RunInv'
  BY <1>8 DEF ForkFail, Executes, Return, cpuVars
<1>9. ASSUME NEW c \in Cpu, NEW p \in Slot, fork(c, p)
      PROVE  RunInv'
  BY <1>9 DEF fork, Executes, cpuVars
<1>10. ASSUME NEW c \in Cpu, NEW p \in Slot, Exit(c, p) \/ TrapExit(c, p)
      PROVE  RunInv'
  BY <1>10 DEF Exit, TrapExit, StartExit, cpuVars
<1>11. ASSUME NEW c \in Cpu, NEW p \in Slot, exit(c, p)
      PROVE  RunInv'
  BY <1>11 DEF exit, Executes, ParentWoken, InitWoken, Sleepers, ToScheduler, callVars
<1>12. ASSUME NEW c \in Cpu, NEW p \in Slot, WaitCall(c, p) \/ WaitFail(c, p)
      PROVE  RunInv'
  BY <1>12 DEF WaitCall, WaitFail, Return
<1>13. ASSUME NEW c \in Cpu, NEW p \in Slot, WaitReap(c, p)
      PROVE  RunInv'
  BY <1>13 DEF WaitReap, Return, ZombieChildren, Children
<1>14. ASSUME NEW c \in Cpu, NEW p \in Slot, WaitSleep(c, p)
      PROVE  RunInv'
  BY <1>14 DEF WaitSleep, ExecutesLocked, ToScheduler, callVars
<1>15. ASSUME NEW c \in Cpu, NEW p \in Slot, NEW ch \in Chan, Sleep(c, p, ch)
      PROVE  RunInv'
  BY <1>15 DEF Sleep, Executes, ToScheduler, callVars
<1>16. ASSUME NEW c \in Cpu, NEW p \in Slot, NEW k \in KillPids, kill(c, p, k)
      PROVE  RunInv'
  BY <1>16 DEF kill, StartExit, First, cpuVars
<1>17. ASSUME NEW c \in Cpu, NEW p \in Slot, NEW k \in NicePids, NEW v \in NicePrios,
             nice(c, p, k, v)
      PROVE  RunInv'
  <2>1. UNCHANGED <<state, cpuproc>>
    BY <1>17 DEF nice, cpuVars
  <2>2. \/ pc' = [pc EXCEPT ![p] = "nice"] /\ \E q \in Slot : np' = [np EXCEPT ![p] = q]
        \/ StartExit(p) /\ np' = np
    BY <1>17 DEF nice
  <2>3. QED
    BY <2>1, <2>2 DEF StartExit
<1>18. ASSUME NEW c \in Cpu, NEW p \in Slot,
             NiceSet(c, p) \/ NiceRemove(c, p) \/ NiceAdd(c, p)
      PROVE  RunInv'
  BY <1>18 DEF NiceSet, NiceRemove, NiceAdd, Return, cpuVars
<1>19. CASE UNCHANGED vars
  BY <1>19 DEF vars
<1> QED
  BY <1>1, <1>2, <1>3, <1>4, <1>5, <1>6, <1>7, <1>8, <1>9, <1>10, <1>11, <1>12,
     <1>13, <1>14, <1>15, <1>16, <1>17, <1>18, <1>19 DEF Next, ProcStep
-----------------------------------------------------------------------------
\* No caller asks nice() for priority 5, the one whose row lies past the queues.
NoNice5 == 5 \notin NicePrios

\* init stays alive, has no parent, and the pointer initproc still finds it.
InitOK ==
    /\ ~ initwild
    /\ pc[InitSlot] # "exit" /\ state[InitSlot] \in Live /\ parent[InitSlot] = 0
    /\ \A p \in Slot : pc[p] \in {"nice", "niceremove", "niceadd"} => val[p] \in Row

\* A process asleep in wait() sleeps on its own slot; nobody is its own parent.
WaitOK ==
    \A p \in Slot : /\ state[p] = "SLEEPING" /\ pc[p] = "wait" => chan[p] = p
                    /\ parent[p] # p

FamilyInv == InitOK /\ WaitOK /\ NoLostChildExit /\ OrphansToInit

\* At boot init is the only process and has no children.
LEMMA FamilyInvInit == Init => FamilyInv
BY SlotFacts
   DEF Init, FamilyInv, InitOK, WaitOK, NoLostChildExit, OrphansToInit, Live

\* Every step keeps parents able to collect their children.
LEMMA FamilyInvStep ==
    ASSUME NoNice5, TableTypeOK, PointerOK, RunInv, FamilyInv, [Next]_vars
    PROVE  FamilyInv'
<1> USE SlotFacts
    DEF TableTypeOK, PointerOK, RunInv, OneCpuPerProcess, ForkOK, FamilyInv, InitOK, WaitOK,
        NoLostChildExit, OrphansToInit, Live, Children, ZombieChildren
<1>1. ASSUME NEW c \in Cpu, SchedulePQ(c)
      PROVE  FamilyInv'
  <2>1. \/ \E p \in Slot : state[p] = "RUNNABLE" /\ SwitchTo(c, p)
        \/ UNCHANGED state
    BY <1>1 DEF SchedulePQ, Dispatchable
  <2>2. UNCHANGED <<parent, chan, killed, pc, val, initwild>>
    BY <1>1 DEF SchedulePQ, tableVars, callVars
  <2>3. CASE UNCHANGED state
    BY <2>2, <2>3
  <2>4. ASSUME NEW p \in Slot, state[p] = "RUNNABLE", SwitchTo(c, p)
        PROVE  FamilyInv'
    BY <2>2, <2>4 DEF SwitchTo
  <2>5. QED
    BY <2>1, <2>3, <2>4
<1>2. ASSUME NEW c \in Cpu, ScheduleRR(c)
      PROVE  FamilyInv'
  <2>1. \/ \E p \in Slot : state[p] = "RUNNABLE" /\ SwitchTo(c, p)
        \/ UNCHANGED state
    BY <1>2 DEF ScheduleRR, First
  <2>2. UNCHANGED <<parent, chan, killed, pc, val, initwild>>
    BY <1>2 DEF ScheduleRR, tableVars, callVars
  <2>3. CASE UNCHANGED state
    BY <2>2, <2>3
  <2>4. ASSUME NEW p \in Slot, state[p] = "RUNNABLE", SwitchTo(c, p)
        PROVE  FamilyInv'
    BY <2>2, <2>4 DEF SwitchTo
  <2>5. QED
    BY <2>1, <2>3, <2>4
<1>3. ASSUME NEW ch \in Chan, Wakeup(ch)
      PROVE  FamilyInv'
  BY <1>3 DEF Wakeup, Sleepers, tableVars, callVars
<1>4. ASSUME NEW c \in Cpu, NEW p \in Slot, Resume(c, p)
      PROVE  FamilyInv'
  BY <1>4 DEF Resume, callVars
<1>5. ASSUME NEW c \in Cpu, NEW p \in Slot, Yield(c, p)
      PROVE  FamilyInv'
  BY <1>5 DEF Yield, Executes, tableVars, callVars
<1>6. ASSUME NEW c \in Cpu, NEW p \in Slot, Syscall(c, p) \/ SyscallReturn(c, p)
      PROVE  FamilyInv'
  BY <1>6 DEF Syscall, SyscallReturn, UserCall, Executes, Return, tableVars
<1>7. ASSUME NEW c \in Cpu, NEW p \in Slot, allocproc(c, p)
      PROVE  FamilyInv'
  BY <1>7 DEF allocproc, UserCall, Executes, First
<1>8. ASSUME NEW c \in Cpu, NEW p \in Slot, ForkFail(c, p)
      PROVE  FamilyInv'
  BY <1>8 DEF ForkFail, Executes, Return, tableVars
<1>9. ASSUME NEW c \in Cpu, NEW p \in Slot, fork(c, p)
      PROVE  FamilyInv'
  BY <1>9 DEF fork, Executes, initproc
<1>10. ASSUME NEW c \in Cpu, NEW p \in Slot, Exit(c, p) \/ TrapExit(c, p)
      PROVE  FamilyInv'
  BY <1>10 DEF Exit, TrapExit, NonInitCall, UserCall, StartExit, Executes, initproc, tableVars
<1>11. ASSUME NEW c \in Cpu, NEW p \in Slot, exit(c, p)
      PROVE  FamilyInv'
  BY <1>11 DEF exit, Executes, Reparented, initproc, ParentWoken, InitWoken, Sleepers, callVars
<1>12. ASSUME NEW c \in Cpu, NEW p \in Slot, WaitCall(c, p) \/ WaitFail(c, p)
      PROVE  FamilyInv'
  BY <1>12 DEF WaitCall, WaitFail, UserCall, Executes, ExecutesLocked, Return, tableVars
<1>13. ASSUME NEW c \in Cpu, NEW p \in Slot, WaitReap(c, p)
      PROVE  FamilyInv'
  BY <1>13 DEF WaitReap, ExecutesLocked, Return
<1>14. ASSUME NEW c \in Cpu, NEW p \in Slot, WaitSleep(c, p)
      PROVE  FamilyInv'
  BY <1>14 DEF WaitSleep, ExecutesLocked, callVars
<1>15. ASSUME NEW c \in Cpu, NEW p \in Slot, NEW ch \in Chan, Sleep(c, p, ch)
      PROVE  FamilyInv'
  BY <1>15 DEF Sleep, Executes, callVars
<1>16. ASSUME NEW c \in Cpu, NEW p \in Slot, NEW k \in KillPids, kill(c, p, k)
      PROVE  FamilyInv'
  BY <1>16 DEF kill, NonInitCall, UserCall, StartExit, Executes, initproc, First
<1>17. ASSUME NEW c \in Cpu, NEW p \in Slot, NEW k \in NicePids, NEW v \in NicePrios,
             nice(c, p, k, v)
      PROVE  FamilyInv'
  BY <1>17, ProcAssumption DEF nice, NonInitCall, UserCall, StartExit, Executes, initproc,
     ValidPriority, Row, PLEVELS, tableVars, NoNice5
<1>18. ASSUME NEW c \in Cpu, NEW p \in Slot,
             NiceSet(c, p) \/ NiceRemove(c, p) \/ NiceAdd(c, p)
      PROVE  FamilyInv'
  BY <1>18 DEF NiceSet, NiceRemove, NiceAdd, Return, tableVars
<1>19. CASE UNCHANGED vars
  BY <1>19 DEF vars
<1> QED
  BY <1>1, <1>2, <1>3, <1>4, <1>5, <1>6, <1>7, <1>8, <1>9, <1>10, <1>11, <1>12,
     <1>13, <1>14, <1>15, <1>16, <1>17, <1>18, <1>19 DEF Next, ProcStep
-----------------------------------------------------------------------------
\* Pids are handed out in increasing order.
PidInv == UniquePids /\ \A p \in Slot : pid[p] < nextpid

\* At boot only init has a pid.
LEMMA PidInvInit == Init => PidInv
BY SlotFacts DEF Init, PidInv, UniquePids

\* Every step keeps pids unique.
LEMMA PidInvStep ==
    ASSUME TableTypeOK, PointerOK, RunInv, PidInv, [Next]_vars
    PROVE  PidInv'
<1> USE SlotFacts
    DEF TableTypeOK, PointerOK, RunInv, OneCpuPerProcess, ForkOK, PidInv, UniquePids
<1>1. ASSUME NEW c \in Cpu, SchedulePQ(c)
      PROVE  PidInv'
  <2>1. \/ \E p \in Slot : state[p] = "RUNNABLE" /\ SwitchTo(c, p)
        \/ UNCHANGED state
    BY <1>1 DEF SchedulePQ, Dispatchable
  <2>2. UNCHANGED <<pid, nextpid>>
    BY <1>1 DEF SchedulePQ, tableVars
  <2>3. QED
    BY <2>1, <2>2 DEF SwitchTo
<1>2. ASSUME NEW c \in Cpu, ScheduleRR(c)
      PROVE  PidInv'
  <2>1. \/ \E p \in Slot : state[p] = "RUNNABLE" /\ SwitchTo(c, p)
        \/ UNCHANGED state
    BY <1>2 DEF ScheduleRR, First
  <2>2. UNCHANGED <<pid, nextpid>>
    BY <1>2 DEF ScheduleRR, tableVars
  <2>3. QED
    BY <2>1, <2>2 DEF SwitchTo
<1>3. ASSUME NEW ch \in Chan, Wakeup(ch)
      PROVE  PidInv'
  BY <1>3 DEF Wakeup, Sleepers, tableVars
<1>4. ASSUME NEW c \in Cpu, NEW p \in Slot, Resume(c, p)
      PROVE  PidInv'
  BY <1>4 DEF Resume
<1>5. ASSUME NEW c \in Cpu, NEW p \in Slot, Yield(c, p)
      PROVE  PidInv'
  BY <1>5 DEF Yield, Executes, tableVars
<1>6. ASSUME NEW c \in Cpu, NEW p \in Slot, Syscall(c, p) \/ SyscallReturn(c, p)
      PROVE  PidInv'
  BY <1>6 DEF Syscall, SyscallReturn, tableVars
<1>7. ASSUME NEW c \in Cpu, NEW p \in Slot, allocproc(c, p)
      PROVE  PidInv'
  BY <1>7 DEF allocproc, First, PidAfter
<1>8. ASSUME NEW c \in Cpu, NEW p \in Slot, ForkFail(c, p)
      PROVE  PidInv'
  BY <1>8 DEF ForkFail, tableVars
<1>9. ASSUME NEW c \in Cpu, NEW p \in Slot, fork(c, p)
      PROVE  PidInv'
  BY <1>9 DEF fork
<1>10. ASSUME NEW c \in Cpu, NEW p \in Slot, Exit(c, p) \/ TrapExit(c, p)
      PROVE  PidInv'
  BY <1>10 DEF Exit, TrapExit, tableVars
<1>11. ASSUME NEW c \in Cpu, NEW p \in Slot, exit(c, p)
      PROVE  PidInv'
  BY <1>11 DEF exit, Executes, ParentWoken, InitWoken, Sleepers
<1>12. ASSUME NEW c \in Cpu, NEW p \in Slot, WaitCall(c, p) \/ WaitFail(c, p)
      PROVE  PidInv'
  BY <1>12 DEF WaitCall, WaitFail, tableVars
<1>13. ASSUME NEW c \in Cpu, NEW p \in Slot, WaitReap(c, p)
      PROVE  PidInv'
  BY <1>13 DEF WaitReap, ZombieChildren, Children
<1>14. ASSUME NEW c \in Cpu, NEW p \in Slot, WaitSleep(c, p)
      PROVE  PidInv'
  BY <1>14 DEF WaitSleep, ExecutesLocked
<1>15. ASSUME NEW c \in Cpu, NEW p \in Slot, NEW ch \in Chan, Sleep(c, p, ch)
      PROVE  PidInv'
  BY <1>15 DEF Sleep, Executes
<1>16. ASSUME NEW c \in Cpu, NEW p \in Slot, NEW k \in KillPids, kill(c, p, k)
      PROVE  PidInv'
  BY <1>16 DEF kill
<1>17. ASSUME NEW c \in Cpu, NEW p \in Slot, NEW k \in NicePids, NEW v \in NicePrios,
             nice(c, p, k, v)
      PROVE  PidInv'
  BY <1>17 DEF nice, tableVars
<1>18. ASSUME NEW c \in Cpu, NEW p \in Slot,
             NiceSet(c, p) \/ NiceRemove(c, p) \/ NiceAdd(c, p)
      PROVE  PidInv'
  BY <1>18 DEF NiceSet, NiceRemove, NiceAdd, tableVars
<1>19. CASE UNCHANGED vars
  BY <1>19 DEF vars
<1> QED
  BY <1>1, <1>2, <1>3, <1>4, <1>5, <1>6, <1>7, <1>8, <1>9, <1>10, <1>11, <1>12,
     <1>13, <1>14, <1>15, <1>16, <1>17, <1>18, <1>19 DEF Next, ProcStep

-----------------------------------------------------------------------------
\* The invariant that all behaviours satisfy, whatever nice() is asked for.
LEMMA Invariance == Spec => [](TableTypeOK /\ PointerOK /\ RunInv /\ PidInv)
<1>1. Init => TableTypeOK /\ PointerOK /\ RunInv /\ PidInv
  BY TypingInit, RunInvInit, PidInvInit
<1>2. TableTypeOK /\ PointerOK /\ RunInv /\ PidInv /\ [Next]_vars
        => (TableTypeOK /\ PointerOK /\ RunInv /\ PidInv)'
  BY TypingStep, RunInvStep, PidInvStep
<1>3. QED
  BY <1>1, <1>2, PTL DEF Spec

\* A process is RUNNING exactly while one CPU runs it, in both builds and for
\* any contents of the run queues: scheduler() looks at p->state under the lock
\* before it switches to p.
THEOREM ProcessOnOneCpu == Spec => []OneCpuPerProcess
<1>1. RunInv => OneCpuPerProcess
  BY DEF RunInv
<1>2. QED
  BY Invariance, <1>1, PTL

\* The pid that allocproc() hands out names one process until wait() clears it.
THEOREM PidsAreUnique == Spec => []UniquePids
<1>1. PidInv => UniquePids
  BY DEF PidInv
<1>2. QED
  BY Invariance, <1>1, PTL

\* No parent sleeps through the exit of a child, and none loses its parent, as
\* long as nice() is not asked for priority 5.
LEMMA FamilyInvariance == ASSUME NoNice5 PROVE Spec => []FamilyInv
<1>1. Init => FamilyInv
  BY FamilyInvInit
<1>2. TableTypeOK /\ PointerOK /\ RunInv /\ FamilyInv /\ [Next]_vars => FamilyInv'
  BY NoNice5, FamilyInvStep
<1>3. QED
  BY <1>1, <1>2, Invariance, PTL DEF Spec

\* exit() never misses a parent that sleeps in wait(), and a killed process does
\* not sleep in wait().
THEOREM ExitWakesWait == ASSUME NoNice5 PROVE Spec => []NoLostChildExit
<1>1. FamilyInv => NoLostChildExit
  BY DEF FamilyInv
<1>2. QED
  BY FamilyInvariance, <1>1, PTL

\* Abandoned children pass to init, which never goes away: every process has a
\* living parent.
THEOREM ParentsLive == ASSUME NoNice5 PROVE Spec => []OrphansToInit
<1>1. FamilyInv => OrphansToInit
  BY DEF FamilyInv
<1>2. QED
  BY FamilyInvariance, <1>1, PTL
\* A slot in use is freed by its parent's wait() or by the fork() filling it.
LEMMA FreedStep ==
    ASSUME TableTypeOK, PointerOK, RunInv, Next
    PROVE  FreedByParent
<1> USE SlotFacts DEF TableTypeOK, PointerOK, RunInv, ForkOK, FreedByParent
<1>1. ASSUME NEW c \in Cpu, SchedulePQ(c)
      PROVE  FreedByParent
  BY <1>1 DEF SchedulePQ, SwitchTo, Dispatchable
<1>2. ASSUME NEW c \in Cpu, ScheduleRR(c)
      PROVE  FreedByParent
  BY <1>2 DEF ScheduleRR, SwitchTo
<1>3. ASSUME NEW ch \in Chan, Wakeup(ch)
      PROVE  FreedByParent
  BY <1>3 DEF Wakeup
<1>4. ASSUME NEW c \in Cpu, NEW p \in Slot, allocproc(c, p)
      PROVE  FreedByParent
  BY <1>4 DEF allocproc
<1>5. ASSUME NEW c \in Cpu, NEW p \in Slot, ForkFail(c, p)
      PROVE  FreedByParent
  BY <1>5 DEF ForkFail
<1>6. ASSUME NEW c \in Cpu, NEW p \in Slot, fork(c, p)
      PROVE  FreedByParent
  BY <1>6 DEF fork
<1>7. ASSUME NEW c \in Cpu, NEW p \in Slot, exit(c, p)
      PROVE  FreedByParent
  BY <1>7 DEF exit
<1>8. ASSUME NEW c \in Cpu, NEW p \in Slot, WaitReap(c, p)
      PROVE  FreedByParent
  BY <1>8 DEF WaitReap, ZombieChildren, Children
<1>9. ASSUME NEW c \in Cpu, NEW p \in Slot, Resume(c, p) \/ Yield(c, p) \/ WaitSleep(c, p)
      PROVE  FreedByParent
  BY <1>9 DEF Resume, Yield, WaitSleep
<1>10. ASSUME NEW c \in Cpu, NEW p \in Slot, NEW ch \in Chan, Sleep(c, p, ch)
      PROVE  FreedByParent
  BY <1>10 DEF Sleep
<1>11. ASSUME NEW c \in Cpu, NEW p \in Slot, NEW k \in KillPids, kill(c, p, k)
      PROVE  FreedByParent
  BY <1>11 DEF kill
<1>12. ASSUME NEW c \in Cpu, NEW p \in Slot,
             \/ Syscall(c, p) \/ SyscallReturn(c, p) \/ Exit(c, p) \/ TrapExit(c, p)
             \/ WaitCall(c, p) \/ WaitFail(c, p)
             \/ NiceSet(c, p) \/ NiceRemove(c, p) \/ NiceAdd(c, p)
      PROVE  FreedByParent
  BY <1>12 DEF Syscall, SyscallReturn, Exit, TrapExit, WaitCall, WaitFail,
              NiceSet, NiceRemove, NiceAdd
<1>13. ASSUME NEW c \in Cpu, NEW p \in Slot, NEW k \in NicePids, NEW v \in NicePrios,
             nice(c, p, k, v)
      PROVE  FreedByParent
  BY <1>13 DEF nice
<1> QED
  BY <1>1, <1>2, <1>3, <1>4, <1>5, <1>6, <1>7, <1>8, <1>9, <1>10, <1>11, <1>12,
     <1>13
  DEF Next, ProcStep

\* A ZOMBIE is freed by its own parent only, from inside wait().
THEOREM OnlyParentReaps == Spec => ReapedByParent
<1>1. TableTypeOK /\ PointerOK /\ RunInv /\ [Next]_vars => [FreedByParent]_vars
  BY FreedStep
<1>2. QED
  BY <1>1, Invariance, PTL DEF Spec, ReapedByParent
=============================================================================
