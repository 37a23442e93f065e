---------------------------- MODULE SwitchProof -----------------------------
(***************************************************************************)
(* For any set of CPUs and processes: interrupt masking belongs to the     *)
(* thread although ncli and intena are kept per CPU (IntenaOfThread), and  *)
(* the tests of sched() never panic (SchedMayRun).                         *)
(*                                                                         *)
(* IInv says for every place in the code who has ptable.lock, how deep     *)
(* pushcli() is nested there and what intena stands for: the lock is the   *)
(* CPU's exactly where ncli counts it, and a thread that was switched out  *)
(* has in `saved' what intena must be again.                               *)
(***************************************************************************)
EXTENDS Switch, TLAPS

Locked == {"forkret", "switched", "unlock", "sched", "exit"}

TypeInv ==
    /\ ptlock \in Cpu \cup {NoCpu}
    /\ intr \in [Cpu -> BOOLEAN] /\ intena \in [Cpu -> BOOLEAN]
    /\ ncli \in [Cpu -> Int]
    /\ running \in [Cpu -> Proc \cup {NoProc}]
    /\ sc \in [Cpu -> {"loop", "pick"}]
    /\ pc \in [Proc -> Locked \cup {"trapret", "run", "lk", "sleep"}]
    /\ handler \in [Proc -> BOOLEAN] /\ saved \in [Proc -> BOOLEAN]

\* A CPU in its scheduler.
SchedulerOK(c) ==
    running[c] = NoProc =>
        /\ sc[c] = "loop" => ncli[c] = 0 /\ ptlock # c
        /\ sc[c] = "pick" => ncli[c] = 1 /\ ptlock = c /\ intr[c] = FALSE

\* A CPU that runs p.
ThreadOK(c, p) ==
    running[c] = p =>
        /\ sc[c] = "pick"
        /\ pc[p] \in Locked => ncli[c] = 1 /\ ptlock = c /\ intr[c] = FALSE
        /\ pc[p] \in {"trapret", "run"} => ncli[c] = 0 /\ ptlock # c
        /\ pc[p] = "lk" => ncli[c] = 1 /\ ptlock # c
        /\ pc[p] = "sleep" => ncli[c] = 2 /\ ptlock = c
        /\ pc[p] \in {"lk", "sleep"} => intr[c] = FALSE /\ intena[c] = TRUE
        /\ pc[p] = "run" => (intr[c] = TRUE <=> handler[p] = FALSE)
        /\ pc[p] \in {"sched", "unlock"} => (intena[c] = TRUE <=> handler[p] = FALSE)

\* A process, whether it runs or not.
ProcOK(p) ==
    /\ pc[p] \in {"forkret", "trapret", "lk", "sleep", "exit"} => handler[p] = FALSE
    /\ pc[p] = "switched" => (saved[p] = TRUE <=> handler[p] = FALSE)

OneCpu == \A c, d \in Cpu : c # d /\ running[c] = running[d] => running[c] = NoProc

IInv ==
    /\ TypeInv
    /\ OneCpu
    /\ \A c \in Cpu : SchedulerOK(c)
    /\ \A c \in Cpu, p \in Proc : ThreadOK(c, p)
    /\ \A p \in Proc : ProcOK(p)

-----------------------------------------------------------------------------
\* The machine starts in the schedulers, with no lock held.
LEMMA IInvInit == SwitchAssumption /\ Init => IInv
  BY DEF SwitchAssumption, Init, IInv, TypeInv, Locked, OneCpu, SchedulerOK, ThreadOK, ProcOK

\* What the scheduler of a CPU does.
LEMMA SchedulerStep ==
  ASSUME SwitchAssumption, IInv, NEW c \in Cpu, Loop(c) \/ Pick(c) \/ Unlock(c)
  PROVE  IInv'
<1> USE DEF SwitchAssumption, IInv, Locked
<1>1. CASE Loop(c)
  <2> USE <1>1 DEF Loop, acquire, pushcli, TypeInv
  <2>1. running[c] = NoProc /\ ncli[c] = 0
    BY DEF SchedulerOK, ThreadOK
  <2>2. intena' = [intena EXCEPT ![c] = TRUE]
    BY <2>1
  <2>3. intena' \in [Cpu -> BOOLEAN]
    BY <2>2
  <2>4. intr' \in [Cpu -> BOOLEAN] /\ ncli' \in [Cpu -> Int]
    OBVIOUS
  <2>5. TypeInv'
    BY <2>3, <2>4
  <2>6. ASSUME NEW d \in Cpu PROVE SchedulerOK(d)'
    BY <2>1, <2>6 DEF SchedulerOK
  <2>7. ASSUME NEW d \in Cpu, NEW p \in Proc PROVE ThreadOK(d, p)'
    BY <2>1, <2>7 DEF ThreadOK
  <2> QED BY <2>5, <2>6, <2>7 DEF OneCpu, ProcOK
<1>2. CASE Pick(c)
  BY <1>2 DEF Pick, locks, TypeInv, OneCpu, SchedulerOK, ThreadOK, ProcOK
<1>3. CASE Unlock(c)
  BY <1>3 DEF Unlock, release, popcli, TypeInv, OneCpu, SchedulerOK, ThreadOK, ProcOK
<1> QED BY <1>1, <1>2, <1>3

\* What the thread on a CPU does.
LEMMA ThreadStep ==
  ASSUME SwitchAssumption, IInv, NEW c \in Cpu, Run(c)
  PROVE  IInv'
<1> USE DEF SwitchAssumption, IInv, Locked, At, Goto
<1>0. running[c] \in Proc
  BY DEF Run, forkret, trapret, Interrupt, Iret, Enter, AcquireLk, sleep, ReleaseLk, sched,
         SchedReturns, Leave, LeaveLk, TypeInv
<1>1. CASE forkret(c)
  BY <1>0, <1>1 DEF forkret, release, popcli, TypeInv, OneCpu, SchedulerOK, ThreadOK, ProcOK
<1>2. CASE trapret(c)
  BY <1>0, <1>2 DEF trapret, TypeInv, OneCpu, SchedulerOK, ThreadOK, ProcOK
<1>3. CASE Interrupt(c)
  BY <1>0, <1>3 DEF Interrupt, TypeInv, OneCpu, SchedulerOK, ThreadOK, ProcOK
<1>4. CASE Iret(c)
  BY <1>0, <1>4 DEF Iret, TypeInv, OneCpu, SchedulerOK, ThreadOK, ProcOK
<1>5. CASE Enter(c)
  BY <1>0, <1>5 DEF Enter, acquire, pushcli, TypeInv, OneCpu, SchedulerOK, ThreadOK, ProcOK
<1>6. CASE AcquireLk(c)
  BY <1>0, <1>6 DEF AcquireLk, pushcli, TypeInv, OneCpu, SchedulerOK, ThreadOK, ProcOK
<1>7. CASE sleep(c)
  BY <1>0, <1>7 DEF sleep, acquire, pushcli, TypeInv, OneCpu, SchedulerOK, ThreadOK, ProcOK
<1>8. CASE ReleaseLk(c)
  BY <1>0, <1>8 DEF ReleaseLk, LkReleased, popcli, TypeInv, OneCpu, SchedulerOK, ThreadOK, ProcOK
<1>9. CASE sched(c)
  BY <1>0, <1>9 DEF sched, locks, TypeInv, OneCpu, SchedulerOK, ThreadOK, ProcOK
<1>10. CASE SchedReturns(c)
  BY <1>0, <1>10 DEF SchedReturns, ThreadIntena, TypeInv, OneCpu, SchedulerOK, ThreadOK, ProcOK
<1>11. CASE Leave(c)
  BY <1>0, <1>11 DEF Leave, release, popcli, TypeInv, OneCpu, SchedulerOK, ThreadOK, ProcOK
<1>12. CASE LeaveLk(c)
  BY <1>0, <1>12 DEF LeaveLk, popcli, TypeInv, OneCpu, SchedulerOK, ThreadOK, ProcOK
<1> QED
  BY <1>1, <1>2, <1>3, <1>4, <1>5, <1>6, <1>7, <1>8, <1>9, <1>10, <1>11, <1>12 DEF Run

\* Every step keeps IInv.
LEMMA IInvStep == SwitchAssumption /\ IInv /\ [Next]_vars => IInv'
<1> SUFFICES ASSUME SwitchAssumption, IInv, [Next]_vars PROVE IInv'
  OBVIOUS
<1>1. CASE Next
  <2>1. PICK c \in Cpu : (Loop(c) \/ Pick(c) \/ Unlock(c)) \/ Run(c)
    BY <1>1 DEF Next
  <2> QED BY <2>1, SchedulerStep, ThreadStep
<1>2. CASE UNCHANGED vars
  BY <1>2 DEF vars, IInv, TypeInv, OneCpu, SchedulerOK, ThreadOK, ProcOK
<1> QED BY <1>1, <1>2

-----------------------------------------------------------------------------
\* sched(), swtch() and forkret(): for any number of CPUs and processes, code
\* without locks has interrupts on outside interrupt handlers and off in them,
\* wherever the thread was switched out and resumed.
THEOREM MaskFollowsThread == ASSUME SwitchAssumption PROVE Spec => []IntenaOfThread
<1>1. IInv => IntenaOfThread
  <2> SUFFICES ASSUME IInv, NEW c \in Cpu, At(c, "run")
               PROVE  ncli[c] = 0 /\ intr[c] = ~handler[running[c]]
    BY DEF IntenaOfThread
  <2>1. running[c] \in Proc /\ intr[c] \in BOOLEAN /\ handler[running[c]] \in BOOLEAN
    BY DEF IInv, TypeInv, At
  <2>2. ncli[c] = 0 /\ (intr[c] = TRUE <=> handler[running[c]] = FALSE)
    BY <2>1 DEF IInv, ThreadOK, At
  <2> QED BY <2>1, <2>2
<1> QED BY <1>1, IInvInit, IInvStep, PTL DEF Spec

\* sched(): for any number of CPUs and processes, its four tests never panic.
THEOREM SchedNeverPanics == ASSUME SwitchAssumption PROVE Spec => []SchedMayRun
<1>1. IInv => SchedMayRun
  BY DEF IInv, TypeInv, Locked, ThreadOK, SchedMayRun, At
<1> QED BY <1>1, IInvInit, IInvStep, PTL DEF Spec

=============================================================================
