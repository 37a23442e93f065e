-------------------------------- MODULE Trap --------------------------------
(***************************************************************************)
(* How a trap enters and leaves the kernel: the gates that tvinit() sets,  *)
(* the 256 entry points of vectors.S, alltraps and trapret of trapasm.S.   *)
(*                                                                         *)
(* Words are tagged tuples: <<"num", n>>, or the name of what is held; gp  *)
(* are the general registers, esp the user stack pointer, eip a place in   *)
(* the code below or "code" elsewhere.  The kernel stack is a sequence     *)
(* that grows at its end.  A device interrupt may come between two steps   *)
(* while interrupts are on.  A user's int $n other than 64 arrives as a    *)
(* general protection fault (13): DPL_USER is set in one gate only.        *)
(***************************************************************************)
EXTENDS Integers, Sequences, SequencesExt

CONSTANTS
    Irq,            \* vectors of device interrupts, T_IRQ0 and up
    MaxNest         \* traps that are in progress at once

VARIABLES
    regs,           \* ds, es, fs, gs, gp, eip, cs, if, ss, esp
    stack,          \* the kernel stack
    saved           \* history: what each trap in progress interrupted

vars == <<regs, stack, saved>>

Vector == 0 .. 255
T_SYSCALL == 64

User == [ds |-> <<"UDATA">>, es |-> <<"UDATA">>, fs |-> <<"USER">>, gs |-> <<"USER">>,
         gp |-> <<"user">>, eip |-> <<"code">>, cs |-> <<"UCODE">>, if |-> <<"on">>, ss |-> <<"UDATA">>, esp |-> <<"user">>]

Init == regs = User /\ stack = <<>> /\ saved = <<>>

Num(n) == <<"num", n>>
Push(s, values) == s \o values

\* The processor pushes an error code for these (external).
HasErrorCode(i) == i = 8 \/ i \in 10 .. 14 \/ i = 17

\* tvinit(): a trap gate, which leaves interrupts on, for system calls only.
IsTrap(i) == i = T_SYSCALL

\* The processor (external) takes a trap: from user code any vector, from the
\* kernel a device interrupt.
Enter(i) ==
    LET fromUser == regs.cs = <<"UCODE">> IN
    /\ IF fromUser THEN TRUE ELSE i \in Irq /\ regs.if = <<"on">> /\ Len(saved) < MaxNest
    /\ \E err \in (IF HasErrorCode(i) THEN {Num(0), Num(7)} ELSE {Num(0)}) :
          /\ stack' = Push(stack, (IF fromUser THEN <<regs.ss, regs.esp>> ELSE <<>>)
                                     \o <<regs.if, regs.cs, regs.eip>>
                                     \o (IF HasErrorCode(i) THEN <<err>> ELSE <<>>))
          /\ saved' = Append(saved, [regs |-> regs, stack |-> stack, trapno |-> i, err |-> err])
    /\ regs' = [regs EXCEPT !.cs = <<"KCODE">>, !.if = IF IsTrap(i) THEN @ ELSE <<"off">>, !.eip = <<"vector", i>>,
                            !.ss = <<"KDATA">>, !.esp = <<"kernel">>]

\* vector<i>: pushl $0 where the processor pushes no error code, pushl $i.
NoErrorCode(i) == ~(i = 8 \/ (i >= 10 /\ i <= 14) \/ i = 17)
vector ==
    \E i \in Vector :
        /\ regs.eip = <<"vector", i>>
        /\ stack' = Push(stack, (IF NoErrorCode(i) THEN <<Num(0)>> ELSE <<>>) \o <<Num(i)>>)
        /\ regs' = [regs EXCEPT !.eip = <<"alltraps">>]
        /\ UNCHANGED saved

\* alltraps: the rest of the trap frame, then the kernel's segments.
alltraps ==
    /\ regs.eip = <<"alltraps">>
    /\ stack' = Push(stack, <<regs.ds, regs.es, regs.fs, regs.gs, regs.gp>>)
    /\ regs' = [regs EXCEPT !.ds = <<"KDATA">>, !.es = <<"KDATA">>, !.fs = <<"KCPU">>, !.gs = <<"KCPU">>,
                            !.eip = <<"trap">>]
    /\ UNCHANGED saved

\* Mutant: addl $4 in trapret.
SkipsOne == 1

\* addl $8: trapno and errcode.
Skips == 2

Top(k) == stack[Len(stack) - k]

\* trap(tf) returns to trapret with the registers it has used; the result of a
\* system call is in tf->eax.  (A killed process does not return.)
trap ==
    /\ regs.eip = <<"trap">>
    /\ regs' = [regs EXCEPT !.gp = <<"kernel">>, !.eip = <<"trapret">>]
    /\ stack' = [stack EXCEPT ![Len(stack)] = IF Top(5) = Num(T_SYSCALL) THEN <<"result">> ELSE @]
    /\ UNCHANGED saved

\* trapret: popal, the segments, addl $8.
trapret ==
    /\ regs.eip = <<"trapret">>
    /\ regs' = [regs EXCEPT !.gp = Top(0), !.gs = Top(1), !.fs = Top(2), !.es = Top(3), !.ds = Top(4),
                            !.eip = <<"iret">>]
    /\ stack' = SubSeq(stack, 1, Len(stack) - 5 - Skips)
    /\ UNCHANGED saved

\* iret (external) pops the stack pointer too when it returns to user code.
iret ==
    LET toUser == Top(1) = <<"UCODE">> IN
    /\ regs.eip = <<"iret">>
    /\ regs' = [regs EXCEPT !.eip = Top(0), !.cs = Top(1), !.if = Top(2),
                            !.esp = IF toUser THEN Top(3) ELSE @, !.ss = IF toUser THEN Top(4) ELSE @]
    /\ stack' = SubSeq(stack, 1, Len(stack) - (IF toUser THEN 5 ELSE 3))
    /\ saved' = Front(saved)

Next == (\E i \in Vector : Enter(i)) \/ vector \/ alltraps \/ trap \/ trapret \/ iret

Spec == Init /\ [][Next]_vars

-----------------------------------------------------------------------------
\* struct trapframe: trap() finds the vector, the error code and the registers
\* of the code it interrupted at the same places, whether or not the processor
\* pushed an error code, and runs with the kernel's segments.
FrameForTrap ==
    regs.eip = <<"trap">> =>
        LET s == Last(saved)
            o == s.regs
        IN  /\ <<Top(0), Top(1), Top(2), Top(3), Top(4)>> = <<o.gp, o.gs, o.fs, o.es, o.ds>>
            /\ Top(5) = Num(s.trapno) /\ Top(6) = s.err
            /\ <<Top(7), Top(8), Top(9)>> = <<o.eip, o.cs, o.if>>
            /\ o.cs = <<"UCODE">> => Top(10) = o.esp /\ Top(11) = o.ss
            /\ regs.ds = <<"KDATA">> /\ regs.gs = <<"KCPU">>

\* A trap is invisible to the code it interrupts: when it returns, registers,
\* interrupt flag and stack are what they were, also when it came in the
\* middle of vector64, alltraps or trapret of a system call; a system call
\* changes the general registers only.
Invisible ==
    Len(saved') < Len(saved) =>
        LET s == Last(saved) IN
        /\ regs' = [s.regs EXCEPT !.gp = IF s.trapno = T_SYSCALL THEN <<"result">> ELSE @]
        /\ stack' = s.stack
TrapsAreInvisible == [][Invisible]_vars

=============================================================================
