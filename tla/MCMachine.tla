----------------------------- MODULE MCMachine ------------------------------
(***************************************************************************)
(* Model checking of what runs next to the hardware, each part for itself: *)
(* the spin locks and interrupt masking of SpinLock, interrupt masking     *)
(* across context switches (Switch), trap entry and return (Trap), the     *)
(* keyboard (Keyboard), the console (Console) and physical and virtual     *)
(* memory (Memory).  `part' says which of them a behaviour is of; v1, v2,  *)
(* ... hold the state of that part, and SpinLock, which has its own        *)
(* variables, rests meanwhile.                                             *)
(***************************************************************************)
EXTENDS SpinLock, Integers

CONSTANTS Irq, MaxNest, MaxDown, Reader, INPUT_BUF, UINT, Requests, COLS, ROWS,
          Proc, initproc, Page, ArgSizes

VARIABLES part, v1, v2, v3, v4, v5, v6, v7, v8, v9, v10, v11, v12

shared == <<v1, v2, v3, v4, v5, v6, v7, v8, v9, v10, v11, v12>>

Images == {<<1>>, <<3, 2>>}
Growth == {1, 3, -2}

S == INSTANCE Switch WITH NoProc <- 0,
        ptlock <- v1, intr <- v2, ncli <- v3, intena <- v4, running <- v5, sc <- v6, pc <- v7,
        handler <- v8, saved <- v9
T == INSTANCE Trap WITH regs <- v1, stack <- v2, saved <- v3
K == INSTANCE Keyboard WITH shift <- v1, down <- v2, codes <- v3, caps <- v4, c <- v5
C == INSTANCE Console WITH Proc <- Reader,
        r <- v1, w <- v2, e <- v3, buf <- v4, pc <- v5, n <- v6, target <- v7, killed
        <- v8, pos <- v9
M == INSTANCE MCMemory WITH
        NoProc <- 0, Null <- 0, PGSIZE <- 2, NPTENTRIES <- 2, UserTables <- 3, KernTables <- 1,
        free <- v1, state <- v2, parent <- v3, kstack <- v4, sz <- v5, pgdir <- v6,
        cr3 <- v7, call <- v8, pc <- v9, new <- v10, loc <- v11, lost <- v12

ASSUME S!SwitchAssumption /\ C!ConsoleAssumption /\ M!MemoryAssumption

Resting == Init /\ intr = [x \in Cpu |-> FALSE]

MachineInit ==
    \/ part = "spin" /\ Init /\ v1 = intr /\ v2 = 0 /\ v3 = 0 /\ v4 = 0 /\ v5 = 0 /\ v6 = 0 /\ v7 = 0 /\ v8 = 0 /\ v9 = 0 /\ v10 = 0 /\ v11 = 0 /\ v12 = 0
    \/ part = "switch" /\ Resting /\ S!Init /\ v10 = 0 /\ v11 = 0 /\ v12 = 0
    \/ part = "trap" /\ Resting /\ T!Init /\ v4 = 0 /\ v5 = 0 /\ v6 = 0 /\ v7 = 0 /\ v8 = 0 /\ v9 = 0 /\ v10 = 0 /\ v11 = 0 /\ v12 = 0
    \/ part = "keyboard" /\ Resting /\ K!Init /\ v6 = 0 /\ v7 = 0 /\ v8 = 0 /\ v9 = 0 /\ v10 = 0 /\ v11 = 0 /\ v12 = 0
    \/ part = "console" /\ Resting /\ C!Init /\ v10 = 0 /\ v11 = 0 /\ v12 = 0
    \/ part = "memory" /\ Resting /\ M!Init

MachineNext ==
    \/ part = "spin" /\ Next /\ UNCHANGED <<part, shared>>
    \/ part = "switch" /\ S!Next /\ UNCHANGED <<part, vars, v10, v11, v12>>
    \/ part = "trap" /\ T!Next /\ UNCHANGED <<part, vars, v4, v5, v6, v7, v8, v9, v10, v11, v12>>
    \/ part = "keyboard" /\ K!Next /\ UNCHANGED <<part, vars, v6, v7, v8, v9, v10, v11, v12>>
    \/ part = "console" /\ C!Next /\ UNCHANGED <<part, vars, v10, v11, v12>>
    \/ part = "memory" /\ M!Next /\ UNCHANGED <<part, vars>>

MachineSpec == MachineInit /\ [][MachineNext]_<<part, vars, shared>>

\* Pages of memory are interchangeable: see MCMemory.  Of the console's buffer
\* only what is between r and e is ever read again.
MachineView ==
    CASE part = "memory"  -> <<part, M!View>>
      [] part = "console" -> <<part, v1, v2, v3, C!Ring(v1, v3), v5, v6, v7, v8, v9>>
      [] OTHER            -> <<part, vars, shared>>

-----------------------------------------------------------------------------
\* pushcli() and popcli() match: interrupts are off while a lock is held, and
\* as before when the last is released.  intena belongs to the thread, on whatever CPU it
\* goes on after a switch, and the tests in sched() never panic.
InterruptsRestored ==
    /\ part = "spin" => InterruptsOff /\ RestoredTo(v1)
    /\ part = "switch" => S!IntenaOfThread /\ S!SchedMayRun

\* A trap is invisible to the code it interrupts; trap() finds the vector, the
\* error code and the registers in the same place of the frame for all vectors.
TrapsAreInvisible ==
    /\ [](part = "trap" => T!FrameForTrap)
    /\ [][part = "trap" => T!Invisible]_<<part, shared>>

\* kbdgetc() remembers no modifier when no key is held, and the case of a
\* letter follows from SHIFT and CAPSLOCK.
ModifiersAreRight == part = "keyboard" => K!NoStuckModifier /\ K!CaseIsRight

\* The console's ring is a line editor in front of a queue, its indices stay in
\* order when they wrap, and nobody sleeps in consoleread() with input to read.
InputIsLines ==
    /\ part = "console" => C!Abstract!Init
    /\ [](part = "console" => C!TypeOK /\ C!RingInOrder /\ C!NoSleepingReader)
    /\ [][part = "console" => C!Abstract!Next \/ UNCHANGED <<C!Ring(v2, v3), C!Ring(v1, v2)>>]_<<part, shared>>

\* A page has one owner: the free list, a kernel stack, or one address space.
\* None is without, but those that vm.c is known to drop when memory runs out.
PagesAccounted == part = "memory" => M!PageOwnedOnce /\ M!NoPageForgotten

\* All of user memory below sz is mapped, no CPU runs on a page directory that
\* was freed, and none of the panics of kalloc.c and vm.c is reached.
SpacesAreWhole ==
    part = "memory" => M!TypeOK /\ M!SizeMapped /\ M!RunsOnOwnTables /\ M!NoPanic

=============================================================================
