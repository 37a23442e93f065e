-------------------------------- MODULE Clock -------------------------------
(***************************************************************************)
(* The clock: the timer interrupt of trap.c and sys_sleep() of sysproc.c.  *)
(* A step is a critical section of tickslock; ticks is a uint and wraps.   *)
(***************************************************************************)
EXTENDS Integers

CONSTANTS
    Proc,
    UINT,           \* values of a uint
    Naps,           \* arguments of sleep()
    MaxLag          \* ticks that pass while a process that is woken waits for a CPU

VARIABLES
    ticks,
    pc,             \* "idle", "running" or "asleep" in sys_sleep()
    n, ticks0, killed,
    elapsed,        \* history: ticks since the call, UINT at most
    lag             \* ticks since the process was woken

vars == <<ticks, pc, n, ticks0, killed, elapsed, lag>>

ClockAssumption ==
    UINT \in Nat \ {0} /\ MaxLag \in Nat /\ Naps \subseteq Nat /\ \A k \in Naps : k + MaxLag < UINT

Init ==
    /\ ticks = 0
    /\ pc = [p \in Proc |-> "idle"]
    /\ n = [p \in Proc |-> 0] /\ ticks0 = [p \in Proc |-> 0]
    /\ killed = [p \in Proc |-> FALSE]
    /\ elapsed = [p \in Proc |-> 0] /\ lag = [p \in Proc |-> 0]

\* wakeup(&ticks)
Woken == [p \in Proc |-> IF pc[p] = "asleep" THEN "running" ELSE pc[p]]

\* The timer interrupt on CPU 0.
Tick ==
    /\ \A p \in Proc : pc[p] = "running" => lag[p] < MaxLag
    /\ ticks' = (ticks + 1) % UINT
    /\ pc' = Woken
    /\ elapsed' = [p \in Proc |-> IF pc[p] = "idle" THEN 0
                                  ELSE IF elapsed[p] < UINT THEN elapsed[p] + 1 ELSE UINT]
    /\ lag' = [p \in Proc |-> IF pc[p] = "running" THEN lag[p] + 1 ELSE 0]
    /\ UNCHANGED <<n, ticks0, killed>>

sys_sleep(p) ==
    /\ pc[p] = "idle" /\ ~killed[p]
    /\ \E k \in Naps : n' = [n EXCEPT ![p] = k]
    /\ ticks0' = [ticks0 EXCEPT ![p] = ticks]
    /\ pc' = [pc EXCEPT ![p] = "running"]
    /\ lag' = [lag EXCEPT ![p] = 0]
    /\ UNCHANGED <<ticks, killed, elapsed>>

\* Mutant: the end of the nap is computed, and wraps.
AsleepUntil(p) == ticks < (ticks0[p] + n[p]) % UINT

Asleep(p) == (ticks - ticks0[p]) % UINT < n[p]

\* A turn of its loop: sleep(&ticks, &tickslock), unless killed.
Again(p) ==
    /\ pc[p] = "running" /\ Asleep(p) /\ ~killed[p]
    /\ pc' = [pc EXCEPT ![p] = "asleep"]
    /\ UNCHANGED <<ticks, n, ticks0, killed, elapsed, lag>>

Return(p) ==
    /\ pc[p] = "running" /\ (~Asleep(p) \/ killed[p])
    /\ pc' = [pc EXCEPT ![p] = "idle"]
    /\ n' = [n EXCEPT ![p] = 0] /\ ticks0' = [ticks0 EXCEPT ![p] = 0]
    /\ killed' = [killed EXCEPT ![p] = FALSE]
    /\ elapsed' = [elapsed EXCEPT ![p] = 0] /\ lag' = [lag EXCEPT ![p] = 0]
    /\ UNCHANGED ticks

\* kill() wakes the sleeper.  It does not if it came between the loop's test of
\* proc->killed and its sleep(), which tickslock does not prevent.
Kill(p) ==
    /\ pc[p] # "idle"
    /\ killed' = [killed EXCEPT ![p] = TRUE]
    /\ pc' \in {pc, [pc EXCEPT ![p] = "running"]}
    /\ lag' = [lag EXCEPT ![p] = IF pc[p] = "asleep" THEN 0 ELSE @]
    /\ UNCHANGED <<ticks, n, ticks0, elapsed>>

Run(p) == Again(p) \/ Return(p)
Next == Tick \/ \E p \in Proc : sys_sleep(p) \/ Run(p) \/ Kill(p)

\* The timer ticks, and a process that can run does.
Spec == Init /\ [][Next]_vars /\ WF_vars(Tick) /\ \A p \in Proc : WF_vars(Run(p))

-----------------------------------------------------------------------------
\* sleep(n) returns 0 after n ticks and not before, across the wrap of ticks
\* and whatever wakes the process in between.
LongEnough == \A p \in Proc : (Return(p) /\ ~killed[p]) => elapsed[p] >= n[p]
SleepsLongEnough == [][LongEnough]_vars

\* Nobody is asleep whose time has come: the tick that ends a nap wakes it.
NoOversleep == \A p \in Proc : pc[p] = "asleep" => elapsed[p] < n[p]

\* Every sleep() ends.
SleepEnds == \A p \in Proc : pc[p] # "idle" ~> pc[p] = "idle"

=============================================================================
