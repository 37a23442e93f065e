----------------------------- MODULE ClockProof -----------------------------
(***************************************************************************)
(* For any number of sleepers and any width of ticks: the wrap of ticks    *)
(* neither shortens a nap nor leaves a sleeper behind.                     *)
(***************************************************************************)
EXTENDS Clock, TLAPS

ClockType ==
    /\ ticks \in 0 .. UINT - 1
    /\ pc \in [Proc -> {"idle", "running", "asleep"}]
    /\ n \in [Proc -> Nat] /\ ticks0 \in [Proc -> 0 .. UINT - 1]
    /\ killed \in [Proc -> BOOLEAN]
    /\ elapsed \in [Proc -> Nat] /\ lag \in [Proc -> Nat]

\* ticks has wrapped at most once since the call, and a process that is woken in
\* time is late by what it waits for a CPU and no more.
NapInv == \A p \in Proc :
    /\ pc[p] = "idle" => elapsed[p] = 0
    /\ pc[p] # "idle" =>
            /\ n[p] \in Naps
            /\ ticks = ticks0[p] + elapsed[p] \/ ticks + UINT = ticks0[p] + elapsed[p]
            /\ lag[p] <= MaxLag /\ elapsed[p] <= n[p] + lag[p]
    /\ pc[p] = "asleep" => elapsed[p] < n[p]

IInv == ClockType /\ NapInv

\* What % does to a number that is too small by UINT at most.
LEMMA Wrap ==
    ASSUME NEW U \in Nat, NEW k \in Nat, k < U, NEW x \in Int, x = k \/ x = k - U
    PROVE  x % U = k
OBVIOUS

\* ticks++ on an unsigned integer.
LEMMA Increment ==
    ASSUME NEW U \in Nat \ {0}, NEW t \in 0 .. U - 1
    PROVE  (t + 1) % U = IF t + 1 = U THEN 0 ELSE t + 1
OBVIOUS

\* sys_sleep()'s ticks - ticks0 is the time that has passed.
LEMMA Difference ==
    ASSUME ClockAssumption, IInv, NEW p \in Proc, pc[p] # "idle"
    PROVE  (ticks - ticks0[p]) % UINT = elapsed[p] /\ elapsed[p] < UINT
<1>1. /\ ticks \in Int /\ ticks0[p] \in Int /\ elapsed[p] \in Nat /\ UINT \in Nat
      /\ n[p] \in Nat /\ lag[p] \in Nat /\ MaxLag \in Nat
  BY DEF IInv, ClockType, ClockAssumption
<1>2. /\ ticks = ticks0[p] + elapsed[p] \/ ticks + UINT = ticks0[p] + elapsed[p]
      /\ n[p] \in Naps /\ lag[p] <= MaxLag /\ elapsed[p] <= n[p] + lag[p]
  BY DEF IInv, NapInv
<1>3. n[p] + MaxLag < UINT
  BY <1>2 DEF ClockAssumption
<1>4. elapsed[p] < UINT
  BY <1>1, <1>2, <1>3
<1>5. ticks - ticks0[p] = elapsed[p] \/ ticks - ticks0[p] = elapsed[p] - UINT
  <2>1. CASE ticks = ticks0[p] + elapsed[p]
    BY <1>1, <2>1
  <2>2. CASE ticks + UINT = ticks0[p] + elapsed[p]
    BY <1>1, <2>2
  <2> QED
    BY <1>2, <2>1, <2>2
<1> QED
  BY <1>1, <1>4, <1>5, Wrap

\* Every tick, every turn of sys_sleep()'s loop and every kill() preserves the
\* inductive invariant.
LEMMA IInvStep == ASSUME ClockAssumption, IInv, [Next]_vars PROVE IInv'
<1> USE DEF IInv
<1>a. UINT \in Nat \ {0} /\ MaxLag \in Nat /\ Naps \subseteq Nat
  BY DEF ClockAssumption
<1>1. CASE Tick
  <2>1. /\ \A p \in Proc : pc[p] = "running" => lag[p] < MaxLag
        /\ ticks' = IF ticks + 1 = UINT THEN 0 ELSE ticks + 1
        /\ pc' = [p \in Proc |-> IF pc[p] = "asleep" THEN "running" ELSE pc[p]]
        /\ elapsed' = [p \in Proc |-> IF pc[p] = "idle" THEN 0
                                      ELSE IF elapsed[p] < UINT THEN elapsed[p] + 1 ELSE UINT]
        /\ lag' = [p \in Proc |-> IF pc[p] = "running" THEN lag[p] + 1 ELSE 0]
        /\ UNCHANGED <<n, ticks0, killed>>
    BY <1>1, <1>a, Increment DEF Tick, Woken, ClockType
  <2>2. ClockType'
    BY <1>a, <2>1 DEF ClockType
  <2>3. NapInv'
    <3> SUFFICES ASSUME NEW p \in Proc, pc[p] # "idle"
                 PROVE  /\ pc'[p] = "running" /\ n'[p] \in Naps
                        /\ ticks' = ticks0'[p] + elapsed'[p]
                              \/ ticks' + UINT = ticks0'[p] + elapsed'[p]
                        /\ lag'[p] <= MaxLag /\ elapsed'[p] <= n'[p] + lag'[p]
      BY <2>1 DEF NapInv, ClockType
    <3>1. elapsed'[p] = elapsed[p] + 1 /\ elapsed[p] < UINT
      BY <2>1, Difference
    <3>2. pc[p] \in {"running", "asleep"} /\ pc'[p] = "running"
      BY <2>1 DEF ClockType
    <3>3. lag'[p] <= MaxLag /\ elapsed'[p] <= n'[p] + lag'[p] /\ n'[p] \in Naps
      BY <1>a, <2>1, <3>1, <3>2 DEF NapInv, ClockType
    <3>4. /\ ticks \in 0 .. UINT - 1 /\ ticks0'[p] = ticks0[p] /\ ticks0[p] \in 0 .. UINT - 1
          /\ elapsed[p] \in Nat
          /\ ticks = ticks0[p] + elapsed[p] \/ ticks + UINT = ticks0[p] + elapsed[p]
      BY <2>1 DEF NapInv, ClockType
    <3>5. ticks' = ticks0'[p] + elapsed'[p] \/ ticks' + UINT = ticks0'[p] + elapsed'[p]
      <4>1. CASE ticks = ticks0[p] + elapsed[p]
        BY <1>a, <2>1, <3>1, <3>4, <4>1
      <4>2. CASE ticks + UINT = ticks0[p] + elapsed[p]
        BY <1>a, <2>1, <3>1, <3>4, <4>2
      <4> QED
        BY <3>4, <4>1, <4>2
    <3> QED
      BY <3>2, <3>3, <3>5
  <2> QED
    BY <2>2, <2>3
<1>2. ASSUME NEW p \in Proc, sys_sleep(p) PROVE IInv'
  BY <1>2, <1>a DEF sys_sleep, ClockType, NapInv
<1>3. ASSUME NEW p \in Proc, Again(p) PROVE IInv'
  <2>1. elapsed[p] < n[p]
    BY <1>3, Difference DEF Again, Asleep
  <2> QED
    BY <1>3, <2>1 DEF Again, ClockType, NapInv
<1>4. ASSUME NEW p \in Proc, Return(p) PROVE IInv'
  BY <1>4, <1>a DEF Return, ClockType, NapInv
<1>5. ASSUME NEW p \in Proc, Kill(p) PROVE IInv'
  BY <1>5, <1>a DEF Kill, ClockType, NapInv
<1>6. CASE UNCHANGED vars
  BY <1>6 DEF vars, ClockType, NapInv
<1> QED
  BY <1>1, <1>2, <1>3, <1>4, <1>5, <1>6 DEF Next, Run

\* The inductive invariant holds when the machine boots.
LEMMA IInvInit == ASSUME ClockAssumption PROVE Init => IInv
BY DEF ClockAssumption, Init, IInv, ClockType, NapInv

\* wakeup(&ticks) reaches everybody whose time has come, before and after ticks
\* wraps.
THEOREM NobodyOversleeps == ASSUME ClockAssumption PROVE Spec => []NoOversleep
<1>1. IInv => NoOversleep
  BY DEF IInv, NapInv, NoOversleep
<1>2. Init => IInv
  BY IInvInit
<1>3. IInv /\ [Next]_vars => IInv'
  BY IInvStep
<1> QED
  BY <1>1, <1>2, <1>3, PTL DEF Spec

\* sys_sleep(n) returns 0 after n ticks and not before.
THEOREM NapsAreLongEnough == ASSUME ClockAssumption PROVE Spec => SleepsLongEnough
<1>1. IInv /\ [Next]_vars => LongEnough
  <2> SUFFICES ASSUME IInv, NEW p \in Proc, Return(p), ~killed[p] PROVE elapsed[p] >= n[p]
    BY DEF LongEnough
  <2>1. pc[p] = "running" /\ ~Asleep(p)
    BY DEF Return
  <2>2. elapsed[p] \in Nat /\ n[p] \in Nat
    BY DEF IInv, ClockType
  <2> QED
    BY <2>1, <2>2, Difference DEF Asleep
<1>2. Init => IInv
  BY IInvInit
<1>3. IInv /\ [Next]_vars => IInv'
  BY IInvStep
<1> QED
  BY <1>1, <1>2, <1>3, PTL DEF Spec, SleepsLongEnough

=============================================================================
