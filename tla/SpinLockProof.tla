--------------------------- MODULE SpinLockProof ---------------------------
(***************************************************************************)
(* For any number of CPUs and of locks: spin locks exclude, no CPU waits   *)
(* for itself, and interrupts are off while a lock is held.                *)
(***************************************************************************)
EXTENDS SpinLock, FiniteSetTheorems, TLAPS

Pcs == {"run", "xchg", "record", "unlock", "popcli"}

\* Types; no CPU has panicked.
TypeInv ==
    /\ locked \in [Lock -> BOOLEAN] /\ lcpu \in [Lock -> Cpu \cup {NoCpu}]
    /\ intr \in [Cpu -> BOOLEAN] /\ ncli \in [Cpu -> Nat] /\ intena \in [Cpu -> BOOLEAN]
    /\ held \in [Cpu -> SUBSET Lock] /\ base \in [Cpu -> SUBSET Lock]
    /\ handler \in [Cpu -> BOOLEAN]
    /\ pc \in [Cpu -> Pcs] /\ lk \in [Cpu -> Nat]
    /\ \A c \in Cpu : pc[c] # "run" => lk[c] \in Lock

\* The locked words and the cpu fields, seen from the CPUs.
OwnInv ==
    /\ \A c \in Cpu, l \in Lock : l \in held[c] => locked[l] /\ lcpu[l] = c
    /\ \A c \in Cpu, l \in Lock : lcpu[l] = c => l \in held[c]
    /\ \A c \in Cpu : pc[c] \in {"record", "unlock"} => locked[lk[c]] /\ lcpu[lk[c]] = NoCpu
    /\ \A c, d \in Cpu : pc[c] \in {"record", "unlock"} /\ pc[d] \in {"record", "unlock"}
                            /\ lk[c] = lk[d] => c = d
    /\ \A l \in Lock : locked[l] /\ lcpu[l] = NoCpu =>
            \E c \in Cpu : pc[c] \in {"record", "unlock"} /\ lk[c] = l
    /\ \A c \in Cpu : pc[c] = "xchg" => lk[c] \notin held[c]

\* pushcli() was called once for every lock held and for the acquire() or
\* release() under way.
Pending(c) == IF pc[c] = "run" THEN 0 ELSE 1

CliInv == \A c \in Cpu : IsFiniteSet(held[c]) /\ ncli[c] = Cardinality(held[c]) + Pending(c)

\* Interrupts are on only in code that holds nothing and is no handler; what a
\* handler saved in intena is that they were off; and it interrupted no holder.
IntrInv ==
    \A c \in Cpu : /\ intr[c] => ncli[c] = 0 /\ ~handler[c]
                   /\ handler[c] /\ ncli[c] > 0 => ~intena[c]
                   /\ base[c] = {}

IInv == TypeInv /\ OwnInv /\ CliInv /\ IntrInv

\* Code that has pushed no cli holds no lock and is not inside acquire or release.
LEMMA NothingHeld ==
    ASSUME TypeInv, CliInv, NEW c \in Cpu, ncli[c] = 0
    PROVE  held[c] = {} /\ pc[c] = "run"
<1>1. Cardinality(held[c]) \in Nat /\ Pending(c) \in {0, 1}
  BY FS_CardinalityType DEF CliInv, Pending
<1>2. Cardinality(held[c]) = 0 /\ Pending(c) = 0
  BY <1>1 DEF CliInv
<1> QED
  BY <1>2, FS_EmptySet DEF CliInv, Pending

\* acquire() and release() change the number of held locks by one.
LEMMA HeldCount ==
    ASSUME NEW S, IsFiniteSet(S), NEW l
    PROVE  /\ l \notin S => /\ IsFiniteSet(S \cup {l})
                            /\ Cardinality(S \cup {l}) = Cardinality(S) + 1
           /\ l \in S => /\ IsFiniteSet(S \ {l})
                         /\ Cardinality(S) = Cardinality(S \ {l}) + 1
           /\ Cardinality(S) \in Nat /\ Cardinality(S \ {l}) \in Nat
<1>1. IsFiniteSet(S \ {l}) /\ Cardinality(S) \in Nat
  BY FS_RemoveElement, FS_CardinalityType
<1>2. Cardinality(S \ {l}) \in Nat
  BY <1>1, FS_CardinalityType
<1>3. l \notin S => IsFiniteSet(S \cup {l}) /\ Cardinality(S \cup {l}) = Cardinality(S) + 1
  BY FS_AddElement
<1>4. l \in S => Cardinality(S \ {l}) = Cardinality(S) - 1
  BY FS_RemoveElement
<1> QED
  BY <1>1, <1>2, <1>3, <1>4

\* The locks are free and nobody holds one at the start.
LEMMA IInvInit == Init => IInv
<1> SUFFICES ASSUME Init PROVE IInv
  OBVIOUS
<1>1. TypeInv
  BY SpinLockAssumption DEF Init, TypeInv, Pcs
<1>2. OwnInv
  BY SpinLockAssumption DEF Init, OwnInv
<1>3. CliInv
  BY FS_EmptySet DEF Init, CliInv, Pending
<1>4. IntrInv
  BY DEF Init, IntrInv
<1> QED
  BY <1>1, <1>2, <1>3, <1>4 DEF IInv

\* Every step of acquire(), release() and of an interrupt preserves the invariant.
LEMMA IInvStep == IInv /\ [Next]_vars => IInv'
<1> SUFFICES ASSUME IInv, [Next]_vars PROVE IInv'
  OBVIOUS
<1> USE SpinLockAssumption DEF Goto
<1>1. ASSUME NEW c \in Cpu, NEW l \in Lock, AcquireCall(c, l) PROVE IInv'
  <2>1. l \in Nat /\ l \notin held[c] /\ pc[c] = "run"
    BY <1>1 DEF IInv, TypeInv, IntrInv, AcquireCall, Taken, Lock
  <2>2. /\ pc' = [pc EXCEPT ![c] = "xchg"] /\ lk' = [lk EXCEPT ![c] = l]
        /\ ncli' = [ncli EXCEPT ![c] = @ + 1]
        /\ UNCHANGED <<locked, lcpu, held, handler, base>>
    BY <1>1, <2>1 DEF IInv, OwnInv, AcquireCall, holding
  <2>3. /\ intr' = [intr EXCEPT ![c] = FALSE]
        /\ intena' = [intena EXCEPT ![c] = IntenaAfterPush(c)]
        /\ IntenaAfterPush(c) = IF ncli[c] = 0 THEN intr[c] ELSE intena[c]
    BY <1>1 DEF AcquireCall, IntrAfterCli, IntenaAfterPush
  <2>4. IntenaAfterPush(c) \in BOOLEAN
    BY <2>3 DEF IInv, TypeInv
  <2>5. TypeInv'
    <3>1. intena' \in [Cpu -> BOOLEAN] /\ intr' \in [Cpu -> BOOLEAN]
      BY <2>3, <2>4 DEF IInv, TypeInv
    <3>2. ncli' \in [Cpu -> Nat] /\ pc' \in [Cpu -> Pcs] /\ lk' \in [Cpu -> Nat]
      BY <2>1, <2>2 DEF IInv, TypeInv, Pcs
    <3>3. \A d \in Cpu : pc'[d] # "run" => lk'[d] \in Lock
      BY <2>2 DEF IInv, TypeInv
    <3> QED
      BY <2>2, <3>1, <3>2, <3>3 DEF IInv, TypeInv
  <2>6. OwnInv'
    BY <2>1, <2>2 DEF IInv, TypeInv, OwnInv
  <2>7. CliInv'
    <3>1. Cardinality(held[c]) \in Nat
      BY FS_CardinalityType DEF IInv, CliInv
    <3> QED
      BY <2>1, <2>2, <3>1 DEF IInv, TypeInv, CliInv, Pending
  <2>8. IntrInv'
    <3>1. ASSUME NEW d \in Cpu, d # c
          PROVE /\ intr'[d] = intr[d] /\ ncli'[d] = ncli[d] /\ intena'[d] = intena[d]
      BY <3>1, <2>2, <2>3 DEF IInv, TypeInv
    <3>2. ~intr'[c] /\ (handler[c] => ~intena'[c])
      BY <2>3 DEF IInv, TypeInv, IntrInv
    <3> QED
      BY <2>2, <3>1, <3>2 DEF IInv, IntrInv
  <2> QED
    BY <2>5, <2>6, <2>7, <2>8 DEF IInv
<1>2. ASSUME NEW c \in Cpu, Xchg(c) PROVE IInv'
  <2>1. TypeInv'
    BY <1>2 DEF IInv, TypeInv, OwnInv, CliInv, IntrInv, Pcs, Xchg, FoundFree
  <2>2. OwnInv'
    BY <1>2 DEF IInv, TypeInv, OwnInv, IntrInv, Pcs, Xchg, FoundFree
  <2>3. CliInv'
    BY <1>2, HeldCount DEF IInv, TypeInv, OwnInv, CliInv, IntrInv, Pending, Pcs, Xchg, FoundFree
  <2>4. IntrInv'
    BY <1>2, NothingHeld DEF IInv, TypeInv, CliInv, IntrInv, Pcs, Xchg, FoundFree
  <2> QED
    BY <2>1, <2>2, <2>3, <2>4 DEF IInv
<1>3. ASSUME NEW c \in Cpu, AcquireReturn(c) PROVE IInv'
  <2>1. TypeInv'
    BY <1>3 DEF IInv, TypeInv, OwnInv, CliInv, IntrInv, Pcs, AcquireReturn
  <2>2. OwnInv'
    BY <1>3 DEF IInv, TypeInv, OwnInv, IntrInv, Pcs, AcquireReturn
  <2>3. CliInv'
    <3>1. lk[c] \in Lock /\ lk[c] \notin held[c] /\ pc[c] = "record"
      BY <1>3 DEF IInv, TypeInv, OwnInv, AcquireReturn
    <3>2. /\ IsFiniteSet(held[c] \cup {lk[c]}) /\ Cardinality(held[c]) \in Nat
          /\ Cardinality(held[c] \cup {lk[c]}) = Cardinality(held[c]) + 1
      BY <3>1, HeldCount DEF IInv, CliInv
    <3>3. /\ held' = [held EXCEPT ![c] = held[c] \cup {lk[c]}]
          /\ pc' = [pc EXCEPT ![c] = "run"] /\ ncli' = ncli
      BY <1>3 DEF AcquireReturn
    <3> QED
      BY <3>1, <3>2, <3>3 DEF IInv, TypeInv, CliInv, Pending
  <2>4. IntrInv'
    BY <1>3, NothingHeld DEF IInv, TypeInv, CliInv, IntrInv, Pcs, AcquireReturn
  <2> QED
    BY <2>1, <2>2, <2>3, <2>4 DEF IInv
<1>4. ASSUME NEW c \in Cpu, NEW l \in Lock, ReleaseCall(c, l) PROVE IInv'
  <2>1. l \in Nat /\ l \in held[c] /\ holding(c, l) /\ pc[c] = "run"
    BY <1>4 DEF IInv, TypeInv, OwnInv, ReleaseCall, Taken, Lock, holding
  <2>2. /\ lcpu' = [lcpu EXCEPT ![l] = NoCpu] /\ pc' = [pc EXCEPT ![c] = "unlock"]
        /\ held' = [held EXCEPT ![c] = held[c] \ {l}] /\ lk' = [lk EXCEPT ![c] = l]
        /\ UNCHANGED <<locked, intr, ncli, intena, handler, base>>
    BY <1>4, <2>1 DEF ReleaseCall
  <2>3. TypeInv'
    BY <2>1, <2>2 DEF IInv, TypeInv, Pcs
  <2>4. OwnInv'
    BY <2>1, <2>2 DEF IInv, TypeInv, OwnInv, holding
  <2>5. CliInv'
    <3>1. /\ IsFiniteSet(held[c] \ {l}) /\ Cardinality(held[c] \ {l}) \in Nat
          /\ Cardinality(held[c]) = Cardinality(held[c] \ {l}) + 1
      BY <2>1, HeldCount DEF IInv, CliInv
    <3> QED
      BY <2>1, <2>2, <3>1 DEF IInv, TypeInv, CliInv, Pending
  <2>6. IntrInv'
    BY <2>2 DEF IInv, IntrInv
  <2> QED
    BY <2>3, <2>4, <2>5, <2>6 DEF IInv
<1>5. ASSUME NEW c \in Cpu, Unlock(c) PROVE IInv'
  <2>1. TypeInv'
    BY <1>5 DEF IInv, TypeInv, OwnInv, CliInv, IntrInv, Pcs, Unlock
  <2>2. OwnInv'
    BY <1>5 DEF IInv, TypeInv, OwnInv, IntrInv, Pcs, Unlock
  <2>3. CliInv'
    BY <1>5, HeldCount DEF IInv, TypeInv, OwnInv, CliInv, IntrInv, Pending, Pcs, Unlock
  <2>4. IntrInv'
    BY <1>5, NothingHeld DEF IInv, TypeInv, CliInv, IntrInv, Pcs, Unlock
  <2> QED
    BY <2>1, <2>2, <2>3, <2>4 DEF IInv
<1>6. ASSUME NEW c \in Cpu, popcli(c) PROVE IInv'
  <2>1. pc[c] = "popcli" /\ Cardinality(held[c]) \in Nat
    BY <1>6, FS_CardinalityType DEF popcli, IInv, CliInv
  <2>2. ncli[c] = Cardinality(held[c]) + 1 /\ ~intr[c]
    BY <2>1 DEF IInv, CliInv, Pending, IntrInv
  <2>3. /\ ncli' = [ncli EXCEPT ![c] = ncli[c] - 1] /\ pc' = [pc EXCEPT ![c] = "run"]
        /\ intr' = [intr EXCEPT ![c] = Sti(c)]
        /\ UNCHANGED <<locked, lcpu, intena, held, handler, base, lk>>
    BY <1>6, <2>1, <2>2 DEF popcli
  <2>4. Sti(c) \in BOOLEAN
    BY DEF Sti, IInv, TypeInv
  <2>5. ncli[c] - 1 = Cardinality(held[c])
    BY <2>1, <2>2
  <2>6. TypeInv'
    <3>1. intr' \in [Cpu -> BOOLEAN]
      BY <2>3, <2>4 DEF IInv, TypeInv
    <3> QED
      BY <2>1, <2>3, <2>5, <3>1 DEF IInv, TypeInv, Pcs
  <2>7. OwnInv'
    BY <2>1, <2>3 DEF IInv, TypeInv, OwnInv
  <2>8. CliInv'
    BY <2>1, <2>3, <2>5 DEF IInv, TypeInv, CliInv, Pending
  <2>9. IntrInv'
    BY <1>6 DEF IInv, TypeInv, IntrInv, Pcs, popcli, Sti
  <2> QED
    BY <2>6, <2>7, <2>8, <2>9 DEF IInv
<1>7. ASSUME NEW c \in Cpu, Interrupt(c) PROVE IInv'
  <2>1. TypeInv'
    BY <1>7 DEF IInv, TypeInv, OwnInv, CliInv, IntrInv, Pcs, Interrupt
  <2>2. OwnInv'
    BY <1>7 DEF IInv, TypeInv, OwnInv, IntrInv, Pcs, Interrupt
  <2>3. CliInv'
    BY <1>7, HeldCount DEF IInv, TypeInv, OwnInv, CliInv, IntrInv, Pending, Pcs, Interrupt
  <2>4. IntrInv'
    BY <1>7, NothingHeld DEF IInv, TypeInv, CliInv, IntrInv, Pcs, Interrupt
  <2> QED
    BY <2>1, <2>2, <2>3, <2>4 DEF IInv
<1>8. ASSUME NEW c \in Cpu, Iret(c) PROVE IInv'
  <2>1. TypeInv'
    BY <1>8 DEF IInv, TypeInv, OwnInv, CliInv, IntrInv, Pcs, Iret, Taken
  <2>2. OwnInv'
    BY <1>8 DEF IInv, TypeInv, OwnInv, IntrInv, Pcs, Iret, Taken
  <2>3. CliInv'
    BY <1>8, HeldCount DEF IInv, TypeInv, OwnInv, CliInv, IntrInv, Pending, Pcs, Iret, Taken
  <2>4. IntrInv'
    <3>1. pc[c] = "run" /\ held[c] = {}
      BY <1>8 DEF IInv, IntrInv, Iret, Taken
    <3>2. ncli[c] = 0
      BY <3>1, FS_EmptySet DEF IInv, CliInv, Pending
    <3> QED
      BY <1>8, <3>2 DEF IInv, TypeInv, IntrInv, Iret
  <2> QED
    BY <2>1, <2>2, <2>3, <2>4 DEF IInv
<1>9. CASE UNCHANGED vars
  BY <1>9 DEF vars, IInv, TypeInv, OwnInv, CliInv, IntrInv, Pending
<1> QED
  BY <1>1, <1>2, <1>3, <1>4, <1>5, <1>6, <1>7, <1>8, <1>9 DEF Next, Step

\* IInv holds throughout every behaviour.
LEMMA Invariance == Spec => []IInv
BY IInvInit, IInvStep, PTL DEF Spec

\* acquire() and release() exclude, for every number of CPUs and locks.
THEOREM LocksExclude == Spec => []MutualExclusion
<1>1. IInv => MutualExclusion
  BY SpinLockAssumption DEF IInv, TypeInv, OwnInv, MutualExclusion, Owned
<1> QED
  BY Invariance, <1>1, PTL

\* pushcli() before the xchg keeps handlers from spinning on a lock that the code
\* below them holds, and none of the three checks panics.
THEOREM NobodyWaitsForItself == Spec => []NoSelfDeadlock
<1>1. IInv => NoSelfDeadlock
  BY DEF IInv, TypeInv, OwnInv, NoSelfDeadlock, Owned, Pcs
<1> QED
  BY Invariance, <1>1, PTL

\* Interrupts are off while locks are held and inside handlers.
THEOREM InterruptsStayOff == Spec => []InterruptsOff
<1>1. IInv => InterruptsOff
  BY DEF IInv, TypeInv, IntrInv, InterruptsOff
<1> QED
  BY Invariance, <1>1, PTL
=============================================================================
