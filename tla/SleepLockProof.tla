--------------------------- MODULE SleepLockProof ---------------------------
(***************************************************************************)
(* For any number of processes: a sleep lock has one holder, and nobody    *)
(* who sleeps on it has missed the wakeup of its release.                  *)
(***************************************************************************)
EXTENDS SleepLock, TLAPS

\* Who holds the two spin locks, by the step a process has reached.
HoldsLk == {"test", "sleep", "release_lk", "unlock", "wakeup", "release"}
HoldsPtable == {"release_lk", "sched"}

SpinInv ==
    \A p \in Proc : /\ lk = p <=> pc[p] \in HoldsLk
                    /\ ptable = p <=> pc[p] \in HoldsPtable

\* lk->locked and lk->pid belong to the process in the critical section.
OwnerInv ==
    /\ \A p \in Proc : pc[p] \in {"critical", "unlock"} => locked /\ owner = p
    /\ locked => \E p \in Proc : pc[p] \in {"critical", "unlock"}

\* Asleep or committed to it: the test of lk->locked has been made.
Sleeping(p) == p \in asleep \/ pc[p] \in {"sleep", "release_lk", "sched"}

WakeupInv ==
    /\ \A p \in asleep : pc[p] = "off"
    /\ \A p \in Proc : Sleeping(p) => locked \/ \E q \in Proc : pc[q] = "wakeup"

IInv == TypeOK /\ SpinInv /\ OwnerInv /\ WakeupInv

\* The inductive invariant holds when the lock is initialised.
LEMMA IInvInit == Init => IInv
BY SleepLockAssumption DEF Init, IInv, TypeOK, SpinInv, OwnerInv, WakeupInv, Sleeping, Pcs,
   HoldsLk, HoldsPtable

\* Every step of acquiresleep(), releasesleep(), sleep(), wakeup() and kill()
\* preserves it.
LEMMA IInvStep == IInv /\ [Next]_vars => IInv'
<1> SUFFICES ASSUME IInv, [Next]_vars PROVE IInv'
  OBVIOUS
<1> USE SleepLockAssumption DEF IInv, TypeOK, SpinInv, OwnerInv, WakeupInv, Sleeping, Pcs,
                                HoldsLk, HoldsPtable, Goto
<1>1. ASSUME NEW p \in Proc, AcquireCall(p) PROVE IInv'
  BY <1>1 DEF AcquireCall
<1>2. ASSUME NEW p \in Proc, AcquireTest(p) PROVE IInv'
  <2>1. CASE locked
    BY <1>2, <2>1 DEF AcquireTest
  <2>2. CASE ~locked
    <3>1. \A q \in Proc : pc[q] \notin {"critical", "unlock"}
      BY <2>2
    <3>2. /\ locked' = TRUE /\ owner' = p /\ lk' = None
          /\ pc' = [pc EXCEPT ![p] = "critical"]
          /\ UNCHANGED <<ptable, asleep, killed>>
      BY <1>2, <2>2 DEF AcquireTest
    <3>3. pc[p] = "test"
      BY <1>2 DEF AcquireTest
    <3>4. TypeOK'
      BY <3>2
    <3>5. SpinInv'
      BY <3>2, <3>3
    <3>6. OwnerInv'
      BY <3>1, <3>2
    <3>7. WakeupInv'
      BY <3>2, <3>3
    <3> QED
      BY <3>4, <3>5, <3>6, <3>7
  <2> QED
    BY <2>1, <2>2
<1>3. ASSUME NEW p \in Proc, SleepLocks(p) PROVE IInv'
  BY <1>3 DEF SleepLocks
<1>4. ASSUME NEW p \in Proc, Sched(p) PROVE IInv'
  BY <1>4 DEF Sched
<1>5. ASSUME NEW p \in Proc, SleepReturns(p) PROVE IInv'
  BY <1>5 DEF SleepReturns
<1>6. ASSUME NEW p \in Proc, Reacquire(p) PROVE IInv'
  BY <1>6 DEF Reacquire
<1>7. ASSUME NEW p \in Proc, ReleaseCall(p) PROVE IInv'
  BY <1>7 DEF ReleaseCall
<1>8. ASSUME NEW p \in Proc, Unlock(p) PROVE IInv'
  BY <1>8 DEF Unlock
<1>9. ASSUME NEW p \in Proc, Wakeup(p) PROVE IInv'
  BY <1>9 DEF Wakeup, StillAsleep
<1>10. ASSUME NEW p \in Proc, Release(p) PROVE IInv'
  BY <1>10 DEF Release
<1>11. ASSUME NEW p \in Proc, Kill(p) PROVE IInv'
  BY <1>11 DEF Kill
<1>12. CASE UNCHANGED vars
  BY <1>12 DEF vars
<1> QED
  BY <1>1, <1>2, <1>3, <1>4, <1>5, <1>6, <1>7, <1>8, <1>9, <1>10, <1>11, <1>12 DEF Next, Step

\* IInv holds throughout every behaviour.
LEMMA Invariance == Spec => []IInv
BY IInvInit, IInvStep, PTL DEF Spec

\* acquiresleep() admits one process at a time, and lk->pid names it.
THEOREM OneHolder == Spec => []MutualExclusion
<1>1. IInv => MutualExclusion
  BY DEF IInv, OwnerInv, MutualExclusion
<1> QED
  BY Invariance, <1>1, PTL

\* sleep() releases lk only when it holds ptable.lock, so that no wakeup() can
\* fall between the test of lk->locked and the change to SLEEPING.
THEOREM WakeupNotMissed == Spec => []NoMissedWakeup
<1>1. IInv => NoMissedWakeup
  BY DEF IInv, TypeOK, WakeupInv, Sleeping, NoMissedWakeup
<1> QED
  BY Invariance, <1>1, PTL
=============================================================================
