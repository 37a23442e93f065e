----------------------------- MODULE SleepLock -----------------------------
(***************************************************************************)
(* A sleep lock (sleeplock.c) on top of sleep() and wakeup() (proc.c), at  *)
(* the grain of the two spin locks involved: lk->lk, which protects the    *)
(* sleep lock, and ptable.lock, which protects process states.             *)
(***************************************************************************)
EXTENDS Naturals, FiniteSets

CONSTANTS
    Proc,       \* the processes that use the lock
    None        \* nobody

ASSUME SleepLockAssumption == None \notin Proc

VARIABLES
    locked,     \* lk->locked
    owner,      \* lk->pid
    lk,         \* holder of the spin lock lk->lk
    ptable,     \* holder of ptable.lock
    asleep,     \* processes whose state is SLEEPING on this lock's channel
    killed,
    pc

vars == <<locked, owner, lk, ptable, asleep, killed, pc>>

Init ==
    /\ locked = FALSE
    /\ owner = None
    /\ lk = None
    /\ ptable = None
    /\ asleep = {}
    /\ killed = {}
    /\ pc = [p \in Proc |-> "idle"]

Goto(p, l) == pc' = [pc EXCEPT ![p] = l]

\* acquiresleep(): acquire(&lk->lk)
AcquireCall(p) ==
    /\ pc[p] = "idle"
    /\ lk = None /\ lk' = p
    /\ Goto(p, "test")
    /\ UNCHANGED <<locked, owner, ptable, asleep, killed>>

\* while (lk->locked) ... lk->locked = 1; lk->pid = proc->pid; release(&lk->lk)
AcquireTest(p) ==
    /\ pc[p] = "test"
    /\ IF locked
       THEN Goto(p, "sleep") /\ UNCHANGED <<locked, owner, lk>>
       ELSE /\ locked' = TRUE /\ owner' = p
            /\ lk' = None
            /\ Goto(p, "critical")
    /\ UNCHANGED <<ptable, asleep, killed>>

\* Mutant: sleep() lets go of lk before it holds ptable.lock.
SleepReleasesFirst(p) ==
    /\ \/ pc[p] = "sleep" /\ lk' = None /\ Goto(p, "release_lk") /\ UNCHANGED ptable
       \/ pc[p] = "release_lk" /\ ptable = None /\ ptable' = p
          /\ Goto(p, "sched") /\ UNCHANGED lk
    /\ UNCHANGED <<locked, owner, asleep, killed>>

\* sleep(lk, &lk->lk): acquire(&ptable.lock), and only then release(lk).
SleepLocks(p) ==
    /\ \/ pc[p] = "sleep" /\ ptable = None /\ ptable' = p
          /\ Goto(p, "release_lk") /\ UNCHANGED lk
       \/ pc[p] = "release_lk" /\ lk' = None /\ Goto(p, "sched") /\ UNCHANGED ptable
    /\ UNCHANGED <<locked, owner, asleep, killed>>

\* state = SLEEPING and sched(); the scheduler releases ptable.lock.
Sched(p) ==
    /\ pc[p] = "sched"
    /\ asleep' = asleep \cup {p}
    /\ ptable' = None
    /\ Goto(p, "off")
    /\ UNCHANGED <<locked, owner, lk, killed>>

\* Some CPU runs the woken process again (it inherits and releases ptable.lock),
\* and sleep() reacquires lk.
SleepReturns(p) ==
    /\ pc[p] = "off" /\ p \notin asleep
    /\ ptable = None
    /\ Goto(p, "reacquire")
    /\ UNCHANGED <<locked, owner, lk, ptable, asleep, killed>>

\* Mutant: acquiresleep() does not look again after sleep() returns.
ReacquireAndTake(p) ==
    /\ pc[p] = "reacquire"
    /\ lk = None
    /\ locked' = TRUE /\ owner' = p
    /\ Goto(p, "critical")
    /\ UNCHANGED <<lk, ptable, asleep, killed>>

Reacquire(p) ==
    /\ pc[p] = "reacquire"
    /\ lk = None /\ lk' = p
    /\ Goto(p, "test")
    /\ UNCHANGED <<locked, owner, ptable, asleep, killed>>

\* releasesleep(): acquire(&lk->lk)
ReleaseCall(p) ==
    /\ pc[p] = "critical"
    /\ lk = None /\ lk' = p
    /\ Goto(p, "unlock")
    /\ UNCHANGED <<locked, owner, ptable, asleep, killed>>

Unlock(p) ==
    /\ pc[p] = "unlock"
    /\ locked' = FALSE /\ owner' = None
    /\ Goto(p, "wakeup")
    /\ UNCHANGED <<lk, ptable, asleep, killed>>

\* Who still sleeps on the channel after wakeup1(): nobody.
StillAsleep == {}

\* wakeup(lk): one critical section of ptable.lock.
Wakeup(p) ==
    /\ pc[p] = "wakeup"
    /\ ptable = None
    /\ asleep' = StillAsleep
    /\ Goto(p, "release")
    /\ UNCHANGED <<locked, owner, lk, ptable, killed>>

Release(p) ==
    /\ pc[p] = "release"
    /\ lk' = None
    /\ Goto(p, "idle")
    /\ UNCHANGED <<locked, owner, ptable, asleep, killed>>

\* kill() wakes a process wherever it sleeps; acquiresleep() will sleep again.
\* Bound: a process is killed once.
Kill(p) ==
    /\ ptable = None
    /\ p \notin killed
    /\ killed' = killed \cup {p}
    /\ asleep' = asleep \ {p}
    /\ UNCHANGED <<locked, owner, lk, ptable, pc>>

Step(p) ==
    \/ AcquireTest(p) \/ SleepLocks(p) \/ Sched(p) \/ SleepReturns(p) \/ Reacquire(p)
    \/ ReleaseCall(p) \/ Unlock(p) \/ Wakeup(p) \/ Release(p)

Next == \E p \in Proc : AcquireCall(p) \/ Step(p) \/ Kill(p)

Spec == Init /\ [][Next]_vars

-----------------------------------------------------------------------------
(***************************************************************************)
(* Properties.                                                             *)
(***************************************************************************)
Pcs == {"idle", "test", "sleep", "release_lk", "sched", "off", "reacquire", "critical",
        "unlock", "wakeup", "release"}

\* Type invariant of the lock and its users.
TypeOK ==
    /\ locked \in BOOLEAN
    /\ owner \in Proc \cup {None} /\ lk \in Proc \cup {None} /\ ptable \in Proc \cup {None}
    /\ asleep \subseteq Proc /\ killed \subseteq Proc
    /\ pc \in [Proc -> Pcs]

\* Two processes never both hold the sleep lock, and lk->pid names the holder.
MutualExclusion ==
    \A p, q \in Proc : /\ pc[p] = "critical" => locked /\ owner = p
                       /\ pc[p] = "critical" /\ pc[q] = "critical" => p = q

\* "Once we hold ptable.lock, we can be guaranteed that we won't miss any
\* wakeup": while somebody sleeps the lock is held, or its releaser is still on
\* the way to its wakeup().
NoMissedWakeup ==
    asleep # {} => locked \/ \E q \in Proc : pc[q] = "wakeup"

\* A CPU keeps executing: a step that stays possible is taken, and a holder
\* calls releasesleep().  Nothing is assumed of who wins a spin lock.
Fairness == \A p \in Proc : WF_vars(Step(p))

FairSpec == Spec /\ Fairness

\* Nobody sleeps on the lock for ever: everyone who wants lk->lk meanwhile falls
\* asleep too, so that the holder gets to release the lock and wake them all.
SleeperWakes == \A p \in Proc : p \in asleep ~> p \notin asleep
=============================================================================
