------------------------------- MODULE MCSleep ------------------------------
(***************************************************************************)
(* Model checking of the three users of sleep() and wakeup() whose loops   *)
(* wait for each other, each for itself: sleep locks (SleepLock), pipes    *)
(* (Pipe) and the clock (Clock).  `part' says which of them a behaviour is *)
(* of; v1, v2, ... hold the state of a pipe or of the clock, and SleepLock,*)
(* which has its own variables, rests meanwhile.                           *)
(***************************************************************************)
EXTENDS SleepLock, Integers

CONSTANTS Reader, Writer, Val, InitVal, PIPESIZE, UINT, MaxCall, Killable,
          Sleeper, TICKS, Naps, MaxLag

VARIABLES part, v1, v2, v3, v4, v5, v6, v7, v8, v9, v10, v11, v12

shared == <<v1, v2, v3, v4, v5, v6, v7, v8, v9, v10, v11, v12>>
beyondClock == <<v8, v9, v10, v11, v12>>
all == <<part, vars, shared>>

P == INSTANCE Pipe WITH
        data <- v1, nread <- v2, nwrite <- v3, readopen <- v4, writeopen <- v5, freed <- v6,
        lock <- v7, pc <- v8, left <- v9, open <- v10, killed <- v11, addr <- v12
C == INSTANCE Clock WITH
        Proc <- Sleeper, UINT <- TICKS, ticks <- v1, pc <- v2, n <- v3, ticks0 <- v4, killed <- v5,
        elapsed <- v6, lag <- v7

ASSUME P!PipeAssumption /\ C!ClockAssumption

Rest == v8 = 0 /\ v9 = 0 /\ v10 = 0 /\ v11 = 0 /\ v12 = 0

SleepInit ==
    /\ Init
    /\ \/ part = "lock" /\ v1 = 0 /\ v2 = 0 /\ v3 = 0 /\ v4 = 0 /\ v5 = 0 /\ v6 = 0 /\ v7 = 0 /\ Rest
       \/ part = "pipe" /\ P!Init
       \/ part = "clock" /\ C!Init /\ Rest

Lock(A) == part = "lock" /\ A /\ UNCHANGED <<part, shared>>
Pipe(A) == part = "pipe" /\ A /\ UNCHANGED <<part, vars>>
Clock(A) == part = "clock" /\ A /\ UNCHANGED <<part, vars, beyondClock>>

SleepNext == Lock(Next) \/ Pipe(P!Next) \/ Clock(C!Next)

\* Each part's own fairness.
SleepFairness ==
    /\ \A p \in Proc : WF_all(Lock(Step(p)))
    /\ \A p \in Reader \cup Writer : WF_all(Pipe(P!Step(p))) /\ WF_all(Pipe(P!pipeclose(p)))
    /\ WF_all(Clock(C!Tick)) /\ \A p \in Sleeper : WF_all(Clock(C!Run(p)))

SleepSpec == SleepInit /\ [][SleepNext]_all /\ SleepFairness

-----------------------------------------------------------------------------
\* Nobody sleeps on a lock that is free, on a pipe that has what they wait for,
\* or in sys_sleep() when their time has come, with no wakeup() on its way.
NobodySleepsOn ==
    /\ NoMissedWakeup
    /\ part = "pipe" => P!NoMissedWakeup
    /\ part = "clock" => C!NoOversleep

\* The ring buffer of a pipe is a FIFO channel.
FifoChannel ==
    /\ part = "pipe" => P!C!Init
    /\ [](part = "pipe" => P!TypeOK)
    /\ [][part = "pipe" => P!ChannelStep]_all

\* sleep(n) does not return 0 before n ticks.
SleepsLongEnough == [][part = "clock" => C!LongEnough]_all

\* Every sleep comes to an end: acquiresleep()'s sleepers wake, a lone reader
\* comes back from piperead(), and sys_sleep() returns.
SleepersReturn ==
    /\ SleeperWakes
    /\ \A p \in Reader : (part = "pipe" /\ v8[p] # "idle") ~> (part = "pipe" /\ v8[p] = "idle")
    /\ \A p \in Sleeper : (part = "clock" /\ v2[p] # "idle") ~> (part = "clock" /\ v2[p] = "idle")

=============================================================================
