----------------------------- MODULE PipeProof ------------------------------
(***************************************************************************)
(* For any number of readers and writers, any size of the buffer and any   *)
(* width of the counters: nobody who sleeps on a pipe has missed a wakeup. *)
(***************************************************************************)
EXTENDS Pipe, TLAPS

Holding == {"write", "sleep_w", "empty?", "sleep_r", "read"}
WriterPcs == {"idle", "write", "sleep_w", "asleep_w", "woken"}
ReaderPcs == {"idle", "empty?", "sleep_r", "asleep_r", "read", "woken"}

\* Who holds p->lock; whose end is open.
HolderInv ==
    /\ pc \in [User -> Pcs] /\ lock \in User \cup {None} /\ killed \subseteq User
    /\ \A p \in User : lock = p <=> pc[p] \in Holding
    /\ \A p \in Writer : pc[p] \in WriterPcs
    /\ \A p \in Reader : pc[p] \in ReaderPcs
    /\ \A p \in User : pc[p] # "idle" => p \in open
    /\ open \subseteq User
    /\ readopen = (open \cap Reader # {})
    /\ writeopen = (open \cap Writer # {})

\* A writer is filling the pipe, a reader is emptying it: wakeup() is still to come.
Filling == \E p \in Writer : pc[p] = "write"
Emptying == \E p \in Reader : pc[p] = "read"

\* Why a process sleeps, or is about to with p->lock in its hands.
WaitInv == \A p \in User :
    /\ pc[p] = "sleep_r" => Empty
    /\ pc[p] \in {"sleep_r", "asleep_r"} => writeopen
    /\ pc[p] = "sleep_w" => Full
    /\ pc[p] \in {"sleep_w", "asleep_w"} => readopen
    /\ pc[p] = "asleep_r" => Empty \/ killed \cap Writer # {} \/ Filling
    /\ pc[p] = "asleep_w" => Full \/ Emptying

IInv == HolderInv /\ WaitInv

\* What wakeup() does to the pcs.
LEMMA Wakes ==
    ASSUME NEW f \in [User -> Pcs], NEW ch \in {"r", "w"}
    PROVE  /\ WakeIn(f, ch) \in [User -> Pcs]
           /\ \A q \in User : WakeIn(f, ch)[q] =
                    IF f[q] = (IF ch = "r" THEN "asleep_r" ELSE "asleep_w") THEN "woken" ELSE f[q]
BY DEF WakeIn, Asleep, Pcs

\* The inductive invariant holds for a new pipe.
LEMMA IInvInit == ASSUME PipeAssumption PROVE Init => IInv
BY DEF PipeAssumption, Init, IInv, HolderInv, WaitInv, Pcs, Holding, WriterPcs, ReaderPcs, User

\* Every step of piperead(), pipewrite(), pipeclose(), sleep() and kill()
\* preserves it.
LEMMA IInvStep == ASSUME PipeAssumption, IInv, [Next]_vars PROVE IInv'
<1> USE DEF IInv, Holding
<1>a. /\ User = Reader \cup Writer /\ Reader \cap Writer = {} /\ None \notin User
      /\ pc \in [User -> Pcs]
  BY DEF PipeAssumption, User, HolderInv
<1>b. \A p \in User : pc[p] \in {"write", "sleep_w", "asleep_w"} => p \in Writer
  BY <1>a DEF HolderInv, ReaderPcs
<1>c. \A p \in User : pc[p] \in {"empty?", "sleep_r", "asleep_r", "read"} => p \in Reader
  BY <1>a DEF HolderInv, WriterPcs
<1>1. ASSUME NEW p \in User, NEW k \in 1 .. MaxCall, Call(p, k) PROVE IInv'
  <2>1. /\ pc[p] = "idle" /\ p \in open /\ lock = None /\ lock' = p
        /\ pc' = [pc EXCEPT ![p] = IF p \in Writer THEN "write" ELSE "empty?"]
        /\ UNCHANGED <<nread, nwrite, readopen, writeopen, open, killed>>
    BY <1>1 DEF Call
  <2>2. HolderInv'
    BY <1>a, <2>1 DEF HolderInv, Pcs, WriterPcs, ReaderPcs
  <2>3. WaitInv'
    BY <1>a, <2>1 DEF WaitInv, Filling, Emptying, Empty, Full, HolderInv
  <2> QED
    BY <2>2, <2>3
<1>2. ASSUME NEW p \in User, NEW v \in Val, WriteByte(p, v) PROVE IInv'
  <2>1. /\ pc[p] = "write" /\ ~Full
        /\ UNCHANGED <<nread, readopen, writeopen, lock, pc, open, killed>>
    BY <1>2 DEF WriteByte
  <2>2. HolderInv'
    BY <2>1 DEF HolderInv
  <2>3. \A q \in User : pc[q] \notin {"sleep_r", "sleep_w", "read", "asleep_w"}
    BY <1>a, <2>1 DEF WaitInv, HolderInv, Emptying
  <2>4. WaitInv'
    BY <1>a, <1>b, <2>1, <2>3 DEF WaitInv, Filling, Emptying
  <2> QED
    BY <2>2, <2>4
<1>3. ASSUME NEW p \in User, WriteFull(p) PROVE IInv'
  <2>0. /\ pc[p] = "write" /\ Full /\ p \in Writer
        /\ UNCHANGED <<nread, nwrite, readopen, writeopen, open, killed>>
    BY <1>3, <1>b DEF WriteFull
  <2>1. CASE ~readopen \/ p \in killed
    <3>1. lock' = None /\ pc' = [pc EXCEPT ![p] = "idle"]
      BY <1>3, <2>1 DEF WriteFull, Return
    <3>2. HolderInv'
      BY <1>a, <2>0, <3>1 DEF HolderInv, Pcs, WriterPcs, ReaderPcs
    <3>3. ~readopen => \A q \in User : pc[q] # "asleep_r"
      BY <1>c DEF HolderInv
    <3>4. p \in killed => killed \cap Writer # {}
      BY <2>0
    <3>5. WaitInv'
      BY <1>a, <2>0, <2>1, <3>1, <3>3, <3>4 DEF WaitInv, Filling, Emptying, Empty, Full, HolderInv
    <3> QED
      BY <3>2, <3>5
  <2>2. CASE ~(~readopen \/ p \in killed)
    <3>1. /\ pc' = WakeIn([pc EXCEPT ![p] = "sleep_w"], "r") /\ lock' = lock
          /\ [pc EXCEPT ![p] = "sleep_w"] \in [User -> Pcs]
      BY <1>3, <1>a, <2>2 DEF WriteFull, FullWoken, Pcs
    <3>2. /\ pc' \in [User -> Pcs]
          /\ \A q \in User : pc'[q] = IF q = p THEN "sleep_w" ELSE
                                      IF pc[q] = "asleep_r" THEN "woken" ELSE pc[q]
      BY <1>a, <3>1, Wakes
    <3>3. HolderInv'
      BY <1>a, <2>0, <3>1, <3>2 DEF HolderInv, WriterPcs, ReaderPcs
    <3>4. WaitInv'
      BY <1>a, <2>0, <2>2, <3>2 DEF WaitInv, Filling, Emptying, Empty, Full, HolderInv
    <3> QED
      BY <3>3, <3>4
  <2> QED
    BY <2>1, <2>2
<1>4. ASSUME NEW p \in User, WriteDone(p) PROVE IInv'
  <2>1. /\ pc[p] = "write" /\ lock' = None /\ pc' = [WakeIn(pc, "r") EXCEPT ![p] = "idle"]
        /\ UNCHANGED <<nread, nwrite, readopen, writeopen, open, killed>>
    BY <1>4 DEF WriteDone, Return
  <2>2. /\ pc' \in [User -> Pcs]
        /\ \A q \in User : pc'[q] = IF q = p THEN "idle" ELSE
                                    IF pc[q] = "asleep_r" THEN "woken" ELSE pc[q]
    BY <1>a, <2>1, Wakes DEF Pcs
  <2>3. HolderInv'
    BY <1>a, <2>1, <2>2 DEF HolderInv, WriterPcs, ReaderPcs
  <2>4. WaitInv'
    BY <1>a, <2>1, <2>2 DEF WaitInv, Filling, Emptying, Empty, Full, HolderInv
  <2> QED
    BY <2>3, <2>4
<1>5. ASSUME NEW p \in User, Sleep(p) PROVE IInv'
  <2>1. /\ pc[p] \in {"sleep_w", "sleep_r"} /\ lock' = None
        /\ pc' = [pc EXCEPT ![p] = IF p \in Writer THEN "asleep_w" ELSE "asleep_r"]
        /\ UNCHANGED <<nread, nwrite, readopen, writeopen, open, killed>>
    BY <1>5 DEF Sleep
  <2>2. pc[p] = "sleep_w" <=> p \in Writer
    BY <1>a, <1>b, <1>c, <2>1
  <2>3. HolderInv'
    BY <1>a, <2>1 DEF HolderInv, Pcs, WriterPcs, ReaderPcs
  <2>4. WaitInv'
    BY <1>a, <2>1, <2>2 DEF WaitInv, Filling, Emptying, Empty, Full, HolderInv
  <2> QED
    BY <2>3, <2>4
<1>6. ASSUME NEW p \in User, Awake(p) PROVE IInv'
  <2>1. /\ pc[p] = "woken" /\ lock = None /\ lock' = p
        /\ pc' = [pc EXCEPT ![p] = IF p \in Writer THEN "write" ELSE "empty?"]
        /\ UNCHANGED <<nread, nwrite, readopen, writeopen, open, killed>>
    BY <1>6 DEF Awake
  <2>2. HolderInv'
    BY <1>a, <2>1 DEF HolderInv, Pcs, WriterPcs, ReaderPcs
  <2>3. WaitInv'
    BY <1>a, <2>1 DEF WaitInv, Filling, Emptying, Empty, Full, HolderInv
  <2> QED
    BY <2>2, <2>3
<1>7. ASSUME NEW p \in User, ReadEmpty(p) PROVE IInv'
  <2>0. /\ pc[p] = "empty?" /\ p \in Reader
        /\ UNCHANGED <<nread, nwrite, readopen, writeopen, open, killed>>
    BY <1>7, <1>c DEF ReadEmpty
  <2>1. \/ lock' = lock /\ pc' = [pc EXCEPT ![p] = "read"]
        \/ lock' = None /\ pc' = [pc EXCEPT ![p] = "idle"]
        \/ lock' = lock /\ pc' = [pc EXCEPT ![p] = "sleep_r"] /\ Empty /\ writeopen
    BY <1>7 DEF ReadEmpty, Return
  <2>2. HolderInv'
    BY <1>a, <2>0, <2>1 DEF HolderInv, Pcs, WriterPcs, ReaderPcs
  <2>3. WaitInv'
    BY <1>a, <2>0, <2>1 DEF WaitInv, Filling, Emptying, Empty, Full, HolderInv
  <2> QED
    BY <2>2, <2>3
<1>8. ASSUME NEW p \in User, ReadByte(p) PROVE IInv'
  <2>1. /\ pc[p] = "read" /\ ~Empty
        /\ UNCHANGED <<nwrite, readopen, writeopen, lock, pc, open, killed>>
    BY <1>8 DEF ReadByte
  <2>2. HolderInv'
    BY <2>1 DEF HolderInv
  <2>3. \A q \in User : pc[q] \notin {"sleep_r", "sleep_w", "write"}
    BY <1>a, <2>1 DEF HolderInv
  <2>4. WaitInv'
    BY <1>a, <1>c, <2>1, <2>3 DEF WaitInv, Filling, Emptying
  <2> QED
    BY <2>2, <2>4
<1>9. ASSUME NEW p \in User, ReadDone(p) PROVE IInv'
  <2>1. /\ pc[p] = "read" /\ lock' = None /\ pc' = [WakeIn(pc, "w") EXCEPT ![p] = "idle"]
        /\ UNCHANGED <<nread, nwrite, readopen, writeopen, open, killed>>
    BY <1>9 DEF ReadDone, Return
  <2>2. /\ pc' \in [User -> Pcs]
        /\ \A q \in User : pc'[q] = IF q = p THEN "idle" ELSE
                                    IF pc[q] = "asleep_w" THEN "woken" ELSE pc[q]
    BY <1>a, <2>1, Wakes DEF Pcs
  <2>3. HolderInv'
    BY <1>a, <2>1, <2>2 DEF HolderInv, WriterPcs, ReaderPcs
  <2>4. WaitInv'
    BY <1>a, <2>1, <2>2 DEF WaitInv, Filling, Emptying, Empty, Full, HolderInv
  <2> QED
    BY <2>3, <2>4
<1>10. ASSUME NEW p \in User, pipeclose(p) PROVE IInv'
  <2>1. /\ pc[p] = "idle" /\ p \in open /\ lock = None /\ open' = open \ {p}
        /\ readopen' = (open' \cap Reader # {}) /\ writeopen' = (open' \cap Writer # {})
        /\ UNCHANGED <<nread, nwrite, lock, killed>>
    BY <1>10 DEF pipeclose
  <2>2. /\ pc' \in [User -> Pcs]
        /\ \A q \in User : pc'[q] = pc[q] \/ (pc[q] \in {"asleep_r", "asleep_w"} /\ pc'[q] = "woken")
        /\ (writeopen /\ ~writeopen') => \A q \in User : pc'[q] # "asleep_r"
        /\ (readopen /\ ~readopen') => \A q \in User : pc'[q] # "asleep_w"
    <3>1. CASE p \in Writer
      <4>1. open' \cap Reader = open \cap Reader
        BY <1>a, <2>1, <3>1
      <4>2. readopen' = readopen
        BY <2>1, <4>1 DEF HolderInv
      <4>3. pc' = IF writeopen' # writeopen THEN WakeIn(pc, "r") ELSE pc
        BY <1>10, <4>2 DEF pipeclose, CloseWoken
      <4>4. CASE writeopen' # writeopen
        BY <1>a, <4>2, <4>3, <4>4, Wakes
      <4>5. CASE writeopen' = writeopen
        BY <1>a, <4>2, <4>3, <4>5
      <4> QED
        BY <4>4, <4>5
    <3>2. CASE p \in Reader
      <4>1. open' \cap Writer = open \cap Writer
        BY <1>a, <2>1, <3>2
      <4>2. writeopen' = writeopen
        BY <2>1, <4>1 DEF HolderInv
      <4>3. pc' = IF readopen' # readopen THEN WakeIn(pc, "w") ELSE pc
        BY <1>10, <4>2 DEF pipeclose, CloseWoken
      <4>4. CASE readopen' # readopen
        BY <1>a, <4>2, <4>3, <4>4, Wakes
      <4>5. CASE readopen' = readopen
        BY <1>a, <4>2, <4>3, <4>5
      <4> QED
        BY <4>4, <4>5
    <3> QED
      BY <1>a, <3>1, <3>2
  <2>3. HolderInv'
    BY <1>a, <2>1, <2>2 DEF HolderInv, WriterPcs, ReaderPcs
  <2>4. WaitInv'
    BY <1>a, <1>b, <1>c, <2>1, <2>2 DEF WaitInv, Filling, Emptying, Empty, Full, HolderInv
  <2> QED
    BY <2>3, <2>4
<1>11. ASSUME NEW p \in User, Kill(p) PROVE IInv'
  <2>1. /\ killed' = killed \cup {p}
        /\ pc' = [pc EXCEPT ![p] = IF @ \in {"asleep_r", "asleep_w"} THEN "woken" ELSE @]
        /\ UNCHANGED <<nread, nwrite, readopen, writeopen, lock, open>>
    BY <1>11 DEF Kill
  <2>2. HolderInv'
    BY <1>a, <2>1 DEF HolderInv, Pcs, WriterPcs, ReaderPcs
  <2>3. WaitInv'
    BY <1>a, <2>1 DEF WaitInv, Filling, Emptying, Empty, Full
  <2> QED
    BY <2>2, <2>3
<1>12. CASE UNCHANGED vars
  BY <1>12 DEF vars, HolderInv, WaitInv, Filling, Emptying, Empty, Full
<1> QED
  BY <1>1, <1>2, <1>3, <1>4, <1>5, <1>6, <1>7, <1>8, <1>9, <1>10, <1>11, <1>12 DEF Next, Step

\* Whoever sleeps in piperead() or pipewrite() while nobody holds p->lock has a
\* reason to, unless a writer was killed with the pipe full.
THEOREM NoWakeupIsMissed == ASSUME PipeAssumption PROVE Spec => []NoMissedWakeup
<1>1. Init => IInv
  BY IInvInit
<1>2. IInv /\ [Next]_vars => IInv'
  BY IInvStep
<1>3. IInv => NoMissedWakeup
  <2>1. ASSUME IInv, lock = None PROVE ~Filling /\ ~Emptying
    BY <2>1 DEF IInv, HolderInv, Filling, Emptying, Holding, PipeAssumption, User
  <2> QED
    BY <2>1 DEF IInv, WaitInv, NoMissedWakeup
<1> QED
  BY <1>1, <1>2, <1>3, PTL DEF Spec

=============================================================================
