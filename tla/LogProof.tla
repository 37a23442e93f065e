------------------------------ MODULE LogProof ------------------------------
(***************************************************************************)
(* For any number of processes and blocks and any size of the log: as long *)
(* as operations keep to the space begin_op() reserves for them, the log   *)
(* makes them atomic with respect to crashes, and no caller of begin_op()  *)
(* is left asleep.                                                         *)
(***************************************************************************)
EXTENDS Log, FiniteSetTheorems, TLAPS

ActivePcs == {"op", "log_write", "panic"}
CommitPcs == {"write_log", "write_head", "install_trans", "clear_head", "end"}
InstallPcs == {"install_trans", "clear_head"}

Active == {p \in Proc : pc[p] \in ActivePcs}

InLog(b) == \E i \in 1 .. Len(lh) : lh[i] = b

\* log.outstanding counts the operations in progress, and commit() runs alone.
CommitInv ==
    /\ outstanding = Cardinality(Active)
    /\ \A p, q \in Proc : pc[p] \in CommitPcs /\ pc[q] \in CommitPcs => p = q
    /\ committing <=> \E p \in Proc : pc[p] \in CommitPcs
    /\ committing => Active = {}

\* A header names a block once, and fits the log.
NamesInv ==
    /\ \A i, j \in 1 .. Len(lh) : lh[i] = lh[j] => i = j
    /\ \A i, j \in 1 .. Len(head) : head[i] = head[j] => i = j
    /\ Len(head) <= LOGSIZE

\* How far commit() has come.
PhaseInv == \A p \in Proc :
    /\ pc[p] = "write_log" => /\ tail <= Len(lh)
                              /\ \A i \in 1 .. tail - 1 : logdisk[i] = mem[lh[i]]
    /\ pc[p] \in {"write_head"} \cup InstallPcs =>
            \A i \in 1 .. Len(lh) : logdisk[i] = mem[lh[i]]
    /\ pc[p] = "write_head" => tail = 1 /\ Len(lh) > 0
    /\ pc[p] \in InstallPcs => head = lh
    /\ pc[p] = "install_trans" => /\ tail <= Len(lh)
                                  /\ \A i \in 1 .. tail - 1 : disk[lh[i]] = logdisk[i]
    /\ pc[p] = "clear_head" => \A i \in 1 .. Len(lh) : disk[lh[i]] = logdisk[i]
    /\ pc[p] = "end" => lh = <<>>

\* Outside commit() the log on the disk is empty, and every block of the log is
\* pinned until install_trans() has written it home.
PinInv ==
    /\ running = "up" /\ (\A p \in Proc : pc[p] \notin InstallPcs) =>
            head = <<>> /\ \A i \in 1 .. Len(lh) : lh[i] \in dirty
    /\ \A p \in Proc : pc[p] = "install_trans" => \A i \in tail .. Len(lh) : lh[i] \in dirty

\* A block that is neither logged nor in somebody's hands is on the disk.
CacheInv ==
    running = "up" => \A b \in Block :
        ~InLog(b) /\ (\A p \in Proc : b \notin held[p]) => mem[b] = disk[b]

HeldInv == \A p \in Proc :
    /\ pc[p] \notin {"log_write", "panic"} => held[p] = {}
    /\ \A b, c \in held[p] : b = c

\* How far the recovery has come.
RecoverInv ==
    /\ running # "up" => \A p \in Proc : pc[p] = "idle"
    /\ running = "read_head" => tail = 1
    /\ running = "install" => /\ lh = head /\ tail <= Len(lh)
                              /\ \A i \in 1 .. tail - 1 : disk[head[i]] = logdisk[i]
    /\ running = "clear" => \A i \in 1 .. Len(head) : disk[head[i]] = logdisk[i]

IInv ==
    /\ TypeOK /\ CommitInv /\ NamesInv /\ PhaseInv /\ PinInv /\ CacheInv /\ HeldInv /\ RecoverInv

\* With nobody in an operation and nobody in commit() the log is empty, and
\* a sleeper's reason to sleep still stands.
SleepInv ==
    /\ running = "up" /\ Active = {} /\ ~committing => lh = <<>>
    /\ \A p \in Proc : pc[p] = "asleep" => committing \/ MightExhaust

-----------------------------------------------------------------------------
\* The inductive invariant holds when the file system is mounted.
LEMMA IInvInit == ASSUME LogAssumption PROVE Init => IInv /\ SleepInv
<1> SUFFICES ASSUME Init PROVE IInv /\ SleepInv
  OBVIOUS
<1> USE LogAssumption DEF LogAssumption, Init
<1>1. TypeOK
  <2>1. head \in Seq(Block) /\ lh \in Seq(Block) /\ tail \in 1 .. LOGSIZE
    OBVIOUS
  <2>2. /\ disk \in [Block -> Val] /\ logdisk \in [1 .. LOGSIZE -> Val] /\ mem \in [Block -> Val]
        /\ pc \in [Proc -> Pcs]
    BY DEF Pcs
  <2>3. held \in [Proc -> SUBSET Block] /\ written \in [Proc -> SUBSET Block]
    OBVIOUS
  <2> QED
    BY <2>1, <2>2, <2>3 DEF TypeOK
<1>2. Active = {}
  BY DEF Active, ActivePcs
<1>3. CommitInv
  BY <1>2, FS_EmptySet DEF CommitInv, CommitPcs
<1>4. NamesInv /\ PhaseInv /\ PinInv /\ CacheInv /\ HeldInv /\ RecoverInv
  BY DEF NamesInv, PhaseInv, PinInv, CacheInv, HeldInv, RecoverInv, InstallPcs
<1>5. SleepInv
  BY DEF SleepInv
<1> QED
  BY <1>1, <1>3, <1>4, <1>5 DEF IInv

\* Steps that leave operations, commit() and the log alone: a caller that comes to
\* begin_op(), or goes to sleep there.
LEMMA QuietStep ==
    ASSUME LogAssumption, IInv, NEW p \in Proc, NEW l \in {"begin", "asleep"},
           pc[p] \in {"idle", "begin"}, running = "up", pc' = [pc EXCEPT ![p] = l],
           UNCHANGED <<diskVars, mem, dirty, lh, outstanding, committing, held, written, tail, running>>
    PROVE  IInv' /\ Active' = Active
<1> USE DEF IInv, diskVars
<1>1. TypeOK'
  BY DEF TypeOK, Pcs
<1>2. \A q \in Proc : pc'[q] = pc[q] \/ (q = p /\ pc'[q] = l)
  BY DEF TypeOK
<1>3. Active' = Active
  BY <1>2 DEF Active, ActivePcs, TypeOK
<1>4. CommitInv'
  BY <1>2, <1>3 DEF CommitInv, CommitPcs, TypeOK
<1>5. NamesInv' /\ CacheInv'
  BY DEF NamesInv, CacheInv, InLog
<1>6. PhaseInv' /\ HeldInv' /\ RecoverInv'
  BY <1>2 DEF PhaseInv, InstallPcs, HeldInv, RecoverInv
<1>7. PinInv'
  BY <1>2 DEF PinInv, InstallPcs, TypeOK
<1> QED
  BY <1>1, <1>3, <1>4, <1>5, <1>6, <1>7

\* begin_op() admits an operation.
LEMMA BeginStep ==
    ASSUME LogAssumption, IInv, NEW p \in Proc, begin_op(p), ~committing, ~MightExhaust
    PROVE  IInv' /\ Active' = Active \cup {p} /\ p \notin Active
<1> USE DEF IInv, diskVars
<1>1. /\ running = "up" /\ pc[p] = "begin" /\ pc' = [pc EXCEPT ![p] = "op"]
      /\ outstanding' = outstanding + 1
      /\ UNCHANGED <<disk, logdisk, head, mem, dirty, lh, committing, held, written, tail, running>>
  BY DEF begin_op, Goto, Admitted
<1>2. TypeOK'
  BY <1>1 DEF TypeOK, Pcs
<1>3. \A q \in Proc : pc'[q] = IF q = p THEN "op" ELSE pc[q]
  BY <1>1 DEF TypeOK
<1>4. Active' = Active \cup {p} /\ p \notin Active
  BY <1>1, <1>3 DEF Active, ActivePcs, TypeOK
<1>5. IsFiniteSet(Active)
  BY FS_Subset DEF Active, LogAssumption
<1>6. outstanding' = Cardinality(Active')
  BY <1>1, <1>4, <1>5, FS_AddElement DEF CommitInv
<1>7. CommitInv'
  BY <1>1, <1>3, <1>4, <1>6 DEF CommitInv, CommitPcs
<1>8. NamesInv' /\ CacheInv'
  BY <1>1 DEF NamesInv, CacheInv, InLog
<1>9. PhaseInv' /\ HeldInv' /\ RecoverInv'
  BY <1>1, <1>3 DEF PhaseInv, InstallPcs, HeldInv, RecoverInv
<1>10. PinInv'
  BY <1>1, <1>3 DEF PinInv, InstallPcs
<1> QED
  BY <1>2, <1>4, <1>7, <1>8, <1>9, <1>10

\* While an operation is in progress nobody commits.
LEMMA NoCommit ==
    ASSUME IInv, NEW p \in Proc, pc[p] \in ActivePcs
    PROVE  /\ ~committing /\ \A q \in Proc : pc[q] \notin CommitPcs
           /\ running = "up" /\ head = <<>> /\ \A i \in 1 .. Len(lh) : lh[i] \in dirty
<1>1. p \in Active
  BY DEF Active
<1>2. ~committing /\ \A q \in Proc : pc[q] \notin CommitPcs
  BY <1>1 DEF IInv, CommitInv
<1>3. running = "up"
  BY DEF IInv, RecoverInv, ActivePcs
<1> QED
  BY <1>2, <1>3 DEF IInv, PinInv, CommitPcs, InstallPcs

\* An operation changes a block.
LEMMA ModifyStep ==
    ASSUME LogAssumption, IInv, NEW p \in Proc, NEW b \in Block, NEW v \in Val, Modify(p, b, v)
    PROVE  IInv' /\ Active' = Active /\ p \in Active
<1> USE DEF IInv, diskVars
<1> DEFINE l == IF Full THEN "panic" ELSE "log_write"
<1>1. /\ running = "up" /\ pc[p] = "op" /\ pc' = [pc EXCEPT ![p] = l]
      /\ mem' = [mem EXCEPT ![b] = v] /\ held' = [held EXCEPT ![p] = {b}]
      /\ written' = [written EXCEPT ![p] = @ \cup {b}]
      /\ UNCHANGED <<disk, logdisk, head, dirty, lh, outstanding, committing, tail, running>>
  BY DEF Modify, Goto
<1>2. l \in {"panic", "log_write"}
  OBVIOUS
<1> HIDE DEF l
<1>3. TypeOK'
  BY <1>1, <1>2 DEF TypeOK, Pcs
<1>4. \A q \in Proc : /\ pc'[q] = IF q = p THEN l ELSE pc[q]
                      /\ held'[q] = IF q = p THEN {b} ELSE held[q]
  BY <1>1 DEF TypeOK
<1>5. Active' = Active /\ p \in Active
  BY <1>1, <1>2, <1>4 DEF Active, ActivePcs
<1>6. \A q \in Proc : pc[q] \notin CommitPcs /\ pc'[q] \notin CommitPcs
  BY <1>1, <1>2, <1>4, NoCommit DEF CommitPcs, ActivePcs
<1>7. CommitInv'
  BY <1>1, <1>5, <1>6 DEF CommitInv
<1>8. NamesInv'
  BY <1>1 DEF NamesInv
<1>9. PhaseInv'
  BY <1>6 DEF PhaseInv, CommitPcs, InstallPcs
<1>10. PinInv'
  BY <1>1, <1>6 DEF PinInv, CommitPcs, InstallPcs
<1>11. CacheInv'
  <2> SUFFICES ASSUME NEW c \in Block, ~InLog(c)', \A q \in Proc : c \notin held'[q]
               PROVE  mem'[c] = disk'[c]
    BY <1>1 DEF CacheInv
  <2>1. c # b /\ ~InLog(c) /\ \A q \in Proc : c \notin held[q]
    BY <1>1, <1>4, HeldInv, pc[p] = "op" DEF HeldInv, InLog
  <2> QED
    BY <2>1, <1>1 DEF CacheInv, TypeOK
<1>12. HeldInv'
  BY <1>2, <1>4 DEF HeldInv
<1>13. RecoverInv'
  BY <1>1 DEF RecoverInv
<1> QED
  BY <1>3, <1>5, <1>7, <1>8, <1>9, <1>10, <1>11, <1>12, <1>13

\* log_write() records the block once, and pins it.
LEMMA LogWriteStep ==
    ASSUME LogAssumption, IInv, NEW p \in Proc, log_write(p)
    PROVE  IInv' /\ Active' = Active /\ p \in Active /\ Len(lh') >= Len(lh)
<1> USE DEF IInv, diskVars
<1>1. PICK b \in held[p] : lh' = Absorb(b) /\ dirty' = dirty \cup {b}
  BY DEF log_write, Pinned
<1>2. /\ running = "up" /\ pc[p] = "log_write" /\ pc' = [pc EXCEPT ![p] = "op"]
      /\ held' = [held EXCEPT ![p] = {}]
      /\ UNCHANGED <<disk, logdisk, head, mem, outstanding, committing, written, tail, running>>
  BY DEF log_write, Goto
<1>3. b \in Block /\ lh \in Seq(Block)
  BY DEF TypeOK
<1>4. /\ lh' \in Seq(Block) /\ Len(lh') >= Len(lh)
      /\ \A i \in 1 .. Len(lh) : lh'[i] = lh[i]
      /\ \A i \in 1 .. Len(lh') : lh'[i] = b \/ (i \in 1 .. Len(lh) /\ lh'[i] = lh[i])
      /\ \E i \in 1 .. Len(lh') : lh'[i] = b
  <2>1. CASE \E i \in 1 .. Len(lh) : lh[i] = b
    BY <1>1, <1>3, <2>1 DEF Absorb
  <2>2. CASE ~ \E i \in 1 .. Len(lh) : lh[i] = b
    BY <1>1, <1>3, <2>2 DEF Absorb
  <2> QED
    BY <2>1, <2>2
<1>5. \A i, j \in 1 .. Len(lh') : lh'[i] = lh'[j] => i = j
  <2>1. CASE \E i \in 1 .. Len(lh) : lh[i] = b
    BY <1>1, <2>1 DEF Absorb, NamesInv
  <2>2. CASE ~ \E i \in 1 .. Len(lh) : lh[i] = b
    <3>1. lh' = Append(lh, b) /\ Len(lh') = Len(lh) + 1
      BY <1>1, <1>3, <2>2 DEF Absorb
    <3> QED
      BY <1>3, <2>2, <3>1 DEF NamesInv
  <2> QED
    BY <2>1, <2>2
<1>6. TypeOK'
  BY <1>1, <1>2, <1>3, <1>4 DEF TypeOK, Pcs
<1>7. \A q \in Proc : /\ pc'[q] = IF q = p THEN "op" ELSE pc[q]
                      /\ held'[q] = IF q = p THEN {} ELSE held[q]
  BY <1>2 DEF TypeOK
<1>8. Active' = Active /\ p \in Active
  BY <1>2, <1>7 DEF Active, ActivePcs
<1>9. \A q \in Proc : pc[q] \notin CommitPcs /\ pc'[q] \notin CommitPcs
  BY <1>2, <1>7, NoCommit DEF CommitPcs, ActivePcs
<1>10. CommitInv'
  BY <1>2, <1>8, <1>9 DEF CommitInv
<1>11. NamesInv'
  BY <1>2, <1>5 DEF NamesInv
<1>12. PhaseInv'
  BY <1>9 DEF PhaseInv, CommitPcs, InstallPcs
<1>13. PinInv'
  <2>1. head = <<>> /\ \A i \in 1 .. Len(lh) : lh[i] \in dirty
    BY <1>2, NoCommit DEF ActivePcs
  <2>2. \A i \in 1 .. Len(lh') : lh'[i] \in dirty'
    BY <1>1, <1>4, <2>1
  <2> QED
    BY <1>2, <1>9, <2>1, <2>2 DEF PinInv, CommitPcs
<1>14. CacheInv'
  <2> SUFFICES ASSUME NEW c \in Block, ~InLog(c)', \A q \in Proc : c \notin held'[q]
               PROVE  mem'[c] = disk'[c]
    BY DEF CacheInv
  <2>1. c # b /\ ~InLog(c)
    BY <1>4 DEF InLog
  <2>2. \A q \in Proc : c \notin held[q]
    BY <1>7, <2>1 DEF HeldInv
  <2> QED
    BY <1>2, <2>1, <2>2 DEF CacheInv
<1>15. HeldInv'
  BY <1>7 DEF HeldInv
<1>16. RecoverInv'
  BY <1>2 DEF RecoverInv
<1> QED
  BY <1>4, <1>6, <1>8, <1>10, <1>11, <1>12, <1>13, <1>14, <1>15, <1>16

\* What wakeup(&log) leaves alone.
LEMMA WakeAllPcs ==
    ASSUME NEW f \in [Proc -> Pcs]
    PROVE  /\ WakeAll(f) \in [Proc -> Pcs]
           /\ \A q \in Proc : WakeAll(f)[q] = IF f[q] = "asleep" THEN "begin" ELSE f[q]
BY DEF WakeAll, Pcs

\* end_op(): the last one out commits, or finds nothing to commit.
LEMMA EndStep ==
    ASSUME LogAssumption, IInv, NEW p \in Proc, end_op(p)
    PROVE  IInv' /\ Active' = Active \ {p} /\ p \in Active
<1> USE DEF IInv, diskVars
<1>1. /\ running = "up" /\ pc[p] = "op" /\ outstanding' = outstanding - 1
      /\ written' = [written EXCEPT ![p] = {}] /\ committing' = (outstanding = 1) /\ tail' = 1
      /\ UNCHANGED <<disk, logdisk, head, mem, dirty, lh, held, running>>
  BY DEF end_op, LastOut
<1>2. /\ pc' \in [Proc -> Pcs]
      /\ \A q \in Proc \ {p} :
            pc'[q] = IF pc[q] = "asleep" /\ outstanding # 1 THEN "begin" ELSE pc[q]
      /\ pc'[p] = IF outstanding # 1 THEN "idle" ELSE IF lh = <<>> THEN "end" ELSE "write_log"
  <2>1. CASE outstanding = 1
    BY <1>1, <2>1 DEF end_op, LastOut, Goto, TypeOK, Pcs
  <2>2. CASE outstanding # 1
    <3>1. pc' = WakeAll([pc EXCEPT ![p] = "idle"]) /\ [pc EXCEPT ![p] = "idle"] \in [Proc -> Pcs]
      BY <1>1, <2>2 DEF end_op, LastOut, TypeOK, Pcs
    <3> QED
      BY <2>2, <3>1, WakeAllPcs DEF TypeOK
  <2> QED
    BY <2>1, <2>2
<1>3. /\ committing = FALSE /\ head = <<>>
      /\ \A q \in Proc : pc[q] \notin CommitPcs
      /\ \A i \in 1 .. Len(lh) : lh[i] \in dirty
  BY <1>1, NoCommit DEF ActivePcs
<1>4. Active' = Active \ {p} /\ p \in Active
  BY <1>1, <1>2 DEF Active, ActivePcs
<1>5. IsFiniteSet(Active)
  BY FS_Subset DEF Active, LogAssumption
<1>6. outstanding' = Cardinality(Active') /\ IsFiniteSet(Active')
  BY <1>1, <1>4, <1>5, FS_RemoveElement, FS_CardinalityType DEF CommitInv
<1>7. outstanding = 1 => Active' = {}
  BY <1>1, <1>6, FS_EmptySet
<1>8. TypeOK'
  <2>1. outstanding' \in Nat
    BY <1>6, FS_CardinalityType
  <2>2. committing' \in BOOLEAN
    BY <1>1
  <2>3. tail' \in 1 .. LOGSIZE
    BY <1>1 DEF LogAssumption
  <2> QED
    BY <1>1, <1>2, <2>1, <2>2, <2>3 DEF TypeOK
<1>9. CommitInv'
  BY <1>1, <1>2, <1>3, <1>6, <1>7 DEF CommitInv, CommitPcs
<1>10. NamesInv' /\ CacheInv'
  BY <1>1 DEF NamesInv, CacheInv, InLog
<1>11. PhaseInv'
  <2>1. \A q \in Proc : pc'[q] \in CommitPcs =>
            q = p /\ pc'[q] = IF lh = <<>> THEN "end" ELSE "write_log"
    BY <1>2, <1>3 DEF CommitPcs
  <2>2. lh # <<>> => Len(lh) >= 1
    BY DEF TypeOK
  <2> QED
    BY <1>1, <2>1, <2>2 DEF PhaseInv, CommitPcs, InstallPcs
<1>12. PinInv'
  BY <1>1, <1>2, <1>3 DEF PinInv, CommitPcs, InstallPcs
<1>13. HeldInv'
  BY <1>1, <1>2 DEF HeldInv
<1>14. RecoverInv'
  BY <1>1 DEF RecoverInv
<1> QED
  BY <1>4, <1>8, <1>9, <1>10, <1>11, <1>12, <1>13, <1>14

\* A committer is alone: nobody is in an operation or holds a buffer.
LEMMA Committer ==
    ASSUME IInv, NEW p \in Proc, pc[p] \in CommitPcs
    PROVE  /\ committing /\ Active = {} /\ running = "up"
           /\ \A q \in Proc : pc[q] \in CommitPcs => q = p
           /\ \A q \in Proc : held[q] = {}
<1>1. committing /\ Active = {} /\ \A q \in Proc : pc[q] \in CommitPcs => q = p
  BY DEF IInv, CommitInv
<1>2. running = "up"
  BY DEF IInv, RecoverInv, CommitPcs
<1>3. \A q \in Proc : held[q] = {}
  BY <1>1 DEF IInv, HeldInv, Active, ActivePcs
<1> QED
  BY <1>1, <1>2, <1>3

\* A step of commit() to the pc l, as far as the other processes see it.
LEMMA CommitterMoves ==
    ASSUME LogAssumption, IInv, NEW p \in Proc, pc[p] \in CommitPcs, NEW l \in CommitPcs,
           pc' = [pc EXCEPT ![p] = l], UNCHANGED <<outstanding, committing, held, running>>
    PROVE  /\ \A q \in Proc : pc'[q] = IF q = p THEN l ELSE pc[q]
           /\ \A q \in Proc : pc'[q] \in CommitPcs => q = p
           /\ Active' = Active /\ CommitInv' /\ HeldInv' /\ running' = "up" /\ RecoverInv'
           /\ pc' \in [Proc -> Pcs]
<1>1. \A q \in Proc : pc'[q] = IF q = p THEN l ELSE pc[q]
  BY DEF IInv, TypeOK
<1>2. /\ committing /\ Active = {} /\ running = "up"
      /\ \A q \in Proc : pc[q] \in CommitPcs => q = p
      /\ \A q \in Proc : held[q] = {}
  BY Committer
<1>3. Active' = Active
  BY <1>1 DEF Active, ActivePcs, CommitPcs
<1>4. CommitInv'
  BY <1>1, <1>2, <1>3 DEF IInv, CommitInv
<1>5. HeldInv' /\ RecoverInv'
  BY <1>2 DEF HeldInv, RecoverInv
<1>6. pc' \in [Proc -> Pcs]
  BY DEF IInv, TypeOK, Pcs, CommitPcs
<1> QED
  BY <1>1, <1>2, <1>3, <1>4, <1>5, <1>6

\* One block of write_log().
LEMMA WriteLogStep ==
    ASSUME LogAssumption, IInv, LogFits, NEW p \in Proc, write_log(p)
    PROVE  IInv' /\ Active' = Active /\ committing /\ head = <<>>
<1> USE DEF IInv
<1> DEFINE l == IF tail = Len(lh) THEN "write_head" ELSE "write_log"
<1>1. /\ pc[p] = "write_log" /\ pc' = [pc EXCEPT ![p] = l]
      /\ logdisk' = [logdisk EXCEPT ![tail] = mem[lh[tail]]]
      /\ tail' = IF tail = Len(lh) THEN 1 ELSE tail + 1
      /\ UNCHANGED <<disk, head, mem, dirty, lh, outstanding, committing, held, written, running>>
  BY DEF write_log, Goto, TypeOK
<1>2. /\ committing /\ running = "up" /\ \A q \in Proc : pc[q] \in CommitPcs => q = p
      /\ \A q \in Proc : held[q] = {}
  BY <1>1, Committer DEF CommitPcs
<1>3. l \in {"write_head", "write_log"}
  OBVIOUS
<1>4. /\ \A q \in Proc : pc'[q] = IF q = p THEN l ELSE pc[q]
      /\ \A q \in Proc : pc'[q] \in CommitPcs => q = p
      /\ Active' = Active /\ CommitInv' /\ HeldInv' /\ RecoverInv' /\ pc' \in [Proc -> Pcs]
  BY <1>1, <1>3, CommitterMoves DEF CommitPcs
<1>5. /\ tail \in 1 .. Len(lh) /\ Len(lh) <= LOGSIZE /\ Len(lh) \in Nat
      /\ \A i \in 1 .. tail - 1 : logdisk[i] = mem[lh[i]]
  BY <1>1 DEF PhaseInv, TypeOK, LogFits, LogAssumption
<1>6. \A i \in 1 .. tail : logdisk'[i] = mem[lh[i]]
  BY <1>1, <1>5 DEF TypeOK, LogAssumption
<1>7. TypeOK'
  <2>1. lh[tail] \in Block /\ mem[lh[tail]] \in Val
    BY <1>5 DEF TypeOK
  <2>2. logdisk' \in [1 .. LOGSIZE -> Val] /\ tail' \in 1 .. LOGSIZE
    BY <1>1, <1>5, <2>1 DEF TypeOK, LogAssumption
  <2> QED
    BY <1>1, <1>4, <2>2 DEF TypeOK
<1>8. NamesInv' /\ CacheInv'
  BY <1>1 DEF NamesInv, CacheInv, InLog
<1>9. PhaseInv'
  BY <1>1, <1>4, <1>5, <1>6 DEF PhaseInv, CommitPcs, InstallPcs
<1>10. /\ head = <<>> /\ \A i \in 1 .. Len(lh) : lh[i] \in dirty
  BY <1>1, <1>2 DEF PinInv, CommitPcs, InstallPcs
<1>11. PinInv'
  BY <1>1, <1>3, <1>4, <1>10 DEF PinInv, CommitPcs, InstallPcs
<1> QED
  BY <1>2, <1>4, <1>7, <1>8, <1>9, <1>10, <1>11

\* write_head(): the log on the disk becomes the transaction.
LEMMA WriteHeadStep ==
    ASSUME LogAssumption, IInv, LogFits, NEW p \in Proc, write_head(p)
    PROVE  IInv' /\ Active' = Active /\ committing
<1> USE DEF IInv
<1>1. /\ pc[p] = "write_head" /\ pc' = [pc EXCEPT ![p] = "install_trans"] /\ head' = lh
      /\ UNCHANGED <<disk, logdisk, mem, dirty, lh, outstanding, committing, held, written, tail,
                     running>>
  BY DEF write_head, Goto
<1>2. committing /\ running = "up" /\ \A q \in Proc : pc[q] \in CommitPcs => q = p
  BY <1>1, Committer DEF CommitPcs
<1>3. /\ \A q \in Proc : pc'[q] = IF q = p THEN "install_trans" ELSE pc[q]
      /\ \A q \in Proc : pc'[q] \in CommitPcs => q = p
      /\ Active' = Active /\ CommitInv' /\ HeldInv' /\ RecoverInv' /\ pc' \in [Proc -> Pcs]
  BY <1>1, CommitterMoves DEF CommitPcs
<1>4. TypeOK'
  BY <1>1, <1>3 DEF TypeOK
<1>5. NamesInv' /\ CacheInv'
  BY <1>1 DEF NamesInv, CacheInv, InLog, LogFits
<1>6. /\ \A i \in 1 .. Len(lh) : lh[i] \in dirty /\ logdisk[i] = mem[lh[i]]
      /\ tail = 1 /\ Len(lh) \in Nat /\ Len(lh) > 0
  BY <1>1, <1>2 DEF PinInv, PhaseInv, CommitPcs, InstallPcs, TypeOK
<1>7. PhaseInv'
  BY <1>1, <1>3, <1>6 DEF PhaseInv, CommitPcs, InstallPcs
<1>8. PinInv'
  BY <1>1, <1>3, <1>6 DEF PinInv, CommitPcs, InstallPcs
<1> QED
  BY <1>2, <1>3, <1>4, <1>5, <1>7, <1>8

\* One block of install_trans(): the cache does not change.
LEMMA InstallStep ==
    ASSUME LogAssumption, IInv, LogFits, NEW p \in Proc, install_trans(p)
    PROVE  /\ IInv' /\ Active' = Active /\ committing /\ mem' = mem
           /\ tail \in 1 .. Len(head) /\ head = lh
<1> USE DEF IInv
<1> DEFINE l == IF tail = Len(lh) THEN "clear_head" ELSE "install_trans"
<1>1. /\ pc[p] = "install_trans" /\ pc' = [pc EXCEPT ![p] = l]
      /\ disk' = [disk EXCEPT ![lh[tail]] = logdisk[tail]]
      /\ mem' = [mem EXCEPT ![lh[tail]] = logdisk[tail]]
      /\ dirty' = dirty \ {lh[tail]}
      /\ tail' = IF tail = Len(lh) THEN 1 ELSE tail + 1
      /\ UNCHANGED <<logdisk, head, lh, outstanding, committing, held, written, running>>
  BY DEF install_trans, Goto, TypeOK
<1>2. /\ committing /\ running = "up" /\ \A q \in Proc : pc[q] \in CommitPcs => q = p
      /\ \A q \in Proc : held[q] = {}
  BY <1>1, Committer DEF CommitPcs
<1>3. l \in {"clear_head", "install_trans"}
  OBVIOUS
<1>4. /\ \A q \in Proc : pc'[q] = IF q = p THEN l ELSE pc[q]
      /\ \A q \in Proc : pc'[q] \in CommitPcs => q = p
      /\ Active' = Active /\ CommitInv' /\ HeldInv' /\ RecoverInv' /\ pc' \in [Proc -> Pcs]
  BY <1>1, <1>3, CommitterMoves DEF CommitPcs
<1>5. /\ tail \in 1 .. Len(lh) /\ Len(lh) <= LOGSIZE /\ Len(lh) \in Nat /\ head = lh
      /\ \A i \in 1 .. Len(lh) : logdisk[i] = mem[lh[i]] /\ lh[i] \in Block
      /\ \A i \in 1 .. tail - 1 : disk[lh[i]] = logdisk[i]
      /\ \A i \in tail .. Len(lh) : lh[i] \in dirty
  BY <1>1 DEF PhaseInv, PinInv, InstallPcs, TypeOK, LogFits, LogAssumption
<1>6. mem' = mem
  BY <1>1, <1>5 DEF TypeOK
<1>7. \A i \in 1 .. tail : disk'[lh[i]] = logdisk[i]
  BY <1>1, <1>5, SMTT(30) DEF TypeOK, NamesInv
<1>8. TypeOK'
  <2>1. logdisk[tail] \in Val
    BY <1>5 DEF TypeOK, LogAssumption
  <2>2. disk' \in [Block -> Val] /\ tail' \in 1 .. LOGSIZE
    BY <1>1, <1>5, <2>1, SMTT(30) DEF TypeOK, LogAssumption
  <2> QED
    BY <1>1, <1>4, <1>6, <2>2 DEF TypeOK
<1>9. NamesInv'
  BY <1>1 DEF NamesInv
<1>10. CacheInv'
  <2> SUFFICES ASSUME NEW c \in Block, ~InLog(c)' PROVE mem'[c] = disk'[c]
    BY DEF CacheInv
  <2>1. c # lh[tail] /\ ~InLog(c)
    BY <1>1, <1>5 DEF InLog
  <2> QED
    BY <1>1, <1>2, <1>6, <2>1 DEF CacheInv, TypeOK
<1>11. PhaseInv'
  BY <1>1, <1>4, <1>5, <1>6, <1>7, SMTT(30) DEF PhaseInv, CommitPcs, InstallPcs
<1>12. PinInv'
  <2>1. \A i \in tail + 1 .. Len(lh) : lh[i] \in dirty'
    BY <1>1, <1>5 DEF NamesInv
  <2> QED
    BY <1>1, <1>3, <1>4, <1>5, <2>1 DEF PinInv, CommitPcs, InstallPcs
<1> QED
  BY <1>2, <1>4, <1>5, <1>6, <1>8, <1>9, <1>10, <1>11, <1>12

\* The second write_head(): the transaction is home, the log is erased.
LEMMA ClearHeadStep ==
    ASSUME LogAssumption, IInv, NEW p \in Proc, clear_head(p)
    PROVE  /\ IInv' /\ Active' = Active /\ committing /\ head' = <<>>
           /\ \A i \in 1 .. Len(head) : disk[head[i]] = logdisk[i]
<1> USE DEF IInv
<1>1. /\ pc[p] = "clear_head" /\ pc' = [pc EXCEPT ![p] = "end"] /\ head' = <<>> /\ lh' = <<>>
      /\ UNCHANGED <<disk, logdisk, mem, dirty, outstanding, committing, held, written, tail,
                     running>>
  BY DEF clear_head, Goto
<1>2. /\ committing /\ running = "up" /\ \A q \in Proc : pc[q] \in CommitPcs => q = p
      /\ \A q \in Proc : held[q] = {}
  BY <1>1, Committer DEF CommitPcs
<1>3. /\ \A q \in Proc : pc'[q] = IF q = p THEN "end" ELSE pc[q]
      /\ \A q \in Proc : pc'[q] \in CommitPcs => q = p
      /\ Active' = Active /\ CommitInv' /\ HeldInv' /\ RecoverInv' /\ pc' \in [Proc -> Pcs]
  BY <1>1, CommitterMoves DEF CommitPcs
<1>4. /\ \A i \in 1 .. Len(lh) : disk[lh[i]] = logdisk[i] /\ logdisk[i] = mem[lh[i]]
      /\ head = lh
  BY <1>1 DEF PhaseInv, InstallPcs
<1>5. TypeOK'
  <2>1. head' \in Seq(Block) /\ lh' \in Seq(Block)
    BY <1>1
  <2> QED
    BY <1>1, <1>3, <2>1 DEF TypeOK
<1>6. NamesInv'
  BY <1>1 DEF NamesInv, LogAssumption
<1>7. CacheInv'
  <2> SUFFICES ASSUME NEW c \in Block PROVE mem[c] = disk[c]
    BY <1>1 DEF CacheInv
  <2>1. CASE InLog(c)
    BY <1>4, <2>1 DEF InLog
  <2>2. CASE ~InLog(c)
    BY <1>2, <2>2 DEF CacheInv
  <2> QED
    BY <2>1, <2>2
<1>8. PhaseInv' /\ PinInv'
  BY <1>1, <1>3, SMTT(30) DEF PhaseInv, PinInv, CommitPcs, InstallPcs
<1> QED
  BY <1>1, <1>2, <1>3, <1>4, <1>5, <1>6, <1>7, <1>8

\* end_op()'s last critical section.
LEMMA EndCommitStep ==
    ASSUME LogAssumption, IInv, NEW p \in Proc, EndCommit(p)
    PROVE  /\ IInv' /\ Active' = Active /\ lh = <<>>
           /\ \A q \in Proc : pc'[q] # "asleep"
<1> USE DEF IInv, diskVars
<1>1. /\ pc[p] = "end" /\ pc' = WakeAll([pc EXCEPT ![p] = "idle"]) /\ committing' = FALSE
      /\ UNCHANGED <<disk, logdisk, head, mem, dirty, lh, outstanding, held, written, tail, running>>
  BY DEF EndCommit
<1>2. /\ committing /\ running = "up" /\ \A q \in Proc : pc[q] \in CommitPcs => q = p
      /\ Active = {}
  BY <1>1, Committer DEF CommitPcs
<1>3. [pc EXCEPT ![p] = "idle"] \in [Proc -> Pcs]
  BY DEF TypeOK, Pcs
<1>4. /\ pc' \in [Proc -> Pcs]
      /\ \A q \in Proc : pc'[q] = IF q = p THEN "idle" ELSE IF pc[q] = "asleep" THEN "begin"
                                  ELSE pc[q]
  BY <1>1, <1>3, WakeAllPcs DEF TypeOK
<1>5. Active' = Active /\ \A q \in Proc : pc'[q] \notin CommitPcs
  BY <1>2, <1>4 DEF Active, ActivePcs, CommitPcs
<1>6. TypeOK'
  BY <1>1, <1>4 DEF TypeOK
<1>7. CommitInv'
  BY <1>1, <1>2, <1>5 DEF CommitInv
<1>8. NamesInv' /\ CacheInv'
  BY <1>1 DEF NamesInv, CacheInv, InLog
<1>9. PhaseInv'
  BY <1>5 DEF PhaseInv, CommitPcs, InstallPcs
<1>10. PinInv'
  <2>1. \A q \in Proc : pc[q] \notin InstallPcs
    BY <1>1, <1>2 DEF CommitPcs, InstallPcs
  <2> QED
    BY <1>1, <1>2, <1>5, <2>1 DEF PinInv, CommitPcs, InstallPcs
<1>11. HeldInv' /\ RecoverInv'
  BY <1>1, <1>2, <1>4 DEF HeldInv, RecoverInv
<1>12. lh = <<>>
  BY <1>1 DEF PhaseInv
<1> QED
  BY <1>4, <1>5, <1>6, <1>7, <1>8, <1>9, <1>10, <1>11, <1>12

\* bget() recycles only buffers that are as on the disk.
LEMMA EvictStep ==
    ASSUME LogAssumption, IInv, NEW b \in Block, Evict(b)
    PROVE  UNCHANGED vars
<1> USE DEF IInv
<1>1. /\ running = "up" /\ b \notin dirty /\ \A q \in Proc : b \notin held[q]
      /\ mem' = [mem EXCEPT ![b] = disk[b]]
      /\ UNCHANGED <<diskVars, dirty, lh, outstanding, committing, pc, held, written, tail, running>>
  BY DEF Evict
<1>2. mem[b] = disk[b]
  <2>1. CASE ~InLog(b)
    BY <1>1, <2>1 DEF CacheInv
  <2>2. ASSUME NEW i \in 1 .. Len(lh), lh[i] = b PROVE mem[b] = disk[b]
    <3>1. PICK p \in Proc : pc[p] \in InstallPcs
      BY <1>1, <2>2 DEF PinInv
    <3>2. CASE pc[p] = "install_trans"
      <4>1. i \notin tail .. Len(lh)
        BY <1>1, <2>2, <3>2 DEF PinInv
      <4>2. i \in 1 .. tail - 1
        BY <4>1 DEF TypeOK
      <4> QED
        BY <2>2, <3>2, <4>2 DEF PhaseInv, InstallPcs
    <3>3. CASE pc[p] = "clear_head"
      BY <2>2, <3>3 DEF PhaseInv, InstallPcs
    <3> QED
      BY <3>1, <3>2, <3>3 DEF InstallPcs
  <2> QED
    BY <2>1, <2>2 DEF InLog
<1>3. mem' = mem
  BY <1>1, <1>2 DEF TypeOK
<1> QED
  BY <1>1, <1>3 DEF vars, diskVars

\* A crash.
LEMMA CrashStep ==
    ASSUME LogAssumption, IInv, Crash
    PROVE  IInv' /\ Active' = {} /\ running' # "up"
<1> USE DEF IInv, diskVars, Crash
<1>1. TypeOK'
  <2>1. lh' \in Seq(Block) /\ tail' \in 1 .. LOGSIZE /\ mem' \in [Block -> Val]
    BY DEF LogAssumption
  <2>2. pc' \in [Proc -> Pcs]
    BY DEF Pcs
  <2>3. held' \in [Proc -> SUBSET Block] /\ written' \in [Proc -> SUBSET Block]
    OBVIOUS
  <2> QED
    BY <2>1, <2>2, <2>3 DEF TypeOK
<1>2. Active' = {} /\ \A q \in Proc : pc'[q] = "idle"
  BY DEF Active, ActivePcs
<1>3. CommitInv'
  BY <1>2, FS_EmptySet DEF CommitInv, CommitPcs
<1>4. NamesInv'
  BY DEF NamesInv
<1>5. PhaseInv' /\ PinInv' /\ CacheInv' /\ HeldInv' /\ RecoverInv'
  BY <1>2 DEF PhaseInv, PinInv, CacheInv, HeldInv, RecoverInv, InstallPcs
<1> QED
  BY <1>1, <1>2, <1>3, <1>4, <1>5

\* A step of the recovery.
LEMMA RecoveryStep ==
    ASSUME LogAssumption, IInv, Recovery
    PROVE  IInv' /\ Active = {} /\ Active' = {} /\ ~committing /\ (running' = "up" => lh' = <<>>)
<1>0. TypeOK /\ CommitInv /\ NamesInv /\ PhaseInv /\ HeldInv /\ RecoverInv
  BY DEF IInv
<1> HIDE DEF IInv
<1> SUFFICES /\ TypeOK' /\ CommitInv' /\ NamesInv' /\ PhaseInv' /\ PinInv' /\ CacheInv'
             /\ HeldInv' /\ RecoverInv' /\ Active = {} /\ Active' = {} /\ ~committing
             /\ running' = "up" => lh' = <<>>
  BY DEF IInv
<1>1. /\ running # "up" /\ UNCHANGED <<outstanding, committing, pc, held, written>>
      /\ logdisk' = logdisk
  BY DEF Recovery, read_head, RecoverInstall, RecoverClear, diskVars, procVars
<1>2. \A q \in Proc : pc[q] = "idle" /\ pc'[q] = "idle" /\ held'[q] = {}
  BY <1>0, <1>1 DEF RecoverInv, HeldInv
<1>3. Active = {} /\ Active' = {}
  BY <1>2 DEF Active, ActivePcs
<1>4. CommitInv' /\ ~committing
  BY <1>0, <1>1, <1>2, <1>3 DEF CommitInv, CommitPcs
<1>5. PhaseInv' /\ HeldInv'
  BY <1>0, <1>2 DEF PhaseInv, InstallPcs, HeldInv
<1>6. CASE read_head
  <2>1. /\ lh' = head /\ running' = IF head = <<>> THEN "clear" ELSE "install"
        /\ running = "read_head" /\ tail = 1
        /\ UNCHANGED <<disk, head, mem, dirty, tail>>
    BY <1>0, <1>6 DEF read_head, RecoverInv, diskVars
  <2>2. TypeOK'
    BY <1>0, <1>1, <2>1 DEF TypeOK
  <2>3. head # <<>> => Len(head) >= 1
    BY <1>0 DEF TypeOK
  <2>4. NamesInv'
    BY <1>0, <2>1 DEF NamesInv
  <2>5. running' # "up" /\ running' # "read_head"
    BY <2>1
  <2>6. PinInv' /\ CacheInv'
    BY <1>2, <2>5 DEF PinInv, CacheInv
  <2>7. RecoverInv'
    <3>1. running' = "install" => lh' = head' /\ tail' <= Len(lh')
      BY <2>1, <2>3
    <3>2. \A i \in 1 .. tail' - 1 : FALSE
      BY <2>1
    <3>3. running' = "clear" => \A i \in 1 .. Len(head') : FALSE
      BY <2>1
    <3> QED
      BY <1>0, <1>2, <2>5, <3>1, <3>2, <3>3 DEF RecoverInv
  <2> QED
    BY <1>3, <1>4, <1>5, <2>2, <2>4, <2>5, <2>6, <2>7
<1>7. CASE RecoverInstall
  <2>1. /\ disk' = [disk EXCEPT ![lh[tail]] = logdisk[tail]] /\ running = "install"
        /\ running' = IF tail = Len(lh) THEN "clear" ELSE "install"
        /\ tail' = IF tail = Len(lh) THEN 1 ELSE tail + 1
        /\ UNCHANGED <<head, mem, dirty, lh>>
    BY <1>7 DEF RecoverInstall, diskVars, procVars
  <2>2. /\ lh = head /\ tail \in 1 .. Len(lh) /\ Len(lh) \in Nat /\ Len(lh) <= LOGSIZE
        /\ \A i \in 1 .. tail - 1 : disk[head[i]] = logdisk[i]
        /\ \A i \in 1 .. Len(lh) : lh[i] \in Block
    BY <1>0, <2>1 DEF RecoverInv, NamesInv, TypeOK, LogAssumption
  <2>3. \A i \in 1 .. tail : disk'[head[i]] = logdisk[i]
    BY <1>0, <2>1, <2>2 DEF NamesInv, TypeOK
  <2>4. TypeOK'
    <3>1. logdisk[tail] \in Val
      BY <1>0, <2>2 DEF TypeOK, LogAssumption
    <3>2. disk' \in [Block -> Val] /\ tail' \in 1 .. LOGSIZE
      BY <1>0, <2>1, <2>2, <3>1 DEF TypeOK, LogAssumption
    <3> QED
      BY <1>0, <1>1, <2>1, <3>2 DEF TypeOK
  <2>5. NamesInv'
    BY <1>0, <2>1 DEF NamesInv
  <2>6. running' # "up" /\ running' # "read_head"
    BY <2>1
  <2>7. PinInv' /\ CacheInv'
    BY <1>2, <2>6 DEF PinInv, CacheInv
  <2>8. RecoverInv'
    <3>1. running' = "install" => lh' = head' /\ tail' <= Len(lh') /\ tail' - 1 = tail
      BY <2>1, <2>2
    <3>2. running' = "install" => \A i \in 1 .. tail' - 1 : disk'[head'[i]] = logdisk'[i]
      BY <1>1, <2>1, <2>3, <3>1
    <3>3. running' = "clear" => \A i \in 1 .. Len(head') : disk'[head'[i]] = logdisk'[i]
      BY <1>1, <2>1, <2>2, <2>3
    <3> QED
      BY <1>0, <1>2, <2>6, <3>1, <3>2, <3>3 DEF RecoverInv
  <2> QED
    BY <1>3, <1>4, <1>5, <2>4, <2>5, <2>6, <2>7, <2>8
<1>8. CASE RecoverClear
  <2>1. /\ lh' = <<>> /\ head' = <<>> /\ mem' = disk /\ running' = "up"
        /\ UNCHANGED <<disk, dirty, tail>>
    BY <1>8 DEF RecoverClear, diskVars, procVars
  <2>2. TypeOK'
    <3>1. lh' \in Seq(Block) /\ head' \in Seq(Block)
      BY <2>1
    <3> QED
      BY <1>0, <1>1, <2>1, <3>1 DEF TypeOK
  <2>3. NamesInv' /\ PinInv' /\ CacheInv' /\ RecoverInv'
    BY <1>0, <1>2, <2>1 DEF NamesInv, PinInv, CacheInv, RecoverInv, InstallPcs, LogAssumption
  <2> QED
    BY <1>3, <1>4, <1>5, <2>1, <2>2, <2>3
<1> QED
  BY <1>6, <1>7, <1>8 DEF Recovery

-----------------------------------------------------------------------------
\* Every step of log.c, every crash and every step of the recovery preserves the
\* inductive invariant, as long as the log does not overflow.
LEMMA IInvStep == ASSUME LogAssumption, IInv, LogFits, [Next]_vars PROVE IInv'
<1>1. ASSUME NEW p \in Proc, CallBegin(p) PROVE IInv'
  BY <1>1, QuietStep DEF CallBegin, Goto
<1>2. ASSUME NEW p \in Proc, begin_op(p) PROVE IInv'
  <2>1. CASE committing \/ MightExhaust
    BY <1>2, <2>1, QuietStep DEF begin_op, Goto
  <2>2. CASE ~(committing \/ MightExhaust)
    BY <1>2, <2>2, BeginStep
  <2> QED
    BY <2>1, <2>2
<1>3. ASSUME NEW p \in Proc, NEW b \in Block, NEW v \in Val, Modify(p, b, v) PROVE IInv'
  BY <1>3, ModifyStep
<1>4. ASSUME NEW p \in Proc, \/ log_write(p) \/ end_op(p) \/ write_log(p) \/ write_head(p)
                             \/ install_trans(p) \/ clear_head(p) \/ EndCommit(p)
      PROVE  IInv'
  BY <1>4, LogWriteStep, EndStep, WriteLogStep, WriteHeadStep, InstallStep, ClearHeadStep,
     EndCommitStep
<1>5. CASE UNCHANGED vars
  <2>1. TypeOK' /\ Active' = Active
    BY <1>5 DEF IInv, vars, TypeOK, Active
  <2>2. CommitInv'
    BY <1>5, <2>1 DEF IInv, vars, CommitInv
  <2>3. NamesInv' /\ PinInv'
    BY <1>5 DEF IInv, vars, NamesInv, PinInv
  <2>4. PhaseInv'
    BY <1>5 DEF IInv, vars, PhaseInv
  <2>5. CacheInv' /\ HeldInv'
    BY <1>5 DEF IInv, vars, CacheInv, InLog, HeldInv
  <2>6. RecoverInv'
    BY <1>5 DEF IInv, vars, RecoverInv
  <2> QED
    BY <2>1, <2>2, <2>3, <2>4, <2>5, <2>6 DEF IInv
<1>6. ASSUME NEW b \in Block, Evict(b) PROVE IInv'
  BY <1>5, <1>6, EvictStep
<1> QED
  BY <1>1, <1>2, <1>3, <1>4, <1>5, <1>6, CrashStep, RecoveryStep DEF Next, Step

\* Durable as an operator, to compare its value before and after a step.
Overlay(d, l, h) ==
    [b \in Block |-> IF \E i \in 1 .. Len(h) : h[i] = b
                     THEN l[CHOOSE i \in 1 .. Len(h) : h[i] = b]
                     ELSE d[b]]

\* A recovery from a log whose blocks are m's makes the disk m.
LEMMA OverlayIs ==
    ASSUME NEW d, NEW l, NEW h, NEW m \in [Block -> Val],
           \A i \in 1 .. Len(h) : l[i] = m[h[i]],
           \A b \in Block : (\A i \in 1 .. Len(h) : h[i] # b) => d[b] = m[b]
    PROVE  Overlay(d, l, h) = m
<1>1. ASSUME NEW b \in Block PROVE Overlay(d, l, h)[b] = m[b]
  BY DEF Overlay
<1> QED
  BY <1>1 DEF Overlay

\* An empty log adds nothing.
LEMMA OverlayEmpty ==
    ASSUME NEW d \in [Block -> Val], NEW l PROVE Overlay(d, l, <<>>) = d
BY OverlayIs

\* Disks that differ only in blocks of the log are recovered alike.
LEMMA OverlayHides ==
    ASSUME NEW d, NEW e, NEW l, NEW h,
           \A b \in Block : (\A i \in 1 .. Len(h) : h[i] # b) => d[b] = e[b]
    PROVE  Overlay(d, l, h) = Overlay(e, l, h)
BY DEF Overlay

\* Every step is a step of Journal or changes nothing there.
LEMMA JournalSimulation == ASSUME LogAssumption, IInv, LogFits, [Next]_vars PROVE JournalStep
<1> DEFINE volatile == IF running = "up" THEN mem ELSE Durable
<1> DEFINE Stutter == UNCHANGED <<volatile, Durable, Active>>
<1>a. /\ Durable = Overlay(disk, logdisk, head) /\ Durable' = Overlay(disk', logdisk', head')
      /\ disk \in [Block -> Val] /\ mem \in [Block -> Val]
  BY DEF Durable, Overlay, IInv, TypeOK
<1>b. UNCHANGED diskVars => Durable' = Durable
  BY DEF diskVars, Durable
<1>c. ASSUME Stutter PROVE JournalStep
  BY <1>c DEF JournalStep, J!vars, Active, ActivePcs
<1> HIDE DEF volatile
<1>1. ASSUME NEW p \in Proc, CallBegin(p) PROVE JournalStep
  <2>1. Active' = Active
    BY <1>1, QuietStep DEF CallBegin, Goto
  <2> QED
    BY <1>1, <1>b, <1>c, <2>1 DEF CallBegin, volatile
<1>2. ASSUME NEW p \in Proc, begin_op(p) PROVE JournalStep
  <2>0. UNCHANGED <<mem, running, Durable>>
    BY <1>2, <1>b DEF begin_op
  <2>1. CASE committing \/ MightExhaust
    <3>1. Active' = Active
      BY <1>2, <2>1, QuietStep DEF begin_op, Goto
    <3> QED
      BY <1>c, <2>0, <3>1 DEF volatile
  <2>2. CASE ~(committing \/ MightExhaust)
    <3>1. Active' = Active \cup {p} /\ p \notin Active
      BY <1>2, <2>2, BeginStep
    <3>2. J!Begin(p)
      BY <2>0, <3>1 DEF J!Begin, Active, ActivePcs
    <3> QED
      BY <3>2 DEF JournalStep, J!Next
  <2> QED
    BY <2>1, <2>2
<1>3. ASSUME NEW p \in Proc, NEW b \in Block, NEW v \in Val, Modify(p, b, v) PROVE JournalStep
  <2>1. Active' = Active /\ p \in Active
    BY <1>3, ModifyStep
  <2>2. /\ running = "up" /\ running' = running /\ Durable' = Durable
        /\ mem' = [mem EXCEPT ![b] = v]
    BY <1>3, <1>b DEF Modify
  <2>3. J!Write(p, b, v)
    BY <2>1, <2>2 DEF J!Write, Active, ActivePcs
  <2> QED
    BY <2>3 DEF JournalStep, J!Next
<1>4. ASSUME NEW p \in Proc, log_write(p) PROVE JournalStep
  <2>1. Active' = Active
    BY <1>4, LogWriteStep
  <2> QED
    BY <1>4, <1>b, <1>c, <2>1 DEF log_write, volatile
<1>5. ASSUME NEW p \in Proc, end_op(p) PROVE JournalStep
  <2>1. Active' = Active \ {p} /\ p \in Active
    BY <1>5, EndStep
  <2>2. UNCHANGED <<mem, running, Durable>>
    BY <1>5, <1>b DEF end_op
  <2>3. J!End(p)
    BY <2>1, <2>2 DEF J!End, Active, ActivePcs
  <2> QED
    BY <2>3 DEF JournalStep, J!Next
<1>6. ASSUME NEW p \in Proc, write_log(p) PROVE JournalStep
  <2>1. Active' = Active /\ head = <<>>
    BY <1>6, WriteLogStep
  <2>2. UNCHANGED <<disk, head, mem, running>>
    BY <1>6 DEF write_log
  <2>3. Durable' = Durable
    BY <1>a, <2>1, <2>2, OverlayEmpty
  <2> QED
    BY <1>c, <2>1, <2>2, <2>3 DEF volatile
<1>7. ASSUME NEW p \in Proc, write_head(p) PROVE JournalStep
  <2>1. /\ pc[p] = "write_head" /\ running = "up" /\ head' = lh
        /\ UNCHANGED <<disk, logdisk, mem, running>>
    BY <1>7 DEF write_head
  <2>2. Active' = Active
    BY <1>7, WriteHeadStep
  <2>3. Active = {} /\ \A q \in Proc : held[q] = {}
    BY <2>1, Committer DEF CommitPcs
  <2>4. /\ \A i \in 1 .. Len(lh) : logdisk[i] = mem[lh[i]]
        /\ \A b \in Block : (\A i \in 1 .. Len(lh) : lh[i] # b) => disk[b] = mem[b]
    BY <2>1, <2>3 DEF IInv, PhaseInv, CacheInv, InLog
  <2>5. Durable' = mem
    BY <1>a, <2>1, <2>4, OverlayIs
  <2>6. J!Commit
    BY <2>1, <2>2, <2>3, <2>5 DEF J!Commit, Active, ActivePcs
  <2> QED
    BY <2>6 DEF JournalStep, J!Next
<1>8. ASSUME NEW p \in Proc, install_trans(p) PROVE JournalStep
  <2>1. Active' = Active /\ mem' = mem /\ tail \in 1 .. Len(head) /\ head = lh
    BY <1>8, InstallStep
  <2>2. /\ UNCHANGED <<logdisk, head, running>>
        /\ disk' = [disk EXCEPT ![head[tail]] = logdisk[tail]]
    BY <1>8, <2>1 DEF install_trans
  <2>3. \A b \in Block : (\A i \in 1 .. Len(head) : head[i] # b) => disk[b] = disk'[b]
    BY <1>a, <2>1, <2>2
  <2>4. Overlay(disk, logdisk, head) = Overlay(disk', logdisk, head)
    BY <2>3, OverlayHides
  <2>5. Durable' = Durable
    BY <1>a, <2>2, <2>4
  <2> QED
    BY <1>c, <2>1, <2>2, <2>5 DEF volatile
<1>9. ASSUME NEW p \in Proc, clear_head(p) PROVE JournalStep
  <2>1. Active' = Active /\ head' = <<>> /\ \A i \in 1 .. Len(head) : disk[head[i]] = logdisk[i]
    BY <1>9, ClearHeadStep
  <2>2. UNCHANGED <<disk, logdisk, mem, running>>
    BY <1>9 DEF clear_head
  <2>3. Durable = disk /\ Durable' = disk
    BY <1>a, <2>1, <2>2, OverlayIs, OverlayEmpty
  <2> QED
    BY <1>c, <2>1, <2>2, <2>3 DEF volatile
<1>10. ASSUME NEW p \in Proc, EndCommit(p) PROVE JournalStep
  <2>1. Active' = Active
    BY <1>10, EndCommitStep
  <2> QED
    BY <1>10, <1>b, <1>c, <2>1 DEF EndCommit, volatile
<1>11. CASE UNCHANGED vars
  BY <1>11, <1>b, <1>c DEF vars, diskVars, Active, volatile
<1>12. ASSUME NEW b \in Block, Evict(b) PROVE JournalStep
  BY <1>11, <1>12, EvictStep
<1>13. CASE Crash
  <2>1. Active' = {} /\ running' # "up"
    BY <1>13, CrashStep
  <2>2. Durable' = Durable
    BY <1>13, <1>b DEF Crash
  <2>3. J!Crash
    BY <2>1, <2>2 DEF J!Crash, Active, ActivePcs
  <2> QED
    BY <2>3 DEF JournalStep, J!Next
<1>14. CASE Recovery
  <2>1. Active' = Active
    BY <1>14, RecoveryStep
  <2>2. CASE read_head
    BY <1>b, <1>c, <2>1, <2>2 DEF read_head, volatile
  <2>3. CASE RecoverInstall
    <3>1. /\ running = "install" /\ running' # "up" /\ UNCHANGED <<logdisk, head>>
          /\ disk' = [disk EXCEPT ![lh[tail]] = logdisk[tail]]
      BY <2>3 DEF RecoverInstall
    <3>2. head = lh /\ tail \in 1 .. Len(head)
      BY <3>1 DEF IInv, RecoverInv, TypeOK
    <3>3. \A b \in Block : (\A i \in 1 .. Len(head) : head[i] # b) => disk[b] = disk'[b]
      BY <1>a, <3>1, <3>2
    <3>4. Overlay(disk, logdisk, head) = Overlay(disk', logdisk, head)
      BY <3>3, OverlayHides
    <3>5. Durable' = Durable
      BY <1>a, <3>1, <3>4
    <3> QED
      BY <1>c, <2>1, <3>1, <3>5 DEF volatile
  <2>4. CASE RecoverClear
    <3>1. /\ running = "clear" /\ running' = "up" /\ head' = <<>> /\ mem' = disk
          /\ UNCHANGED <<disk, logdisk>>
      BY <2>4 DEF RecoverClear
    <3>2. \A i \in 1 .. Len(head) : disk[head[i]] = logdisk[i]
      BY <3>1 DEF IInv, RecoverInv
    <3>3. Durable = disk /\ Durable' = disk
      BY <1>a, <3>1, <3>2, OverlayIs, OverlayEmpty
    <3> QED
      BY <1>c, <2>1, <3>1, <3>3 DEF volatile
  <2> QED
    BY <1>14, <2>2, <2>3, <2>4 DEF Recovery
<1> QED
  BY <1>1, <1>2, <1>3, <1>4, <1>5, <1>6, <1>7, <1>8, <1>9, <1>10, <1>11, <1>12, <1>13, <1>14
  DEF Next, Step

\* The log implements Journal: as long as it does not overflow, operations are
\* atomic with respect to crashes of the machine, at whatever moment of commit()
\* or of recover_from_log(), and however often.
THEOREM LogIsAtomic == ASSUME LogAssumption PROVE Spec /\ []LogFits => AtomicOperations
<1>1. Init => IInv /\ J!Init
  <2>1. ASSUME Init PROVE J!Init
    <3>1. Durable = disk
      BY <2>1 DEF Init, Durable
    <3> QED
      BY <2>1, <3>1 DEF Init, J!Init
  <2> QED
    BY <2>1, IInvInit
<1>2. IInv /\ LogFits /\ [Next]_vars => IInv' /\ [J!Next]_(J!vars)
  BY IInvStep, JournalSimulation DEF JournalStep
<1> QED
  BY <1>1, <1>2, PTL DEF Spec, AtomicOperations, J!Spec

-----------------------------------------------------------------------------
\* More operations in progress, or more blocks in the log, are no less a reason
\* to wait.
LEMMA ExhaustGrows ==
    ASSUME LogAssumption, NEW m \in Nat, NEW m1 \in Nat, NEW k \in Nat, NEW k1 \in Nat,
           m <= m1, k <= k1, m + (k + 1) * MAXOPBLOCKS > LOGSIZE
    PROVE  m1 + (k1 + 1) * MAXOPBLOCKS > LOGSIZE
<1>1. MAXOPBLOCKS \in Nat /\ LOGSIZE \in Nat
  BY DEF LogAssumption
<1>2. (k1 + 1) * MAXOPBLOCKS = (k + 1) * MAXOPBLOCKS + (k1 - k) * MAXOPBLOCKS
  BY <1>1
<1>3. (k1 - k) * MAXOPBLOCKS >= 0
  BY <1>1
<1>4. (k + 1) * MAXOPBLOCKS \in Nat /\ (k1 - k) * MAXOPBLOCKS \in Int
  BY <1>1
<1> QED
  BY <1>1, <1>2, <1>3, <1>4

\* A sleeper's reason to sleep stands until it is woken.
LEMMA SleepStep == ASSUME LogAssumption, IInv, SleepInv, LogFits, [Next]_vars PROVE SleepInv'
<1>a. /\ lh \in Seq(Block) /\ outstanding \in Nat /\ outstanding' \in Nat /\ lh' \in Seq(Block)
      /\ Len(lh) \in Nat /\ Len(lh') \in Nat
  BY IInvStep DEF IInv, TypeOK
<1>b. Len(lh) <= Len(lh') /\ outstanding <= outstanding' /\ MightExhaust => MightExhaust'
  BY <1>a, ExhaustGrows DEF MightExhaust
<1>1. ASSUME NEW p \in Proc, CallBegin(p) PROVE SleepInv'
  <2>1. Active' = Active
    BY <1>1, QuietStep DEF CallBegin, Goto
  <2> QED
    BY <1>1, <1>a, <1>b, <2>1 DEF CallBegin, Goto, SleepInv, IInv, TypeOK
<1>2. ASSUME NEW p \in Proc, begin_op(p) PROVE SleepInv'
  <2>1. CASE committing \/ MightExhaust
    <3>1. Active' = Active
      BY <1>2, <2>1, QuietStep DEF begin_op, Goto
    <3> QED
      BY <1>2, <1>a, <1>b, <2>1, <3>1 DEF begin_op, Goto, SleepInv, IInv, TypeOK
  <2>2. CASE ~(committing \/ MightExhaust)
    <3>1. Active' = Active \cup {p}
      BY <1>2, <2>2, BeginStep
    <3>2. \A q \in Proc : pc[q] # "asleep"
      BY <2>2 DEF SleepInv
    <3>3. \A q \in Proc : pc'[q] # "asleep"
      BY <1>2, <2>2, <3>2 DEF begin_op, Goto, IInv, TypeOK
    <3> QED
      BY <3>1, <3>3 DEF SleepInv
  <2> QED
    BY <2>1, <2>2
<1>3. ASSUME NEW p \in Proc, NEW b \in Block, NEW v \in Val, Modify(p, b, v) PROVE SleepInv'
  <2>1. Active' = Active /\ p \in Active
    BY <1>3, ModifyStep
  <2>2. \A q \in Proc : pc'[q] = "asleep" => pc[q] = "asleep"
    BY <1>3 DEF Modify, Goto, IInv, TypeOK
  <2>3. UNCHANGED <<lh, outstanding, committing>>
    BY <1>3 DEF Modify
  <2> QED
    BY <1>a, <1>b, <2>1, <2>2, <2>3 DEF SleepInv
<1>4. ASSUME NEW p \in Proc, log_write(p) PROVE SleepInv'
  <2>1. Active' = Active /\ p \in Active /\ Len(lh') >= Len(lh)
    BY <1>4, LogWriteStep
  <2>2. \A q \in Proc : pc'[q] = "asleep" => pc[q] = "asleep"
    BY <1>4 DEF log_write, Goto, IInv, TypeOK
  <2>3. UNCHANGED <<outstanding, committing>>
    BY <1>4 DEF log_write
  <2> QED
    BY <1>a, <1>b, <2>1, <2>2, <2>3 DEF SleepInv
<1>5. ASSUME NEW p \in Proc, end_op(p) PROVE SleepInv'
  <2>1. Active' = Active \ {p} /\ p \in Active /\ IInv'
    BY <1>5, EndStep
  <2>2. CASE outstanding = 1
    <3>1. committing' = TRUE
      BY <1>5, <2>2 DEF end_op, LastOut
    <3> QED
      BY <3>1 DEF SleepInv
  <2>3. CASE outstanding # 1
    <3>1. pc' = WakeAll([pc EXCEPT ![p] = "idle"]) /\ outstanding' = outstanding - 1
      BY <1>5, <2>3 DEF end_op, LastOut
    <3>2. [pc EXCEPT ![p] = "idle"] \in [Proc -> Pcs]
      BY DEF IInv, TypeOK, Pcs
    <3>3. \A q \in Proc : pc'[q] # "asleep"
      BY <3>1, <3>2, WakeAllPcs
    <3>4. outstanding' = Cardinality(Active')
      BY <2>1 DEF IInv, CommitInv
    <3>5. Active' # {}
      BY <1>a, <2>3, <3>1, <3>4, FS_EmptySet
    <3> QED
      BY <3>3, <3>5 DEF SleepInv
  <2> QED
    BY <2>2, <2>3
<1>6. ASSUME NEW p \in Proc, write_log(p) \/ write_head(p) \/ install_trans(p) \/ clear_head(p)
      PROVE  SleepInv'
  <2>1. committing
    BY <1>6, WriteLogStep, WriteHeadStep, InstallStep, ClearHeadStep
  <2>2. committing' = committing
    BY <1>6 DEF write_log, write_head, install_trans, clear_head
  <2> QED
    BY <2>1, <2>2 DEF SleepInv
<1>7. ASSUME NEW p \in Proc, EndCommit(p) PROVE SleepInv'
  <2>1. lh = <<>> /\ \A q \in Proc : pc'[q] # "asleep"
    BY <1>7, EndCommitStep
  <2>2. lh' = lh
    BY <1>7 DEF EndCommit
  <2> QED
    BY <2>1, <2>2 DEF SleepInv
<1>8. CASE UNCHANGED vars
  BY <1>8 DEF vars, SleepInv, Active, MightExhaust
<1>9. ASSUME NEW b \in Block, Evict(b) PROVE SleepInv'
  BY <1>8, <1>9, EvictStep
<1>10. CASE Crash
  BY <1>10 DEF Crash, SleepInv
<1>11. CASE Recovery
  <2>1. running' = "up" => lh' = <<>>
    BY <1>11, RecoveryStep
  <2>2. running # "up" /\ pc' = pc
    BY <1>11 DEF Recovery, read_head, RecoverInstall, RecoverClear, procVars
  <2>3. \A q \in Proc : pc'[q] = "idle"
    BY <2>2 DEF IInv, RecoverInv
  <2> QED
    BY <2>1, <2>3 DEF SleepInv
<1> QED
  BY <1>1, <1>2, <1>3, <1>4, <1>5, <1>6, <1>7, <1>8, <1>9, <1>10, <1>11 DEF Next, Step

\* begin_op() leaves nobody asleep: who sleeps there waits for a commit() that is
\* under way or for an operation that is in progress, which will wake it.
THEOREM NobodyIsStranded == ASSUME LogAssumption PROVE Spec /\ []LogFits => []NoStrandedCaller
<1>1. Init => IInv /\ SleepInv
  BY IInvInit
<1>2. IInv /\ SleepInv /\ LogFits /\ [Next]_vars => IInv' /\ SleepInv'
  BY IInvStep, SleepStep
<1>3. IInv /\ SleepInv => NoStrandedCaller
  <2> SUFFICES ASSUME IInv, SleepInv, NEW p \in Proc, pc[p] = "asleep"
               PROVE  /\ committing \/ MightExhaust
                      /\ \E q \in Proc \ {p} : pc[q] \notin {"idle", "begin", "asleep"}
    BY DEF NoStrandedCaller
  <2>1. committing \/ MightExhaust
    BY DEF SleepInv
  <2>2. CASE committing
    BY <2>1, <2>2 DEF IInv, CommitInv, CommitPcs
  <2>3. CASE ~committing
    <3>1. running = "up"
      BY DEF IInv, RecoverInv
    <3>2. Active # {}
      <4> SUFFICES ASSUME Active = {} PROVE FALSE
        OBVIOUS
      <4>1. lh = <<>> /\ outstanding = 0
        BY <2>3, <3>1, FS_EmptySet DEF SleepInv, IInv, CommitInv
      <4>2. Len(lh) = 0
        BY <4>1
      <4>3. 0 + (0 + 1) * MAXOPBLOCKS > LOGSIZE
        BY <2>1, <2>3, <4>1, <4>2 DEF MightExhaust
      <4> QED
        BY <4>3 DEF LogAssumption
    <3> QED
      BY <2>1, <3>2 DEF Active, ActivePcs
  <2> QED
    BY <2>2, <2>3
<1> QED
  BY <1>1, <1>2, <1>3, PTL DEF Spec

=============================================================================
