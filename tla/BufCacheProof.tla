--------------------------- MODULE BufCacheProof ----------------------------
(***************************************************************************)
(* For any number of processes, buffers and blocks: a block has one        *)
(* buffer, whoever uses it has it alone, and a process that waits for the  *)
(* disk has its request in the driver's queue.                             *)
(***************************************************************************)
EXTENDS BufCache, FiniteSetTheorems, SequenceTheorems, TLAPS

Pcs == {"idle", "acquiresleep", "use", "iderw", "asleep", "woken", "brelse", "panic"}

\* Steps at which a process has a reference to its buffer, and its sleep lock.
Refers == {"acquiresleep", "use", "iderw", "asleep", "woken", "brelse"}
Locks == {"use", "iderw", "asleep", "woken"}

Users(b) == {p \in Proc : buf[p] = b}

CacheType ==
    /\ blockno \in [Buf -> Block \cup {None}] /\ refcnt \in [Buf -> Nat]
    /\ valid \in [Buf -> BOOLEAN] /\ dirty \in [Buf -> BOOLEAN]
    /\ holder \in [Buf -> Proc \cup {None}]
    /\ lru \in [1 .. Cardinality(Buf) -> Buf]
    /\ idequeue \in Seq(Buf)
    /\ pc \in [Proc -> Pcs]
    /\ want \in [Proc -> Block \cup {None}] /\ buf \in [Proc -> Buf \cup {None}]

\* refcnt counts the users of a buffer, which has their block.
UserInv ==
    /\ \A b \in Buf : refcnt[b] = Cardinality(Users(b))
    /\ \A p \in Proc : pc[p] \in Refers =>
            buf[p] \in Buf /\ want[p] \in Block /\ blockno[buf[p]] = want[p]
    /\ \A p \in Proc : pc[p] = "idle" => buf[p] = None

\* A block has one buffer.
BlockInv == \A b, c \in Buf : blockno[b] = blockno[c] /\ blockno[b] # None => b = c

\* Who has locked a buffer, and what bread() has made of it.
LockInv == \A p \in Proc :
    /\ pc[p] \in Locks => holder[buf[p]] = p
    /\ pc[p] = "use" => valid[buf[p]]

Queued(b) == \E i \in 1 .. Len(idequeue) : idequeue[i] = b

\* The driver's queue and those who wait for it; a process that was woken has its
\* request done, or was woken by kill() and will sleep again.
QueueInv ==
    /\ \A p \in Proc : pc[p] = "asleep" => Queued(buf[p])
    /\ \A p \in Proc : pc[p] = "woken" => Queued(buf[p]) \/ (valid[buf[p]] /\ ~dirty[buf[p]])
    /\ drive.op = "none" <=> idequeue = <<>>

IInv == CacheType /\ UserInv /\ BlockInv /\ LockInv /\ QueueInv

-----------------------------------------------------------------------------
\* The inductive invariant holds after binit().
LEMMA IInvInit == Init => IInv
<1> SUFFICES ASSUME Init PROVE IInv
  OBVIOUS
<1> USE BufCacheAssumption DEF Init
<1>1. SetToSeq(Buf) \in [1 .. Cardinality(Buf) -> Buf]
  <2>1. \E f \in [1 .. Cardinality(Buf) -> Buf] : IsInjective(f)
    BY FS_CardinalityType DEF ExistsBijection, Bijection, Injection, IsInjective
  <2> QED
    BY <2>1 DEF SetToSeq
<1>2. CacheType
  <2>1. idequeue \in Seq(Buf)
    OBVIOUS
  <2> QED
    BY <1>1, <2>1 DEF CacheType, Pcs
<1>3. UserInv
  <2>1. \A b \in Buf : Users(b) = {}
    BY DEF Users
  <2> QED
    BY <2>1, FS_EmptySet DEF UserInv, Refers
<1>4. BlockInv /\ LockInv /\ QueueInv
  BY DEF BlockInv, LockInv, QueueInv, Locks
<1> QED
  BY <1>2, <1>3, <1>4 DEF IInv

\* A buffer somebody uses is not free, and the users of a buffer are finite.
LEMMA InUse ==
    ASSUME IInv, NEW b \in Buf
    PROVE  /\ IsFiniteSet(Users(b))
           /\ refcnt[b] = 0 => \A p \in Proc : buf[p] # b
           /\ \A p \in Proc : buf[p] = b => refcnt[b] > 0
<1>1. IsFiniteSet(Users(b))
  BY BufCacheAssumption, FS_Subset DEF Users
<1>2. refcnt[b] = Cardinality(Users(b)) /\ refcnt[b] \in Nat
  BY DEF IInv, UserInv, CacheType
<1>3. refcnt[b] = 0 => Users(b) = {}
  BY <1>1, <1>2, FS_EmptySet
<1> QED
  BY <1>1, <1>2, <1>3 DEF Users

\* The locked buffers are different ones.
LEMMA OwnBuffer ==
    ASSUME IInv, NEW p \in Proc, NEW q \in Proc, pc[p] \in Locks, pc[q] \in Locks, p # q
    PROVE  buf[p] # buf[q]
BY DEF IInv, LockInv

\* Steps that leave the cache itself alone: p goes on to step l with its buffer.
LEMMA OwnStep ==
    ASSUME IInv, NEW p \in Proc, NEW l \in Pcs, pc' = [pc EXCEPT ![p] = l],
           pc[p] \in Refers, l \in Refers \cup {"panic"},
           UNCHANGED <<cacheVars, valid, want, buf>>
    PROVE  /\ \A q \in Proc : pc'[q] = IF q = p THEN l ELSE pc[q]
           /\ UserInv' /\ BlockInv' /\ pc' \in [Proc -> Pcs]
<1>1. \A q \in Proc : pc'[q] = IF q = p THEN l ELSE pc[q]
  BY DEF IInv, CacheType
<1>2. UserInv'
  BY <1>1 DEF IInv, UserInv, Users, cacheVars, Refers, Pcs
<1>3. BlockInv'
  BY DEF IInv, BlockInv, cacheVars
<1>4. pc' \in [Proc -> Pcs]
  BY DEF IInv, CacheType
<1> QED
  BY <1>1, <1>2, <1>3, <1>4

\* bget() finds the block's buffer.
LEMMA HitStep ==
    ASSUME IInv, NEW p \in Proc, NEW k \in Block, NEW b \in Buf,
           pc[p] = "idle", blockno[b] = k,
           want' = [want EXCEPT ![p] = k], refcnt' = [refcnt EXCEPT ![b] = @ + 1],
           buf' = [buf EXCEPT ![p] = b], pc' = [pc EXCEPT ![p] = "acquiresleep"],
           UNCHANGED <<blockno, valid, dirty, holder, lru, ideVars>>
    PROVE  IInv'
<1>1. CacheType'
  BY DEF IInv, CacheType, Pcs, ideVars
<1>2. /\ \A q \in Proc : pc'[q] = IF q = p THEN "acquiresleep" ELSE pc[q]
      /\ \A q \in Proc : buf'[q] = IF q = p THEN b ELSE buf[q]
      /\ \A q \in Proc : want'[q] = IF q = p THEN k ELSE want[q]
  BY DEF IInv, CacheType
<1>3. buf[p] = None /\ None \notin Buf
  BY BufCacheAssumption DEF IInv, UserInv
<1>4. \A c \in Buf : Users(c)' = IF c = b THEN Users(c) \cup {p} ELSE Users(c)
  BY <1>2, <1>3 DEF Users
<1>5. p \notin Users(b)
  BY <1>3 DEF Users
<1>6. Cardinality(Users(b) \cup {p}) = Cardinality(Users(b)) + 1
  BY <1>5, InUse, FS_AddElement
<1>7. \A c \in Buf : refcnt'[c] = Cardinality(Users(c)')
  BY <1>4, <1>6 DEF IInv, CacheType, UserInv
<1>8. UserInv'
  BY <1>2, <1>7 DEF IInv, UserInv, Refers
<1>9. BlockInv'
  BY DEF IInv, BlockInv
<1>10. LockInv'
  BY <1>2 DEF IInv, LockInv, Locks
<1>11. QueueInv'
  BY <1>2 DEF IInv, QueueInv, Queued, ideVars
<1> QED
  BY <1>1, <1>8, <1>9, <1>10, <1>11 DEF IInv

\* bget() recycles a buffer nobody refers to.
LEMMA MissStep ==
    ASSUME IInv, NEW p \in Proc, NEW k \in Block, NEW b \in Buf,
           pc[p] = "idle", \A c \in Buf : blockno[c] # k, refcnt[b] = 0,
           want' = [want EXCEPT ![p] = k], refcnt' = [refcnt EXCEPT ![b] = 1],
           blockno' = [blockno EXCEPT ![b] = k], valid' = [valid EXCEPT ![b] = FALSE],
           buf' = [buf EXCEPT ![p] = b], pc' = [pc EXCEPT ![p] = "acquiresleep"],
           UNCHANGED <<dirty, holder, lru, ideVars>>
    PROVE  IInv'
<1>1. CacheType'
  BY DEF IInv, CacheType, Pcs, ideVars
<1>2. /\ \A q \in Proc : pc'[q] = IF q = p THEN "acquiresleep" ELSE pc[q]
      /\ \A q \in Proc : buf'[q] = IF q = p THEN b ELSE buf[q]
      /\ \A q \in Proc : want'[q] = IF q = p THEN k ELSE want[q]
      /\ \A c \in Buf : blockno'[c] = IF c = b THEN k ELSE blockno[c]
      /\ \A c \in Buf : valid'[c] = IF c = b THEN FALSE ELSE valid[c]
  BY DEF IInv, CacheType
<1>3. buf[p] = None /\ None \notin Buf
  BY BufCacheAssumption DEF IInv, UserInv
<1>4. \A q \in Proc : buf[q] # b
  BY InUse
<1>5. \A c \in Buf : Users(c)' = IF c = b THEN {p} ELSE Users(c)
  BY <1>2, <1>3, <1>4 DEF Users
<1>6. \A c \in Buf : refcnt'[c] = Cardinality(Users(c)')
  BY <1>5, FS_Singleton DEF IInv, CacheType, UserInv
<1>7. UserInv'
  BY <1>2, <1>4, <1>6 DEF IInv, UserInv, Refers
<1>8. BlockInv'
  BY <1>2 DEF IInv, BlockInv
<1>9. \A q \in Proc : pc[q] \in Refers => buf[q] \in Buf /\ buf[q] # b
  BY <1>4 DEF IInv, UserInv
<1>10. LockInv'
  BY <1>2, <1>9 DEF IInv, LockInv, Locks, Refers
<1>11. QueueInv'
  BY <1>2, <1>9 DEF IInv, QueueInv, Queued, ideVars, Refers
<1> QED
  BY <1>1, <1>7, <1>8, <1>10, <1>11 DEF IInv

\* bget() finds no buffer.
LEMMA PanicStep ==
    ASSUME IInv, NEW p \in Proc, NEW k \in Block, pc[p] = "idle",
           want' = [want EXCEPT ![p] = k], pc' = [pc EXCEPT ![p] = "panic"],
           UNCHANGED <<cacheVars, valid, dirty, holder, ideVars, buf>>
    PROVE  IInv'
<1>1. CacheType'
  BY DEF IInv, CacheType, Pcs, ideVars, cacheVars
<1>2. /\ \A q \in Proc : pc'[q] = IF q = p THEN "panic" ELSE pc[q]
      /\ \A q \in Proc : want'[q] = IF q = p THEN k ELSE want[q]
  BY DEF IInv, CacheType
<1>3. UserInv'
  BY <1>2 DEF IInv, UserInv, Users, Refers, cacheVars
<1>4. BlockInv'
  BY DEF IInv, BlockInv, cacheVars
<1>5. LockInv' /\ QueueInv'
  BY <1>2 DEF IInv, LockInv, QueueInv, Queued, Locks, ideVars
<1> QED
  BY <1>1, <1>3, <1>4, <1>5 DEF IInv

\* bget()
LEMMA BgetStep == ASSUME IInv, NEW p \in Proc, NEW k \in Block, bget(p, k) PROVE IInv'
<1>0. /\ pc[p] = "idle" /\ want' = [want EXCEPT ![p] = k]
      /\ UNCHANGED <<dirty, holder, lru, ideVars>>
  BY DEF bget
<1>1. ASSUME NEW b \in Buf, blockno[b] = k, refcnt' = [refcnt EXCEPT ![b] = @ + 1],
             buf' = [buf EXCEPT ![p] = b], Goto(p, "acquiresleep"), UNCHANGED <<blockno, valid>>
      PROVE  IInv'
  BY <1>0, <1>1, HitStep DEF Goto
<1>2. CASE Goto(p, "panic") /\ UNCHANGED <<blockno, refcnt, valid, buf>>
  BY <1>0, <1>2, PanicStep DEF Goto, cacheVars
<1>3. ASSUME \A b \in Buf : blockno[b] # k, NEW i \in Victims,
             blockno' = [blockno EXCEPT ![lru[i]] = k], refcnt' = [refcnt EXCEPT ![lru[i]] = 1],
             valid' = [valid EXCEPT ![lru[i]] = FlagsCleared(lru[i])],
             buf' = [buf EXCEPT ![p] = lru[i]], Goto(p, "acquiresleep")
      PROVE  IInv'
  <2>1. lru[i] \in Buf /\ refcnt[lru[i]] = 0
    BY DEF Victims, Recyclable, IInv, CacheType
  <2> QED
    BY <1>0, <1>3, <2>1, MissStep DEF FlagsCleared, Goto
<1> QED
  BY <1>1, <1>2, <1>3 DEF bget

\* acquiresleep(), and bread()'s look at B_VALID.
LEMMA LockStep == ASSUME IInv, NEW p \in Proc, Lock(p) PROVE IInv'
<1> DEFINE l == IF valid[buf[p]] THEN "use" ELSE "iderw"
<1>1. /\ pc[p] = "acquiresleep" /\ holder[buf[p]] = None /\ pc' = [pc EXCEPT ![p] = l]
      /\ holder' = [holder EXCEPT ![buf[p]] = p]
      /\ UNCHANGED <<cacheVars, valid, dirty, ideVars, want, buf>>
  BY DEF Lock, Goto, procVars
<1>2. l \in {"use", "iderw"} /\ (l = "use" => valid[buf[p]])
  OBVIOUS
<1> HIDE DEF l
<1>3. /\ \A q \in Proc : pc'[q] = IF q = p THEN l ELSE pc[q]
      /\ UserInv' /\ BlockInv' /\ pc' \in [Proc -> Pcs]
  BY <1>1, <1>2, OwnStep DEF Refers, Pcs
<1>4. buf[p] \in Buf /\ None \notin Proc
  BY <1>1, BufCacheAssumption DEF IInv, UserInv, Refers
<1>5. CacheType'
  BY <1>1, <1>3 DEF IInv, CacheType, ideVars, cacheVars
<1>6. \A q \in Proc : pc[q] \in Locks => buf[q] \in Buf /\ buf[q] # buf[p]
  BY <1>1, <1>4 DEF IInv, LockInv, UserInv, Refers, Locks
<1>7. LockInv'
  BY <1>1, <1>2, <1>3, <1>4, <1>6 DEF IInv, CacheType, LockInv, Locks
<1>8. QueueInv'
  BY <1>1, <1>2, <1>3 DEF IInv, QueueInv, Queued, ideVars
<1> QED
  BY <1>3, <1>5, <1>7, <1>8 DEF IInv

\* log_write() and bwrite() set B_DIRTY in a buffer that its user has to itself.
LEMMA DirtyStep ==
    ASSUME IInv, NEW p \in Proc, LogWrite(p) \/ bwrite(p)
    PROVE  IInv'
<1>1. PICK l \in {"use", "iderw"} :
        /\ pc[p] = "use" /\ pc' = [pc EXCEPT ![p] = l] /\ dirty' = [dirty EXCEPT ![buf[p]] = TRUE]
        /\ UNCHANGED <<cacheVars, valid, holder, ideVars, want, buf>>
  BY DEF LogWrite, bwrite, Goto, IInv, CacheType
<1>2. /\ \A q \in Proc : pc'[q] = IF q = p THEN l ELSE pc[q]
      /\ UserInv' /\ BlockInv' /\ pc' \in [Proc -> Pcs]
  BY <1>1, OwnStep DEF Refers, Pcs
<1>3. CacheType'
  BY <1>1, <1>2 DEF IInv, CacheType, ideVars, cacheVars
<1>4. LockInv'
  BY <1>1, <1>2 DEF IInv, LockInv, Locks
<1>5. \A q \in Proc : pc[q] = "woken" => buf[q] \in Buf /\ buf[q] # buf[p]
  BY <1>1, OwnBuffer DEF Locks, IInv, UserInv, Refers
<1>6. \A q \in Proc : pc[q] = "woken" => dirty'[buf[q]] = dirty[buf[q]]
  BY <1>1, <1>5 DEF IInv, CacheType
<1>7. QueueInv'
  BY <1>1, <1>2, <1>6 DEF IInv, QueueInv, Queued, ideVars
<1> QED
  BY <1>2, <1>3, <1>4, <1>7 DEF IInv

\* iderw() puts the request into the queue.
LEMMA IderwStep == ASSUME IInv, NEW p \in Proc, iderw(p) PROVE IInv'
<1>1. PICK l \in {"panic", "asleep"} :
        /\ pc[p] = "iderw" /\ pc' = [pc EXCEPT ![p] = l]
        /\ idequeue' = Append(idequeue, buf[p])
        /\ drive' = IF idequeue = <<>> THEN idestart(buf[p]) ELSE drive
        /\ UNCHANGED <<cacheVars, valid, dirty, holder, want, buf>>
  BY DEF iderw, Goto, procVars
<1>2. /\ \A q \in Proc : pc'[q] = IF q = p THEN l ELSE pc[q]
      /\ UserInv' /\ BlockInv' /\ pc' \in [Proc -> Pcs]
  BY <1>1, OwnStep DEF Refers, Pcs
<1>3. buf[p] \in Buf /\ idequeue \in Seq(Buf)
  BY <1>1 DEF IInv, UserInv, CacheType, Refers
<1>4. CacheType'
  BY <1>1, <1>2, <1>3 DEF IInv, CacheType, cacheVars
<1>5. LockInv'
  BY <1>1, <1>2 DEF IInv, LockInv, Locks
<1>6. \A c \in Buf : Queued(c) \/ c = buf[p] => Queued(c)'
  BY <1>1, <1>3 DEF Queued
<1>7. \A q \in Proc : pc[q] \in {"asleep", "woken"} => buf[q] \in Buf
  BY DEF IInv, UserInv, Refers
<1>8. idestart(buf[p]).op # "none"
  BY DEF idestart
<1>9. idequeue' # <<>> /\ drive'.op # "none"
  <2>1. idequeue' # <<>>
    BY <1>1, <1>3
  <2>2. drive'.op # "none"
    BY <1>1, <1>8 DEF IInv, QueueInv
  <2> QED
    BY <2>1, <2>2
<1>10. QueueInv'
  BY <1>1, <1>2, <1>3, <1>6, <1>7, <1>9 DEF IInv, QueueInv
<1> QED
  BY <1>2, <1>4, <1>5, <1>10 DEF IInv

\* ideintr() takes the first request off the queue and wakes those who wait for it.
LEMMA IntrStep == ASSUME IInv, ideintr PROVE IInv'
<1> DEFINE b == idequeue[1]
<1>1. /\ drive.op = "done" /\ drive' = NextCommand /\ idequeue' = Tail(idequeue)
      /\ valid' = [valid EXCEPT ![b] = TRUE] /\ dirty' = [dirty EXCEPT ![b] = FALSE]
      /\ pc' = Woken(b) /\ UNCHANGED <<cacheVars, holder, want, buf>>
  BY DEF ideintr, procVars
<1>2. /\ pc' \in [Proc -> Pcs]
      /\ \A q \in Proc : pc'[q] = IF pc[q] = "asleep" /\ buf[q] = b THEN "woken" ELSE pc[q]
  BY <1>1 DEF Woken, IInv, CacheType, Pcs
<1>3. idequeue \in Seq(Buf) /\ idequeue # <<>> /\ b \in Buf
  BY <1>1 DEF IInv, QueueInv, CacheType
<1> HIDE DEF b
<1>4. CacheType'
  <2>1. idequeue' \in Seq(Buf)
    BY <1>1, <1>3
  <2> QED
    BY <1>1, <1>2, <2>1 DEF IInv, CacheType, cacheVars
<1>5. UserInv'
  BY <1>1, <1>2 DEF IInv, UserInv, Users, Refers, cacheVars
<1>6. BlockInv'
  BY <1>1 DEF IInv, BlockInv, cacheVars
<1>7. \A q \in Proc : pc[q] \in Locks => buf[q] \in Buf
  BY DEF IInv, UserInv, Locks, Refers
<1>8. \A c \in Buf : /\ valid'[c] = IF c = b THEN TRUE ELSE valid[c]
                     /\ dirty'[c] = IF c = b THEN FALSE ELSE dirty[c]
  BY <1>1 DEF IInv, CacheType
<1>9. LockInv'
  BY <1>1, <1>2, <1>7, <1>8 DEF IInv, LockInv, Locks
<1>10. \A c \in Buf : Queued(c) /\ c # b => Queued(c)'
  <2> SUFFICES ASSUME NEW c \in Buf, NEW i \in 1 .. Len(idequeue), idequeue[i] = c, c # b
               PROVE  Queued(c)'
    BY DEF Queued
  <2>1. i - 1 \in 1 .. Len(idequeue') /\ idequeue'[i - 1] = c
    BY <1>1, <1>3 DEF b
  <2> QED
    BY <2>1 DEF Queued
<1>11. drive'.op = "none" <=> idequeue' = <<>>
  <2>1. CASE Len(idequeue) = 1
    BY <1>1, <1>3, <2>1 DEF NextCommand
  <2>2. CASE Len(idequeue) # 1
    <3>1. drive' = idestart(idequeue[2])
      BY <1>1, <2>2 DEF NextCommand
    <3>2. drive'.op # "none"
      BY <3>1 DEF idestart
    <3>3. Len(idequeue) \in Nat \ {0, 1}
      BY <1>3, <2>2, EmptySeq
    <3>4. idequeue' # <<>>
      <4>1. Len(Tail(idequeue)) = Len(idequeue) - 1
        BY <1>3, HeadTailProperties
      <4>2. Len(idequeue') # 0
        BY <1>1, <3>3, <4>1
      <4> QED
        BY <4>2
    <3> QED
      BY <3>2, <3>4
  <2> QED
    BY <2>1, <2>2
<1>12. QueueInv'
  <2>1. ASSUME NEW q \in Proc, pc'[q] = "asleep" PROVE Queued(buf[q])'
    <3>1. pc[q] = "asleep" /\ buf[q] # b /\ buf[q] \in Buf /\ buf'[q] = buf[q]
      BY <1>1, <1>2, <1>7, <2>1 DEF Locks
    <3> QED
      BY <1>10, <3>1 DEF IInv, QueueInv
  <2>2. ASSUME NEW q \in Proc, pc'[q] = "woken"
        PROVE  (Queued(buf[q]) \/ (valid[buf[q]] /\ ~dirty[buf[q]]))'
    <3>1. pc[q] \in {"woken", "asleep"} /\ buf[q] \in Buf /\ buf'[q] = buf[q]
      BY <1>1, <1>2, <1>7, <2>2 DEF Locks
    <3>2. CASE buf[q] = b
      BY <1>8, <3>1, <3>2
    <3>3. CASE buf[q] # b
      <4>1. pc[q] = "woken"
        BY <1>2, <2>2, <3>3
      <4> QED
        BY <1>8, <1>10, <3>1, <3>3, <4>1 DEF IInv, QueueInv
    <3> QED
      BY <3>2, <3>3
  <2> QED
    BY <1>1, <1>11, <2>1, <2>2 DEF QueueInv
<1> QED
  BY <1>4, <1>5, <1>6, <1>9, <1>12 DEF IInv

\* sleep() returns in iderw(), and kill() wakes its caller before that.
LEMMA WaitStep == ASSUME IInv, NEW p \in Proc, IoReturn(p) \/ Kill(p) PROVE IInv'
<1>1. PICK l \in {"use", "asleep", "woken"} :
        /\ pc[p] \in {"asleep", "woken"} /\ pc' = [pc EXCEPT ![p] = l]
        /\ l = "use" => valid[buf[p]]
        /\ l = "asleep" => pc[p] = "woken" /\ ~(valid[buf[p]] /\ ~dirty[buf[p]])
        /\ l = "woken" => pc[p] = "asleep"
        /\ UNCHANGED <<cacheVars, valid, dirty, holder, ideVars, want, buf>>
  BY DEF IoReturn, Kill, Goto, procVars
<1>2. /\ \A q \in Proc : pc'[q] = IF q = p THEN l ELSE pc[q]
      /\ UserInv' /\ BlockInv' /\ pc' \in [Proc -> Pcs]
  BY <1>1, OwnStep DEF Refers, Pcs
<1>3. CacheType'
  BY <1>1, <1>2 DEF IInv, CacheType, ideVars, cacheVars
<1>4. LockInv'
  BY <1>1, <1>2 DEF IInv, LockInv, Locks
<1>5. QueueInv'
  BY <1>1, <1>2 DEF IInv, QueueInv, Queued, ideVars
<1> QED
  BY <1>2, <1>3, <1>4, <1>5 DEF IInv

\* releasesleep() in brelse()
LEMMA BrelseStep == ASSUME IInv, NEW p \in Proc, brelse(p) PROVE IInv'
<1>1. /\ pc[p] = "use" /\ pc' = [pc EXCEPT ![p] = "brelse"]
      /\ holder' = [holder EXCEPT ![buf[p]] = None]
      /\ UNCHANGED <<cacheVars, valid, dirty, ideVars, want, buf>>
  BY DEF brelse, Goto, procVars
<1>2. /\ \A q \in Proc : pc'[q] = IF q = p THEN "brelse" ELSE pc[q]
      /\ UserInv' /\ BlockInv' /\ pc' \in [Proc -> Pcs]
  BY <1>1, OwnStep DEF Refers, Pcs
<1>3. CacheType'
  BY <1>1, <1>2 DEF IInv, CacheType, ideVars, cacheVars
<1>4. \A q \in Proc : pc[q] \in Locks /\ q # p => buf[q] \in Buf /\ buf[q] # buf[p]
  BY <1>1, OwnBuffer DEF Locks, IInv, UserInv, Refers
<1>5. LockInv'
  BY <1>1, <1>2, <1>4 DEF IInv, CacheType, LockInv, Locks
<1>6. QueueInv'
  BY <1>1, <1>2 DEF IInv, QueueInv, Queued, ideVars
<1> QED
  BY <1>2, <1>3, <1>5, <1>6 DEF IInv

\* The reference goes, and with the last one the buffer moves to the front.
LEMMA BrelseDoneStep == ASSUME IInv, NEW p \in Proc, BrelseDone(p) PROVE IInv'
<1> DEFINE b == buf[p]
<1>1. /\ pc[p] = "brelse" /\ pc' = [pc EXCEPT ![p] = "idle"]
      /\ refcnt' = [refcnt EXCEPT ![b] = refcnt[b] - 1]
      /\ lru' = lru \/ lru' = MovedToFront(b)
      /\ want' = [want EXCEPT ![p] = None] /\ buf' = [buf EXCEPT ![p] = None]
      /\ UNCHANGED <<blockno, valid, dirty, holder, ideVars>>
  BY DEF BrelseDone, RefDropped, Goto
<1>2. b \in Buf /\ None \notin Buf
  BY <1>1, BufCacheAssumption DEF IInv, UserInv, Refers
<1>3. /\ \A q \in Proc : pc'[q] = IF q = p THEN "idle" ELSE pc[q]
      /\ \A q \in Proc : buf'[q] = IF q = p THEN None ELSE buf[q]
      /\ \A q \in Proc \ {p} : want'[q] = want[q]
  BY <1>1 DEF IInv, CacheType
<1>4. p \in Users(b) /\ IsFiniteSet(Users(b)) /\ refcnt[b] > 0
  BY <1>2, InUse DEF Users
<1>5. CacheType'
  <2>1. pc' \in [Proc -> Pcs] /\ want' \in [Proc -> Block \cup {None}]
        /\ buf' \in [Proc -> Buf \cup {None}]
    BY <1>1 DEF IInv, CacheType, Pcs
  <2>2. refcnt' \in [Buf -> Nat]
    BY <1>1, <1>2, <1>4 DEF IInv, CacheType
  <2>3. MovedToFront(b) \in [1 .. Cardinality(Buf) -> Buf]
    <3>1. lru \in [1 .. Cardinality(Buf) -> Buf] /\ Cardinality(Buf) \in Nat
      BY BufCacheAssumption, FS_CardinalityType DEF IInv, CacheType
    <3>2. \A k \in 1 .. Cardinality(Buf) : k # 1 => k - 1 \in 1 .. Cardinality(Buf)
      BY <3>1
    <3> QED
      BY <1>2, <3>1, <3>2 DEF MovedToFront
  <2>4. lru' \in [1 .. Cardinality(Buf) -> Buf]
    BY <1>1, <2>3 DEF IInv, CacheType
  <2> QED
    BY <1>1, <2>1, <2>2, <2>4 DEF IInv, CacheType, ideVars
<1>6. UserInv'
  <2>1. \A c \in Buf : Users(c)' = IF c = b THEN Users(c) \ {p} ELSE Users(c)
    BY <1>2, <1>3 DEF Users
  <2>2. Cardinality(Users(b) \ {p}) = Cardinality(Users(b)) - 1
    BY <1>4, FS_RemoveElement
  <2>3. \A c \in Buf : refcnt'[c] = Cardinality(Users(c)')
    BY <1>1, <1>2, <2>1, <2>2 DEF IInv, UserInv, CacheType
  <2> QED
    BY <1>1, <1>3, <2>3 DEF IInv, UserInv, Refers
<1>7. BlockInv'
  BY <1>1 DEF IInv, BlockInv
<1>8. LockInv'
  BY <1>1, <1>3 DEF IInv, LockInv, Locks
<1>9. QueueInv'
  BY <1>1, <1>3 DEF IInv, QueueInv, Queued, ideVars
<1> QED
  BY <1>5, <1>6, <1>7, <1>8, <1>9 DEF IInv

\* The inductive step.
LEMMA IInvStep == IInv /\ [Next]_vars => IInv'
<1> SUFFICES ASSUME IInv, [Next]_vars PROVE IInv'
  OBVIOUS
<1>1. ASSUME NEW p \in Proc, Step(p) PROVE IInv'
  BY <1>1, LockStep, IderwStep, WaitStep, BrelseStep, BrelseDoneStep DEF Step
<1>2. ASSUME NEW p \in Proc, LogWrite(p) \/ bwrite(p) \/ Kill(p) PROVE IInv'
  BY <1>2, DirtyStep, WaitStep
<1>3. ASSUME NEW p \in Proc, NEW k \in Block, bget(p, k) PROVE IInv'
  BY <1>3, BgetStep
<1>4. ASSUME UNCHANGED <<pc, cacheVars, valid, dirty, holder, idequeue, want, buf>>,
             (drive'.op = "none") = (drive.op = "none")
      PROVE  IInv'
  <2>1. CacheType'
    BY <1>4 DEF IInv, CacheType, cacheVars
  <2>2. UserInv' /\ BlockInv'
    BY <1>4 DEF IInv, UserInv, Users, BlockInv, Refers, cacheVars
  <2>3. LockInv' /\ QueueInv'
    BY <1>4 DEF IInv, LockInv, QueueInv, Queued, Locks
  <2> QED
    BY <2>1, <2>2, <2>3 DEF IInv
<1>5. ASSUME NEW p \in Proc, NEW v \in Val, Modify(p, v) PROVE IInv'
  BY <1>4, <1>5 DEF Modify, ideVars
<1>6. CASE DriveDone
  BY <1>4, <1>6 DEF DriveDone, procVars
<1>7. CASE UNCHANGED vars
  <2>1. UNCHANGED <<pc, cacheVars, valid, dirty, holder, idequeue, want, buf>> /\ drive' = drive
    BY <1>7 DEF vars, cacheVars, ideVars, procVars
  <2> QED
    BY <1>4, <2>1
<1> QED
  BY <1>1, <1>2, <1>3, <1>5, <1>6, <1>7, IntrStep DEF Next

\* A block has one buffer, and the process that uses it has it locked and valid,
\* for any interleaving of bget(), the driver, its interrupts and kill().
THEOREM BufferPerBlock == Spec => []OneBufferPerBlock
<1>1. IInv => OneBufferPerBlock
  <2> SUFFICES ASSUME IInv PROVE OneBufferPerBlock
    OBVIOUS
  <2>1. \A p \in Proc : pc[p] \in Locks =>
           /\ holder[buf[p]] = p
           /\ blockno[buf[p]] = want[p] /\ refcnt[buf[p]] > 0
    BY InUse DEF IInv, LockInv, UserInv, Locks, Refers
  <2> QED
    BY <2>1 DEF OneBufferPerBlock, IInv, BlockInv, LockInv, Locks
<1> QED
  BY <1>1, IInvInit, IInvStep, PTL DEF Spec

\* A process asleep in iderw() has its request in the driver's queue, and a queue
\* that is not empty has the drive at work: no sleeper is left without its wakeup().
THEOREM SleepersAreQueued == Spec => []RequestPending
<1>1. IInv => RequestPending
  BY DEF IInv, QueueInv, Queued, RequestPending
<1> QED
  BY <1>1, IInvInit, IInvStep, PTL DEF Spec

=============================================================================
