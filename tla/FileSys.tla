------------------------------ MODULE FileSys ------------------------------
(***************************************************************************)
(* The inode layer of fs.c and the system calls of sysfile.c that name,    *)
(* create and remove files: open, link, unlink and close, in one directory *)
(* whose own inode stays in the cache (it is init's current directory).    *)
(*                                                                         *)
(* The critical sections of icache.lock, and those of an inode's sleep     *)
(* lock in which no other sleep lock is taken, are one step.  Operations   *)
(* overlap inside a transaction; what a crash leaves is Log's business.    *)
(***************************************************************************)
EXTENDS Integers, FiniteSets

CONSTANTS
    Proc,       \* processes, each with room for one open file
    Name,       \* names in the directory
    Inum,       \* inode numbers on the disk, other than the directory's
    NoInum,     \* inum 0 in a directory entry: the entry is empty
    NoName,     \* the process is in no call that names a file
    NoProc,     \* nobody holds the sleep lock
    NINODE      \* entries of icache.inode[]

ASSUME FileSysAssumption ==
    /\ NoInum \notin Inum /\ NoName \notin Name /\ NoProc \notin Proc
    /\ NINODE \in Nat \ {0}

VARIABLES
    disk,       \* dinode of every inum: its type (0: free) and nlink
    dir,        \* the directory: name to inum
    dirlock,    \* holder of the directory's sleep lock
    icache,     \* icache.inode[]
    lock,       \* holder of each cached inode's sleep lock
    pc, ip,     \* what each process does; its local pointer ip, 0 if none
    name,       \* the name its call is about
    ofile,      \* the inode of its open file, 0 if none
    reused      \* history: ialloc() handed out an inode that iput() was freeing

vars == <<disk, dir, dirlock, icache, lock, pc, ip, name, ofile, reused>>

Entry == 1 .. NINODE
T_FILE == 2

Init ==
    /\ disk = [i \in Inum |-> [type |-> 0, nlink |-> 0]]
    /\ dir = [n \in Name |-> NoInum]
    /\ dirlock = NoProc
    /\ icache = [e \in Entry |-> [inum |-> NoInum, ref |-> 0, valid |-> FALSE,
                                  type |-> 0, nlink |-> 0]]
    /\ lock = [e \in Entry |-> NoProc]
    /\ pc = [p \in Proc |-> "idle"]
    /\ ip = [p \in Proc |-> 0]
    /\ name = [p \in Proc |-> NoName]
    /\ ofile = [p \in Proc |-> 0]
    /\ reused = FALSE

Goto(p, l) == pc' = [pc EXCEPT ![p] = l]
Panicked == \E p \in Proc : pc[p] \in {"panic", "corrupt"}

\* Process p is at l, and no panic has frozen the machine.
At(p, l) == pc[p] = l /\ ~ Panicked

-----------------------------------------------------------------------------
(***************************************************************************)
(* fs.c: the cache entries and the inodes on disk.                         *)
(***************************************************************************)
Cached(i) == {e \in Entry : icache[e].ref > 0 /\ icache[e].inum = i}
Empty == {e \in Entry : icache[e].ref = 0}

\* The entry iget(i) returns: the cached one, or else the first empty one.
EntryFor(i) ==
    IF Cached(i) # {} THEN Cached(i) ELSE {e \in Empty : \A f \in Empty : e <= f}

\* The entry after iget(i) has counted one more pointer to it.
Referenced(e, i) ==
    IF icache[e].ref > 0
    THEN [icache[e] EXCEPT !.ref = @ + 1]
    ELSE [icache[e] EXCEPT !.inum = i, !.ref = 1, !.valid = FALSE]

\* iget(i) for process p, which goes on at l; panic("iget: no inodes") if every
\* entry is in use.
iget(p, i, l) ==
    /\ IF EntryFor(i) = {}
       THEN Goto(p, "panic") /\ UNCHANGED <<icache, ip>>
       ELSE \E e \in EntryFor(i) :
               /\ icache' = [icache EXCEPT ![e] = Referenced(e, i)]
               /\ ip' = [ip EXCEPT ![p] = e]
               /\ Goto(p, l)

Dinode(e) == disk[icache[e].inum]

\* ilock() reads a free inode from the disk: panic("ilock: no type").
NoType(e) == ~ icache[e].valid /\ Dinode(e).type = 0

\* The entry once ilock() has it.
ReadIn(e) ==
    IF icache[e].valid THEN icache[e]
    ELSE [icache[e] EXCEPT !.valid = TRUE, !.type = Dinode(e).type, !.nlink = Dinode(e).nlink]

\* Give the locked inode x, in entry e, the link count n, and iupdate() it.
SetLinks(e, x, n) ==
    /\ icache' = [icache EXCEPT ![e] = [x EXCEPT !.nlink = n]]
    /\ disk' = [disk EXCEPT ![x.inum] = [type |-> x.type, nlink |-> n]]

\* ilock(ip) by p, which goes on at l with the lock.
ilock(p, l) ==
    /\ lock[ip[p]] = NoProc
    /\ lock' = [lock EXCEPT ![ip[p]] = p]
    /\ icache' = [icache EXCEPT ![ip[p]] = ReadIn(ip[p])]
    /\ Goto(p, IF NoType(ip[p]) THEN "corrupt" ELSE l)

Unlock(e) == lock' = [lock EXCEPT ![e] = NoProc]

\* Mutants: iput() looks only at the link count, or only at its own pointer.
Unlinked(e) == icache[e].valid /\ icache[e].nlink = 0
Unreferenced(e) == icache[e].valid /\ icache[e].ref = 1

\* iput()'s test: the last pointer to an inode without links.
LastPointer(e) == icache[e].ref = 1 /\ icache[e].valid /\ icache[e].nlink = 0

\* iput(ip) up to its first release of icache.lock.
iput(p) ==
    /\ At(p, "iput")
    /\ IF LastPointer(ip[p])
       THEN /\ Goto(p, "free")
            /\ UNCHANGED <<icache, ip>>
       ELSE /\ icache' = [icache EXCEPT ![ip[p]].ref = @ - 1]
            /\ ip' = [ip EXCEPT ![p] = 0]
            /\ Goto(p, "idle")
    /\ UNCHANGED <<disk, dir, dirlock, lock, name, ofile, reused>>

\* itrunc(ip), ip->type = 0 and iupdate(ip), with neither lock held.
Free(p) ==
    /\ At(p, "free")
    /\ icache' = [icache EXCEPT ![ip[p]].type = 0]
    /\ disk' = [disk EXCEPT ![icache[ip[p]].inum] =
                  [type |-> 0, nlink |-> icache[ip[p]].nlink]]
    /\ Goto(p, "freed")
    /\ UNCHANGED <<dir, dirlock, lock, ip, name, ofile, reused>>

\* The end of iput() after it has freed the inode.
Freed(p) ==
    /\ At(p, "freed")
    /\ icache' = [icache EXCEPT ![ip[p]].valid = FALSE, ![ip[p]].ref = @ - 1]
    /\ ip' = [ip EXCEPT ![p] = 0]
    /\ Goto(p, "idle")
    /\ UNCHANGED <<disk, dir, dirlock, lock, name, ofile, reused>>

-----------------------------------------------------------------------------
(***************************************************************************)
(* sysfile.c.  A path is a name in the directory; namex() locks and        *)
(* unlocks the directory once more, which changes nothing.                 *)
(***************************************************************************)

\* dirlookup(): the inum that the directory has for a name.
dirlookup(n) == dir[n]

\* The first steps of open, link and unlink: look the name up, get its inode.
\* A name that does not exist ends the call, which then has changed nothing.
namei(p, n, l) ==
    /\ At(p, "idle") /\ dirlock = NoProc
    /\ dirlookup(n) # NoInum
    /\ iget(p, dirlookup(n), l)
    /\ UNCHANGED <<disk, dir, lock, ofile, reused>>

sys_open(p, n) == namei(p, n, "open") /\ UNCHANGED <<dirlock, name>>

\* The end of sys_open(), which has ip locked and unlocks it: the process gets
\* the file, or fdalloc() finds no descriptor and ip is put back.
OpenTail(p) ==
    /\ Unlock(ip[p])
    /\ IF ofile[p] # 0
       THEN Goto(p, "iput") /\ UNCHANGED <<ip, ofile>>
       ELSE /\ ofile' = [ofile EXCEPT ![p] = ip[p]]
            /\ ip' = [ip EXCEPT ![p] = 0]
            /\ Goto(p, "idle")

\* sys_open() from its ilock(ip) on, for a file that existed.  create() refuses
\* what is not a T_FILE.
OpenFound(p) ==
    /\ At(p, "open") \/ At(p, "found")
    /\ lock[ip[p]] = NoProc
    /\ icache' = [icache EXCEPT ![ip[p]] = ReadIn(ip[p])]
    /\ IF NoType(ip[p])
       THEN Goto(p, "corrupt") /\ UNCHANGED <<lock, ip, ofile>>
       ELSE IF pc[p] = "found" /\ ReadIn(ip[p]).type # T_FILE
       THEN Goto(p, "iput") /\ UNCHANGED <<lock, ip, ofile>>
       ELSE OpenTail(p)
    /\ UNCHANGED <<disk, dir, dirlock, name, reused>>

\* sys_open() with O_CREATE: create() finds the name.
CreateFound(p, n) == namei(p, n, "found") /\ UNCHANGED <<dirlock, name>>

\* create() does not find the name, and keeps the directory locked.
CreateNew(p, n) ==
    /\ At(p, "idle") /\ dirlock = NoProc
    /\ dirlookup(n) = NoInum
    /\ dirlock' = p
    /\ name' = [name EXCEPT ![p] = n]
    /\ Goto(p, "ialloc")
    /\ UNCHANGED <<disk, dir, icache, lock, ip, ofile, reused>>

\* ialloc(): claim a free inode on disk, then iget() it.  The scan never looks
\* back at inodes it found in use, so any inode free now may be the one it
\* finds; if there is none, panic("ialloc: no inodes").
ialloc(p) ==
    /\ At(p, "ialloc")
    /\ \/ \E i \in Inum :
             /\ disk[i].type = 0
             /\ disk' = [disk EXCEPT ![i] = [type |-> T_FILE, nlink |-> 0]]
             /\ iget(p, i, "create")
             /\ reused' = (reused \/ \E q \in Proc : pc[q] = "freed" /\ ip[q] \in Cached(i))
       \/ /\ \A i \in Inum : disk[i].type # 0
          /\ Goto(p, "panic")
          /\ UNCHANGED <<disk, icache, ip, reused>>
    /\ UNCHANGED <<dir, dirlock, lock, name, ofile>>

CreateLock(p) ==
    /\ At(p, "create")
    /\ ilock(p, "init")
    /\ UNCHANGED <<disk, dir, dirlock, ip, name, ofile, reused>>

\* ip->nlink = 1; iupdate(ip)
CreateInit(p) ==
    /\ At(p, "init")
    /\ SetLinks(ip[p], icache[ip[p]], 1)
    /\ Goto(p, "enter")
    /\ UNCHANGED <<dir, dirlock, lock, ip, name, ofile, reused>>

\* dirlink() and iunlockput(dp), then the end of sys_open().
CreateEnter(p) ==
    /\ At(p, "enter")
    /\ dir' = [dir EXCEPT ![name[p]] = icache[ip[p]].inum]
    /\ dirlock' = NoProc
    /\ name' = [name EXCEPT ![p] = NoName]
    /\ OpenTail(p)
    /\ UNCHANGED <<disk, icache, reused>>

\* fileread(), filewrite() or filestat(): lock the inode of the open file.
UseFile(p) ==
    /\ At(p, "idle") /\ ofile[p] # 0
    /\ lock[ofile[p]] = NoProc
    /\ icache' = [icache EXCEPT ![ofile[p]] = ReadIn(ofile[p])]
    /\ Goto(p, IF NoType(ofile[p]) THEN "corrupt" ELSE "idle")
    /\ UNCHANGED <<disk, dir, dirlock, lock, ip, name, ofile, reused>>

\* sys_close(), or exit(): fileclose() of the last reference calls iput().
sys_close(p) ==
    /\ At(p, "idle") /\ ofile[p] # 0
    /\ ip' = [ip EXCEPT ![p] = ofile[p]]
    /\ ofile' = [ofile EXCEPT ![p] = 0]
    /\ Goto(p, "iput")
    /\ UNCHANGED <<disk, dir, dirlock, icache, lock, name, reused>>

-----------------------------------------------------------------------------
\* sys_link(old, new)
sys_link(p, old, new) ==
    /\ namei(p, old, "link")
    /\ name' = [name EXCEPT ![p] = new]
    /\ UNCHANGED dirlock

\* Mutant: sys_link() unlocks the inode only at its end.
LinkKeepsLock(p) ==
    /\ At(p, "link") /\ lock[ip[p]] = NoProc
    /\ SetLinks(ip[p], ReadIn(ip[p]), ReadIn(ip[p]).nlink + 1)
    /\ lock' = [lock EXCEPT ![ip[p]] = p]
    /\ Goto(p, "dirlink")
    /\ UNCHANGED <<dir, dirlock, ip, name, ofile, reused>>

\* ilock(ip), ip->nlink++, iupdate(ip), iunlock(ip)
LinkCounted(p) ==
    /\ At(p, "link") /\ lock[ip[p]] = NoProc
    /\ IF NoType(ip[p])
       THEN Goto(p, "corrupt") /\ UNCHANGED <<disk, icache>>
       ELSE Goto(p, "dirlink") /\ SetLinks(ip[p], ReadIn(ip[p]), ReadIn(ip[p]).nlink + 1)
    /\ UNCHANGED <<dir, dirlock, lock, ip, name, ofile, reused>>

\* dirlink() in the locked directory.  If the new name exists it gets and puts
\* that name's inode, and fails.
dirlink(p) ==
    /\ At(p, "dirlink") /\ dirlock = NoProc
    /\ IF dirlookup(name[p]) = NoInum
       THEN /\ dir' = [dir EXCEPT ![name[p]] = icache[ip[p]].inum]
            /\ Goto(p, "iput")
       ELSE /\ Goto(p, IF EntryFor(dirlookup(name[p])) = {} THEN "panic" ELSE "bad")
            /\ UNCHANGED dir
    /\ name' = [name EXCEPT ![p] = NoName]
    /\ UNCHANGED <<disk, dirlock, icache, lock, ip, ofile, reused>>

\* Mutant: the failed call leaves its link counted.
CountKept(e) == ReadIn(e).nlink

CountDropped(e) == ReadIn(e).nlink - 1

\* bad: ilock(ip), ip->nlink--, iupdate(ip), iunlockput(ip)
LinkBad(p) ==
    /\ At(p, "bad") /\ lock[ip[p]] = NoProc
    /\ IF NoType(ip[p])
       THEN Goto(p, "corrupt") /\ UNCHANGED <<disk, icache>>
       ELSE Goto(p, "iput") /\ SetLinks(ip[p], ReadIn(ip[p]), CountDropped(ip[p]))
    /\ UNCHANGED <<dir, dirlock, lock, ip, name, ofile, reused>>

\* sys_unlink(): the directory stays locked from the lookup to the erasure.
sys_unlink(p, n) ==
    /\ namei(p, n, "unlink")
    /\ dirlock' = p
    /\ name' = [name EXCEPT ![p] = n]

\* ilock(ip), and panic("unlink: nlink < 1")
UnlinkLock(p) ==
    /\ At(p, "unlink")
    /\ ilock(p, IF ReadIn(ip[p]).nlink < 1 THEN "corrupt" ELSE "erase")
    /\ UNCHANGED <<disk, dir, dirlock, ip, name, ofile, reused>>

\* The empty directory entry is written and the directory unlocked.
UnlinkErase(p) ==
    /\ At(p, "erase")
    /\ dir' = [dir EXCEPT ![name[p]] = NoInum]
    /\ dirlock' = NoProc
    /\ name' = [name EXCEPT ![p] = NoName]
    /\ Goto(p, "uncount")
    /\ UNCHANGED <<disk, icache, lock, ip, ofile, reused>>

\* ip->nlink--, iupdate(ip), iunlockput(ip)
UnlinkCounted(p) ==
    /\ At(p, "uncount")
    /\ SetLinks(ip[p], icache[ip[p]], icache[ip[p]].nlink - 1)
    /\ Unlock(ip[p])
    /\ Goto(p, "iput")
    /\ UNCHANGED <<dir, dirlock, ip, name, ofile, reused>>

\* panic() freezes every CPU.
Halt == Panicked /\ UNCHANGED vars

-----------------------------------------------------------------------------
Step(p) ==
    \/ iput(p) \/ Free(p) \/ Freed(p)
    \/ OpenFound(p) \/ ialloc(p) \/ CreateLock(p) \/ CreateInit(p) \/ CreateEnter(p)
    \/ UseFile(p) \/ sys_close(p)
    \/ LinkCounted(p) \/ dirlink(p) \/ LinkBad(p)
    \/ UnlinkLock(p) \/ UnlinkErase(p) \/ UnlinkCounted(p)

Call(p, n) ==
    \/ sys_open(p, n) \/ CreateFound(p, n) \/ CreateNew(p, n) \/ sys_unlink(p, n)
    \/ \E new \in Name : sys_link(p, n, new)

Next ==
    \/ \E p \in Proc : Step(p) \/ \E n \in Name : Call(p, n)
    \/ Halt

Spec == Init /\ [][Next]_vars

-----------------------------------------------------------------------------
(***************************************************************************)
(* Properties.                                                             *)
(***************************************************************************)

\* The pointers to cache entry e that processes hold in calls and open files.
Pointers(e) == Cardinality({p \in Proc : ip[p] = e}) + Cardinality({p \in Proc : ofile[p] = e})

\* "ip->ref tracks the number of in-memory pointers to the entry", on every path
\* of every call, failed ones included, and no inode has two entries.
RefCounts ==
    /\ \A e \in Entry : icache[e].ref = Pointers(e)
    /\ \A i \in Inum : Cardinality(Cached(i)) <= 1

\* The process whose sleep lock p needs for its next step.
Awaited(p) ==
    CASE pc[p] \in {"open", "found", "create", "link", "bad", "unlink"} -> {lock[ip[p]]}
      [] pc[p] = "dirlink" -> {dirlock}
      [] OTHER -> {}

\* create() and unlink() lock an inode while they hold the directory's lock,
\* link() locks the inode first and then the directory: no two calls wait for
\* each other, and none for itself.
NoLockCycle == \A p, q \in Proc : ~ (q \in Awaited(p) /\ p \in Awaited(q))

Names(i) == {n \in Name : dir[n] = i}

\* Calls that have counted a link they have not entered, or erased one that
\* they have not uncounted.
Owing(i) ==
    {p \in Proc : pc[p] \in {"enter", "dirlink", "bad", "uncount"} /\ icache[ip[p]].inum = i}

\* The link count on disk is the number of directory entries that name the
\* inode, apart from calls in progress: link, unlink and create never lose a
\* count to each other, although sys_link() unlocks the inode in between (see
\* NamedAllocated for `reused'; a transaction cut short by a panic is not committed).
LinkCounts ==
    ~ reused /\ ~ Panicked =>
        \A i \in Inum : disk[i].nlink = Cardinality(Names(i)) + Cardinality(Owing(i))

\* Both counts of an inode, in memory and on disk, are those of its pointers and
\* of its names.
CountsAreRight == RefCounts /\ LinkCounts

\* iput() frees an inode on disk only when no name leads to it and no process
\* other than the one that frees it has a pointer to it.
FreesUnused ==
    \A p \in Proc : ~ reused /\ pc[p] = "free" /\ pc'[p] = "freed" =>
        /\ Names(icache[ip[p]].inum) = {}
        /\ Pointers(ip[p]) = 1

FreeOnlyUnused == [][FreesUnused]_vars

\* "An inode is allocated if its type (on disk) is non-zero ... iput() frees if
\* the link count has fallen to zero": an inode that a name leads to is allocated.
NamedAllocated == \A n \in Name : dir[n] # NoInum => disk[dir[n]].type # 0

\* That is so, open files keep their inode allocated too, and neither ilock() nor
\* unlink() meets an inode it would panic at, as long as ialloc() hands out no
\* inode between iput()'s iupdate() and its second acquire of icache.lock.
FilesAllocated ==
    ~ reused =>
        /\ NamedAllocated
        /\ \A p \in Proc : ofile[p] # 0 => Dinode(ofile[p]).type # 0
        /\ \A p \in Proc : pc[p] # "corrupt"
=============================================================================
