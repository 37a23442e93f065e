------------------------------- MODULE Memory -------------------------------
(***************************************************************************)
(* Physical pages and address spaces: kalloc.c, vm.c, exec.c, and the      *)
(* parts of fork, wait, exit and sbrk in proc.c that own memory.           *)
(*                                                                         *)
(* A step contains one kalloc(), so that other processes can take or give  *)
(* back pages between any two of them.  Giving back several pages is one   *)
(* step: kfree() never fails and nobody can tell when it happened.         *)
(* Addresses are in units of which PGSIZE make a page.                     *)
(***************************************************************************)
EXTENDS Integers, Sequences, FiniteSets

CONSTANTS
    Proc, initproc,     \* slots of the process table; the first process
    NoProc,             \* no parent, no child
    Page,               \* physical pages between end and PHYSTOP
    Null,               \* the pointer 0
    PGSIZE, NPTENTRIES, \* units in a page, pages that a page table maps
    UserTables,         \* page directory entries below KERNBASE
    KernTables,         \* page directory entries that kmap[] needs
    Images,             \* programs: the ends (vaddr + memsz) of their segments
    ArgSizes,           \* room on the stack that exec's arguments may need
    Growth              \* arguments of sbrk()

VARIABLES
    free,               \* kmem.freelist
    state, parent,      \* process table: "UNUSED", "EMBRYO", "live", "ZOMBIE"
    kstack, sz,         \* p->kstack, p->sz
    pgdir,              \* the address space p->pgdir points at
    cr3,                \* page directory that p's CPU uses while it runs p
    call, pc,           \* what p is doing in the kernel, and its next step
    new,                \* local: the address space that fork or exec builds
    loc,                \* the other locals
    lost                \* history: pages the kernel has no pointer to any more

tableVars == <<state, parent, kstack>>
vars == <<free, tableVars, sz, pgdir, cr3, call, pc, new, loc, lost>>

MemoryAssumption ==
    /\ initproc \in Proc /\ NoProc \notin Proc /\ Null \notin Page
    /\ PGSIZE \in Nat \ {0} /\ NPTENTRIES \in Nat \ {0}
    /\ UserTables \in Nat \ {0} /\ KernTables \in Nat
    /\ Growth \subseteq Int /\ ArgSizes \subseteq Nat

-----------------------------------------------------------------------------
(***************************************************************************)
(* Address spaces: a page directory, its page tables, the user pages they  *)
(* map, and the numbers of those with PTE_U.                               *)
(***************************************************************************)
Vpn == 0 .. UserTables * NPTENTRIES - 1         \* user pages
Pdx == 0 .. UserTables + KernTables - 1         \* page directory entries
KernPdx == UserTables .. UserTables + KernTables - 1
KERNBASE == UserTables * NPTENTRIES * PGSIZE

Ptr == Page \cup {Null}
Space == [dir : Ptr, pt : [Pdx -> Ptr], pte : [Vpn -> Ptr], u : SUBSET Vpn]
NoSpace == [dir |-> Null, pt |-> [i \in Pdx |-> Null], pte |-> [v \in Vpn |-> Null], u |-> {}]

PDX(v) == v \div NPTENTRIES
FirstPage(x) == (x + PGSIZE - 1) \div PGSIZE
PGROUNDUP(x) == FirstPage(x) * PGSIZE

\* The page kalloc() returns.  Which one is first in the list is immaterial.
kalloc == CHOOSE pg \in free : TRUE

Tables(s) == {s.pt[i] : i \in Pdx} \ {Null}
Mapped(s) == {v \in Vpn : s.pte[v] # Null}
PagesAt(s, V) == {s.pte[v] : v \in V} \ {Null}
PagesOf(s) == ({s.dir} \ {Null}) \cup Tables(s) \cup PagesAt(s, Vpn)

\* The pages that deallocuvm(s, from, to) finds, frees and unmaps: where a page
\* table is missing its loop goes on NPTENTRIES pages further.
deallocuvm(s, from, to) ==
    LET visit[v \in 0 .. (UserTables + 1) * NPTENTRIES] ==
            IF v * PGSIZE >= from \/ v \notin Vpn THEN {}
            ELSE IF s.pt[PDX(v)] = Null THEN visit[v + NPTENTRIES]
            ELSE {v} \cup visit[v + 1]
    IN  IF to >= from THEN {} ELSE visit[FirstPage(to)]

Unmapped(s, V) == [s EXCEPT !.pte = [v \in Vpn |-> IF v \in V THEN Null ELSE s.pte[v]]]

\* What freevm() frees: user pages it finds, every page table, the directory.
Freed(s) == PagesAt(s, deallocuvm(s, KERNBASE, 0)) \cup Tables(s) \cup ({s.dir} \ {Null})

\* copyout() reaches user pages only.
copyout(s, va, len) == \A v \in Vpn : (v * PGSIZE < va + len /\ (v + 1) * PGSIZE > va) => v \in s.u

-----------------------------------------------------------------------------
(***************************************************************************)
(* The steps.  A call is "userinit", "fork", "exec", "stack" (the rest of  *)
(* exec, from the stack on) or "sbrk"; "user" is a process outside these   *)
(* calls.  fork and exec build `new', sbrk works on pgdir itself.          *)
(***************************************************************************)
NoLocals == [np |-> NoProc, a |-> 0, oldsz |-> 0, newsz |-> 0, mem |-> Null, segs |-> <<>>]

Init ==
    /\ free = Page
    /\ state = [p \in Proc |-> IF p = initproc THEN "EMBRYO" ELSE "UNUSED"]
    /\ parent = [p \in Proc |-> NoProc]
    /\ kstack = [p \in Proc |-> Null]
    /\ sz = [p \in Proc |-> 0]
    /\ pgdir = [p \in Proc |-> NoSpace]
    /\ cr3 = [p \in Proc |-> Null]
    /\ call = [p \in Proc |-> IF p = initproc THEN "userinit" ELSE "user"]
    /\ pc = [p \in Proc |-> IF p = initproc THEN "kstack" ELSE "user"]
    /\ new = [p \in Proc |-> NoSpace]
    /\ loc = [p \in Proc |-> [NoLocals EXCEPT !.np = IF p = initproc THEN initproc ELSE NoProc]]
    /\ lost = {}

Goto(p, label) == pc' = [pc EXCEPT ![p] = label]
Call(p, c, label) == call' = [call EXCEPT ![p] = c] /\ Goto(p, label)
Return(p) == Call(p, "user", "user") /\ loc' = [loc EXCEPT ![p] = NoLocals]
Take(n) == free' = free \ (IF n = 1 THEN {kalloc} ELSE {})

\* A process makes calls while it has memory to run in; without, the next
\* instruction it fetches kills it.
InUser(p) == state[p] = "live" /\ pc[p] = "user" /\ Mapped(pgdir[p]) # {}

\* The address space that allocuvm() is working on, and its new value.
Work(p) == IF call[p] = "sbrk" THEN pgdir[p] ELSE new[p]
SetWork(p, s) ==
    /\ pgdir' = IF call[p] = "sbrk" THEN [pgdir EXCEPT ![p] = s] ELSE pgdir
    /\ new' = IF call[p] = "sbrk" THEN new ELSE [new EXCEPT ![p] = s]

\* freevm(s), next to the kfree() of the pages in `also' and the loss of `gone'.
freevm(s, also, gone) ==
    /\ free' = free \cup Freed(s) \cup also
    /\ lost' = lost \cup gone \cup (PagesOf(s) \ Freed(s))

\* Mutant: fork() forgets np->kstack = 0.
ForkUndoneKeepsStack(p) ==
    /\ UNCHANGED kstack
    /\ state' = IF call[p] = "fork" THEN [state EXCEPT ![loc[p].np] = "UNUSED"] ELSE state

\* fork() gives the new process back when copyuvm() returns 0.
ForkStack(p) == IF call[p] = "fork" THEN {kstack[loc[p].np]} ELSE {}
ForkUndone(p) ==
    /\ kstack' = IF call[p] = "fork" THEN [kstack EXCEPT ![loc[p].np] = Null] ELSE kstack
    /\ state' = IF call[p] = "fork" THEN [state EXCEPT ![loc[p].np] = "UNUSED"] ELSE state

\* fork() and exec() fail: the space s they have built so far is freed.
Fail(p, s, also, gone) ==
    /\ freevm(s, also \cup ForkStack(p), gone)
    /\ ForkUndone(p)
    /\ new' = [new EXCEPT ![p] = NoSpace]
    /\ Return(p)

\* fork() calls allocproc(): an UNUSED slot becomes an EMBRYO.
Fork(p) ==
    /\ InUser(p)
    /\ \E c \in Proc :
          /\ state[c] = "UNUSED"
          /\ state' = [state EXCEPT ![c] = "EMBRYO"]
          /\ loc' = [loc EXCEPT ![p].np = c]
    /\ Call(p, "fork", "kstack")
    /\ UNCHANGED <<free, parent, kstack, sz, pgdir, cr3, new, lost>>

\* The rest of allocproc(): the kernel stack.
AllocStack(p) ==
    /\ pc[p] = "kstack"
    /\ IF free # {}
         THEN /\ Take(1)
              /\ kstack' = [kstack EXCEPT ![loc[p].np] = kalloc]
              /\ Goto(p, "setupkvm") /\ UNCHANGED <<state, call, loc>>
         ELSE /\ state' = [state EXCEPT ![loc[p].np] = "UNUSED"]
              /\ Return(p) /\ UNCHANGED <<kstack, free>>
    /\ UNCHANGED <<parent, sz, pgdir, cr3, new, lost>>

\* setupkvm() allocates the page directory.
setupkvm(p) ==
    /\ pc[p] = "setupkvm"
    /\ IF free = {}
         THEN Fail(p, NoSpace, {}, {})
         ELSE /\ Take(1)
              /\ new' = [new EXCEPT ![p] = [NoSpace EXCEPT !.dir = kalloc]]
              /\ loc' = [loc EXCEPT ![p].a = UserTables]
              /\ Goto(p, "kmap") /\ UNCHANGED <<call, state, kstack, lost>>
    /\ UNCHANGED <<parent, sz, pgdir, cr3>>

\* Its loop over kmap[]: walkpgdir() allocates the page tables.
mapkvm(p) ==
    /\ pc[p] = "kmap" /\ loc[p].a \in KernPdx /\ free # {}
    /\ Take(1)
    /\ new' = [new EXCEPT ![p].pt[loc[p].a] = kalloc]
    /\ loc' = [loc EXCEPT ![p].a = @ + 1]
    /\ UNCHANGED <<tableVars, sz, pgdir, cr3, call, pc, lost>>

\* When mappages() fails setupkvm() returns 0 and forgets the pages it has.
setupkvmFails(p) ==
    /\ pc[p] = "kmap" /\ loc[p].a \in KernPdx /\ free = {}
    /\ free' = free \cup ForkStack(p)
    /\ lost' = lost \cup PagesOf(new[p])
    /\ new' = [new EXCEPT ![p] = NoSpace]
    /\ ForkUndone(p) /\ Return(p)
    /\ UNCHANGED <<parent, sz, pgdir, cr3>>

\* setupkvm() returns; copyuvm(), exec() or inituvm() goes on.
setupkvmDone(p) ==
    /\ pc[p] = "kmap" /\ loc[p].a \notin KernPdx
    /\ loc' = [loc EXCEPT ![p].a = 0, ![p].newsz = CASE call[p] = "fork" -> sz[p]
                                                     [] call[p] = "exec" -> 0
                                                     [] call[p] = "userinit" -> PGSIZE]
    /\ Goto(p, IF call[p] = "exec" THEN "seg" ELSE "mem")
    /\ UNCHANGED <<free, tableVars, sz, pgdir, cr3, call, new, lost>>

-----------------------------------------------------------------------------
(***************************************************************************)
(* The loops of allocuvm() and copyuvm(): a page, then its page table.     *)
(***************************************************************************)
More(p) == loc[p].a * PGSIZE < loc[p].newsz

\* The page in hand, which allocuvm() frees and copyuvm() does not.
MemBack(p) == IF call[p] = "fork" THEN {} ELSE {loc[p].mem} \ {Null}

\* What allocuvm() takes back when it fails.
Undone(p) == IF call[p] = "fork" THEN {} ELSE deallocuvm(Work(p), loc[p].newsz, loc[p].oldsz)

\* Out of memory in the loop: allocuvm() takes back what it added, then exec()
\* and copyuvm() free the whole space.
LoopFails(p) ==
    LET s == Work(p)
        D == Undone(p)
        back == PagesAt(s, D) \cup MemBack(p)
        gone == IF call[p] = "fork" THEN {loc[p].mem} \ {Null} ELSE {}
    IN  IF call[p] = "sbrk"
          THEN /\ free' = free \cup back
               /\ SetWork(p, Unmapped(s, D))
               /\ Return(p) /\ UNCHANGED <<state, kstack, lost>>
          ELSE Fail(p, Unmapped(s, D), back, gone) /\ pgdir' = pgdir

\* mem = kalloc(); before that copyuvm() panics if the page is not present.
GetPage(p) ==
    /\ pc[p] = "mem" /\ More(p)
    /\ IF call[p] = "fork" /\ pgdir[p].pte[loc[p].a] = Null
         THEN Goto(p, "panic") /\ UNCHANGED <<free, state, kstack, pgdir, call, new, loc, lost>>
         ELSE IF free = {} THEN LoopFails(p)
         ELSE /\ Take(1)
              /\ loc' = [loc EXCEPT ![p].mem = kalloc]
              /\ Goto(p, "map") /\ UNCHANGED <<state, kstack, pgdir, call, new, lost>>
    /\ UNCHANGED <<parent, sz, cr3>>

\* mappages(): the page table if there is none, then the entry.  copyuvm()
\* copies the flags, the others set PTE_U.
MapPage(p) ==
    LET s == Work(p)
        v == loc[p].a
        t == PDX(v)
        user == call[p] = "fork" => v \in pgdir[p].u
    IN  /\ pc[p] = "map"
        /\ IF s.pt[t] = Null /\ free = {}
             THEN LoopFails(p)
             ELSE /\ Take(IF s.pt[t] = Null THEN 1 ELSE 0)
                  /\ SetWork(p, [s EXCEPT !.pt[t] = IF @ = Null THEN kalloc ELSE @,
                                          !.pte[v] = loc[p].mem,
                                          !.u = IF user THEN @ \cup {v} ELSE @ \ {v}])
                  /\ loc' = [loc EXCEPT ![p].mem = Null, ![p].a = v + 1]
                  /\ Goto(p, IF s.pte[v] # Null THEN "panic" ELSE "mem")
                  /\ UNCHANGED <<state, kstack, call, lost>>
        /\ UNCHANGED <<parent, sz, cr3>>

-----------------------------------------------------------------------------
(***************************************************************************)
(* What surrounds the loop in each call.                                   *)
(***************************************************************************)
\* Mutant: exec() and growproc() go on with the old page directory.
switchuvmSkipped(p, s) == cr3' = cr3

\* switchuvm(): the CPU that runs p uses s.
switchuvm(p, s) == cr3' = [cr3 EXCEPT ![p] = s.dir]

\* userinit() and fork() hand the address space to a process that may now run.
Forked(p) ==
    LET c == loc[p].np IN
    /\ pc[p] = "mem" /\ ~More(p) /\ call[p] \in {"fork", "userinit"}
    /\ pgdir' = [pgdir EXCEPT ![c] = new[p]]
    /\ cr3' = [cr3 EXCEPT ![c] = new[p].dir]
    /\ sz' = [sz EXCEPT ![c] = loc[p].newsz]
    /\ parent' = IF call[p] = "fork" THEN [parent EXCEPT ![c] = p] ELSE parent
    /\ state' = [state EXCEPT ![c] = "live"]
    /\ new' = [new EXCEPT ![p] = NoSpace]
    /\ Return(p)
    /\ UNCHANGED <<free, kstack, lost>>

\* sys_sbrk() and growproc(), growing.  init never calls sbrk().
sbrk(p) ==
    /\ InUser(p) /\ p # initproc
    /\ \E n \in Growth :
          /\ n > 0 /\ sz[p] + n < KERNBASE
          /\ loc' = [loc EXCEPT ![p].oldsz = sz[p], ![p].newsz = sz[p] + n, ![p].a = FirstPage(sz[p])]
    /\ Call(p, "sbrk", "mem")
    /\ UNCHANGED <<free, tableVars, sz, pgdir, cr3, new, lost>>

Grown(p) ==
    /\ pc[p] = "mem" /\ ~More(p) /\ call[p] = "sbrk"
    /\ sz' = [sz EXCEPT ![p] = loc[p].newsz]
    /\ switchuvm(p, pgdir[p])
    /\ Return(p)
    /\ UNCHANGED <<free, tableVars, pgdir, new, lost>>

\* Shrinking.  A sum below 0 wraps around to a size above the old one, which
\* deallocuvm() refuses; shrinking to 0 returns -1, but the pages are freed.
Shrink(p) ==
    /\ InUser(p) /\ p # initproc
    /\ \E n \in Growth :
          LET t == sz[p] + n
              D == IF t < 0 THEN {} ELSE deallocuvm(pgdir[p], sz[p], t)
          IN  /\ n < 0
              /\ free' = free \cup PagesAt(pgdir[p], D)
              /\ pgdir' = [pgdir EXCEPT ![p] = Unmapped(@, D)]
              /\ sz' = [sz EXCEPT ![p] = IF t > 0 THEN t ELSE @]
    /\ UNCHANGED <<tableVars, cr3, call, pc, new, loc, lost>>

exec(p) ==
    /\ InUser(p)
    /\ \E image \in Images : loc' = [loc EXCEPT ![p].segs = image]
    /\ Call(p, "exec", "setupkvm")
    /\ UNCHANGED <<free, tableVars, sz, pgdir, cr3, new, lost>>

\* The next program header, or the stack: allocuvm() starts its loop or refuses.
\* `newsz' is exec's sz.
Segment(p) ==
    LET last == loc[p].segs = <<>>
        from == IF last THEN PGROUNDUP(loc[p].newsz) ELSE loc[p].newsz
        to == IF last THEN from + 2 * PGSIZE ELSE Head(loc[p].segs)
    IN  /\ pc[p] = "seg"
        /\ IF to >= KERNBASE
             THEN Fail(p, new[p], {}, {})
             ELSE /\ loc' = [loc EXCEPT ![p] = [@ EXCEPT !.oldsz = from, !.a = FirstPage(from),
                                !.newsz = IF to < from THEN from ELSE to,
                                !.segs = IF last THEN @ ELSE Tail(@)]]
                  /\ Call(p, IF last THEN "stack" ELSE "exec", "mem")
                  /\ UNCHANGED <<free, state, kstack, new, lost>>
        /\ UNCHANGED <<parent, sz, pgdir, cr3>>

\* allocuvm() is done with a segment: a size of 0 is an error, and so may be
\* what the file turns out to hold.
Loaded(p) ==
    /\ pc[p] = "mem" /\ ~More(p) /\ call[p] = "exec"
    /\ \/ loc[p].newsz # 0 /\ Goto(p, "seg") /\ UNCHANGED <<free, state, kstack, lost, call, new, loc>>
       \/ Fail(p, new[p], {}, {})
    /\ UNCHANGED <<parent, sz, pgdir, cr3>>

\* clearpteu() on the lower page of the stack; the arguments go into the upper
\* one.  Then the commit, up to switchuvm(); from here `new' is oldpgdir.
Commit(p) ==
    /\ pc[p] = "mem" /\ ~More(p) /\ call[p] = "stack"
    /\ LET top == loc[p].newsz
           s == [new[p] EXCEPT !.u = @ \ {(top \div PGSIZE) - 2}]
       IN  \E n \in ArgSizes :
             IF copyout(s, top - n, n)
               THEN /\ pgdir' = [pgdir EXCEPT ![p] = s]
                    /\ new' = [new EXCEPT ![p] = pgdir[p]]
                    /\ sz' = [sz EXCEPT ![p] = top]
                    /\ switchuvm(p, s)
                    /\ Goto(p, "freeold") /\ UNCHANGED <<free, lost, call, state, kstack, loc>>
               ELSE Fail(p, s, {}, {}) /\ UNCHANGED <<pgdir, sz, cr3>>
    /\ UNCHANGED parent

\* freevm(oldpgdir)
FreeOld(p) ==
    /\ pc[p] = "freeold"
    /\ freevm(new[p], {}, {})
    /\ new' = [new EXCEPT ![p] = NoSpace]
    /\ Return(p)
    /\ UNCHANGED <<tableVars, sz, pgdir, cr3>>

\* exit(): orphans go to init.  The CPU has left p's page table before anybody
\* can see p as a ZOMBIE.
exit(p) ==
    /\ state[p] = "live" /\ pc[p] = "user" /\ p # initproc
    /\ state' = [state EXCEPT ![p] = "ZOMBIE"]
    /\ parent' = [c \in Proc |-> IF parent[c] = p THEN initproc ELSE parent[c]]
    /\ cr3' = [cr3 EXCEPT ![p] = Null]
    /\ UNCHANGED <<free, kstack, sz, pgdir, call, pc, new, loc, lost>>

\* wait() reaps a child.  sz and pgdir keep their values in the code; nothing
\* reads them before the slot is given new ones.
wait(p) ==
    /\ InUser(p)
    /\ \E c \in Proc :
          /\ parent[c] = p /\ state[c] = "ZOMBIE"
          /\ freevm(pgdir[c], {kstack[c]}, {})
          /\ kstack' = [kstack EXCEPT ![c] = Null]
          /\ pgdir' = [pgdir EXCEPT ![c] = NoSpace]
          /\ sz' = [sz EXCEPT ![c] = 0]
          /\ parent' = [parent EXCEPT ![c] = NoProc]
          /\ state' = [state EXCEPT ![c] = "UNUSED"]
    /\ UNCHANGED <<cr3, call, pc, new, loc>>

Step(p) ==
    \/ Fork(p) \/ AllocStack(p) \/ setupkvm(p) \/ mapkvm(p) \/ setupkvmFails(p)
    \/ setupkvmDone(p) \/ GetPage(p) \/ MapPage(p) \/ Forked(p) \/ sbrk(p) \/ Grown(p)
    \/ Shrink(p) \/ exec(p) \/ Segment(p) \/ Loaded(p) \/ Commit(p) \/ FreeOld(p)
    \/ exit(p) \/ wait(p)

Next == \E p \in Proc : Step(p)

Spec == Init /\ [][Next]_vars

-----------------------------------------------------------------------------
(***************************************************************************)
(* Properties.                                                             *)
(***************************************************************************)
\* The pointers to pages, each by a name of its own: kernel stacks, the
\* directories, tables and pages of the address spaces, pages in hand.
SpaceRefs(k, p, s) ==
    {<<k, p, "dir", 0, s.dir>>} \cup {<<k, p, "pt", i, s.pt[i]>> : i \in Pdx}
        \cup {<<k, p, "pte", v, s.pte[v]>> : v \in Vpn}
Refs ==
    {r \in UNION {SpaceRefs("pgdir", p, pgdir[p]) \cup SpaceRefs("new", p, new[p])
                    \cup {<<"kstack", p, "", 0, kstack[p]>>, <<"mem", p, "", 0, loc[p].mem>>}
                  : p \in Proc} : r[5] # Null}

\* What every variable holds, and that a call has the address space its steps
\* work on (pgdir, new, kstack and the locals of fork, exec and sbrk).
TypeOK ==
    /\ free \subseteq Page /\ lost \subseteq Page
    /\ state \in [Proc -> {"UNUSED", "EMBRYO", "live", "ZOMBIE"}]
    /\ parent \in [Proc -> Proc \cup {NoProc}]
    /\ kstack \in [Proc -> Ptr] /\ cr3 \in [Proc -> Ptr]
    /\ sz \in [Proc -> 0 .. KERNBASE]
    /\ pgdir \in [Proc -> Space] /\ new \in [Proc -> Space]
    /\ call \in [Proc -> {"user", "userinit", "fork", "exec", "stack", "sbrk"}]
    /\ pc \in [Proc -> {"user", "kstack", "setupkvm", "kmap", "mem", "map", "seg", "freeold"}]

\* A page has one owner: kfree() gets each page once, kalloc() never hands out
\* a page that a page table, a kernel stack or a call in progress still uses,
\* and no two pointers name the same page.
PageOwnedOnce ==
    /\ \A r \in Refs : r[5] \notin free \cup lost
    /\ \A r, q \in Refs : r[5] = q[5] => r = q
    /\ free \cap lost = {}

\* Every page is on the free list or has an owner, but for those that
\* setupkvm() and copyuvm() forget when they run out of memory: freevm(),
\* deallocuvm() with its jump over missing tables, and the error paths of
\* allocuvm(), fork() and exec() find all of theirs.
NoPageForgotten == Page = free \cup lost \cup {r[5] : r \in Refs}

\* The page table agrees with p->sz: all the pages below it and none above,
\* whatever sequence of sbrk(), fork() and exec(), failed ones included, led
\* there.  Exceptions are the loop of growproc() in progress and a process
\* that gave up its last page, which has none.
SizeMapped ==
    \A p \in Proc : (state[p] = "live" /\ call[p] # "sbrk" /\ Mapped(pgdir[p]) # {}) =>
        Mapped(pgdir[p]) = {v \in Vpn : v * PGSIZE < sz[p]}

\* The page directory a running process's CPU uses is an allocated one and is
\* its own: exec() leaves the old one before it frees it, wait() frees those
\* of processes that left theirs.
RunsOnOwnTables ==
    \A p \in Proc : cr3[p] # Null => cr3[p] \notin free /\ cr3[p] = pgdir[p].dir

\* No "remap", no "copyuvm: page not present": the assumptions of mappages()
\* and copyuvm() hold of every process.
NoPanic == \A p \in Proc : pc[p] # "panic"

=============================================================================
