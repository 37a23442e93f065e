------------------------------- MODULE Umalloc -------------------------------
(***************************************************************************)
(* The user library's allocator (umalloc.c): a circular list of free       *)
(* blocks in address order, searched from where the last call left off.    *)
(*                                                                         *)
(* An address is a number of units of a Header; base, the list's anchor in *)
(* the data segment, lies below the heap.  Each turn of a loop is a step.  *)
(* The contents of a header that is one no more are forgotten.             *)
(***************************************************************************)
EXTENDS Integers, FiniteSets

CONSTANTS
    Want,           \* requests, in units, their header included
    NALLOC,         \* units morecore() asks sbrk() for at least (4096)
    Limit           \* units sbrk() has to give

VARIABLES
    ptr, size,      \* the headers
    freep,
    brk,            \* first address beyond the heap
    taken,          \* headers of the blocks the program has
    hole,           \* units that the program took with sbrk() itself
    pc, p, prevp, bp, want      \* the call in progress and its locals

vars == <<ptr, size, freep, brk, taken, hole, pc, p, prevp, bp, want>>
locals == <<p, prevp, bp, want>>

base == 0
Null == Limit + 1
Addr == 0 .. Limit

Init ==
    /\ ptr = [a \in Addr |-> Null] /\ size = [a \in Addr |-> 0]
    /\ freep = Null /\ brk = 1
    /\ taken = {} /\ hole = {}
    /\ pc = "idle" /\ p = Null /\ prevp = Null /\ bp = Null /\ want = 0

Return == pc' = "idle" /\ p' = Null /\ prevp' = Null /\ bp' = Null /\ want' = 0

\* malloc(): the first call makes base a list of its own.
malloc(n) ==
    /\ pc = "idle"
    /\ pc' = "malloc" /\ want' = n /\ bp' = Null
    /\ IF freep = Null
       THEN /\ ptr' = [ptr EXCEPT ![base] = base]
            /\ freep' = base /\ prevp' = base /\ p' = base
       ELSE /\ prevp' = freep /\ p' = ptr[freep]
            /\ UNCHANGED <<ptr, freep>>
    /\ UNCHANGED <<size, brk, taken, hole>>

\* p->s.size -= nunits
Remaining == size[p] - want

\* The block is used up, or its tail is cut off.
Fits ==
    /\ pc = "malloc" /\ size[p] >= want
    /\ IF size[p] = want
       THEN /\ ptr' = [ptr EXCEPT ![prevp] = ptr[p], ![p] = Null]
            /\ taken' = taken \cup {p}
            /\ UNCHANGED size
       ELSE LET tail == p + Remaining
            IN  /\ size' = [size EXCEPT ![p] = Remaining, ![tail] = want]
                /\ taken' = taken \cup {tail}
                /\ UNCHANGED ptr
    /\ freep' = prevp
    /\ Return
    /\ UNCHANGED <<brk, hole>>

CameRound == p = freep

NextBlock ==
    /\ pc = "malloc" /\ size[p] < want /\ ~CameRound
    /\ prevp' = p /\ p' = ptr[p]
    /\ UNCHANGED <<ptr, size, freep, brk, taken, hole, pc, bp, want>>

\* morecore(), when the search has come round: the new block is freed.
Units == IF want < NALLOC THEN NALLOC ELSE want

morecore ==
    /\ pc = "malloc" /\ size[p] < want /\ CameRound
    /\ brk + Units <= Limit + 1
    /\ brk' = brk + Units
    /\ size' = [size EXCEPT ![brk] = Units]
    /\ pc' = "more" /\ bp' = brk /\ p' = freep
    /\ UNCHANGED <<ptr, freep, taken, hole, prevp, want>>

\* malloc() returns 0.
NoCore ==
    /\ pc = "malloc" /\ size[p] < want /\ CameRound
    /\ brk + Units > Limit + 1
    /\ Return
    /\ UNCHANGED <<ptr, size, freep, brk, taken, hole>>

free(b) ==
    /\ pc = "idle" /\ b \in taken
    /\ taken' = taken \ {b}
    /\ pc' = "free" /\ bp' = b /\ p' = freep
    /\ UNCHANGED <<ptr, size, freep, brk, hole, prevp, want>>

\* bp goes between p and its successor, or beyond either end of the list.
Here == (bp > p /\ bp < ptr[p]) \/ (p >= ptr[p] /\ (bp > p \/ bp < ptr[p]))

Search ==
    /\ pc \in {"free", "more"} /\ ~Here
    /\ p' = ptr[p]
    /\ UNCHANGED <<ptr, size, freep, brk, taken, hole, pc, prevp, bp, want>>

\* Mutant: free() joins downwards only.
JoinUpNever == FALSE

\* The links and sizes once bp is joined to its successor, then p to it.
JoinUp == bp + size[bp] = ptr[p]
JoinDown == p + size[p] = bp
Link ==
    LET next == ptr[p]
        up == [ptr |-> IF JoinUp THEN ptr[next] ELSE next,
               size |-> IF JoinUp THEN size[bp] + size[next] ELSE size[bp]]
        drop == (IF JoinUp THEN {next} ELSE {}) \cup (IF JoinDown THEN {bp} ELSE {})
        link(a) == CASE a = p /\ JoinDown -> up.ptr
                     [] a = p             -> bp
                     [] a \in drop        -> Null
                     [] a = bp            -> up.ptr
                     [] OTHER             -> ptr[a]
        units(a) == CASE a = p /\ JoinDown -> size[p] + up.size
                      [] a \in drop        -> 0
                      [] a = bp            -> up.size
                      [] OTHER             -> size[a]
    IN  /\ pc \in {"free", "more"} /\ Here
        /\ ptr' = [a \in Addr |-> link(a)]
        /\ size' = [a \in Addr |-> units(a)]
        /\ freep' = p
        /\ IF pc = "free" THEN Return
           ELSE /\ pc' = "malloc" /\ prevp' = p /\ p' = ptr'[p] /\ bp' = Null
                /\ UNCHANGED want
        /\ UNCHANGED <<brk, taken, hole>>

\* The program calls sbrk() itself between two calls.
Sbrk ==
    /\ pc = "idle" /\ brk <= Limit /\ hole = {}
    /\ hole' = {brk} /\ brk' = brk + 1
    /\ UNCHANGED <<ptr, size, freep, taken, pc, locals>>

Step == Fits \/ NextBlock \/ morecore \/ NoCore \/ Search \/ Link

Next == (\E n \in Want : malloc(n)) \/ (\E b \in taken : free(b)) \/ Sbrk \/ Step

Spec == Init /\ [][Next]_vars /\ WF_vars(Step)

-----------------------------------------------------------------------------
Free == {a \in Addr \ {base} : ptr[a] # Null}
Block(a) == a .. a + size[a] - 1
Cyclic(a) == IF \E b \in Free : b > a
             THEN ptr[a] \in Free /\ ptr[a] > a /\ \A b \in Free : b > a => ptr[a] <= b
             ELSE ptr[a] = base

\* free() and malloc(): between calls the free list runs through every free
\* block once in the order of addresses and back to base, and no two free
\* blocks touch, so that memory given back can serve the largest request.
ListInOrder ==
    pc = "idle" /\ freep # Null =>
        /\ \A a \in Free \cup {base} : Cyclic(a)
        /\ freep \in Free \cup {base}
        /\ \A a, b \in Free : a + size[a] # b

\* Every unit of the heap is in exactly one block, free or given out (or the
\* program's own): no call loses memory or gives it out twice.
UnitsOwnedOnce ==
    LET moved == IF pc \in {"free", "more"} THEN {bp} ELSE {}
        blocks == Free \cup taken \cup moved
    IN  /\ UNION {Block(a) : a \in blocks} \cup hole = 1 .. brk - 1
        /\ \A a, b \in blocks : a # b => Block(a) \cap Block(b) = {}
        /\ \A a \in blocks : Block(a) \cap hole = {} /\ size[a] > 0

\* malloc() returns 0 only when no free block is large enough, wherever in the
\* list its search began.
FailsWhenFull == pc = "malloc" /\ pc' = "idle" /\ taken' = taken => \A a \in Free : size[a] < want
FailsOnlyWhenFull == [][FailsWhenFull]_vars

\* The searches of malloc() and free() end, whatever freep they start from.
CallsReturn == pc # "idle" ~> pc = "idle"

=============================================================================
