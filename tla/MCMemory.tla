------------------------------ MODULE MCMemory ------------------------------
(***************************************************************************)
(* Memory with few process slots and few pages.  A page table maps two     *)
(* pages, so that sbrk() and exec() need a new one in the middle.          *)
(***************************************************************************)
EXTENDS Memory

\* Pages are interchangeable: where no two pointers name the same page, a state
\* is known up to renaming by which pointers are set and how many pages are
\* free or lost.  States in which a page has two owners, or that run on another
\* directory, are told apart from the others.
Shape(s) == [s EXCEPT !.dir = @ # Null, !.pt = {i \in Pdx : s.pt[i] # Null}, !.pte = Mapped(s)]
View ==
    <<Cardinality(free), Cardinality(lost), state, parent, {p \in Proc : kstack[p] # Null}, sz,
      [p \in Proc |-> <<Shape(pgdir[p]), Shape(new[p])>>],
      [p \in Proc |-> [loc[p] EXCEPT !.mem = @ # Null]], call, pc,
      PageOwnedOnce, {p \in Proc : cr3[p] # Null}, RunsOnOwnTables>>

=============================================================================
