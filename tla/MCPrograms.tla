----------------------------- MODULE MCPrograms -----------------------------
(***************************************************************************)
(* Model checking of user programs and their library, each for itself: the *)
(* shell's parser (Parser) and its processes (Shell), malloc() and free()  *)
(* (Umalloc), and grep (Grep).  `part' says which of them a behaviour is   *)
(* of; v1, v2, ... hold its state.                                         *)
(***************************************************************************)
EXTENDS Integers, Sequences

CONSTANTS MAXARGS, MaxLine, Proc, sh, MaxLines, Pipe, PIPESIZE, Want, NALLOC, Limit,
          MaxText, MaxFile, BUFSIZE

VARIABLES part, v1, v2, v3, v4, v5, v6, v7, v8, v9, v10, v11

all == <<part, v1, v2, v3, v4, v5, v6, v7, v8, v9, v10, v11>>

\* a | a | a     (a &) | a > a     a ; a     | )
Lines == {<<"a", "|", "a", "|", "a">>, <<"(", "a", "&", ")", "|", "a", ">", "a">>, <<"a", ";", "a">>, <<"|", ")">>}

Words(C, n) == UNION {[1 .. k -> C] : k \in 0 .. n}
Patterns == Words({"a", ".", "*", "^", "$"}, 4)
FilePatterns == {<<"a">>, <<"^", "a", "b">>, <<"b", "*", "a", "$">>}

P == INSTANCE Parser WITH line <- v1, cmd <- v2
S == INSTANCE Shell WITH
        typed <- v1, state <- v2, parent <- v3, cmd <- v4, pc <- v5, ofile <- v6, bytes <- v7, back <- v8
U == INSTANCE Umalloc WITH
        ptr <- v1, size <- v2, freep <- v3, brk <- v4, taken <- v5, hole <- v6, pc <- v7, p <- v8,
        prevp <- v9, bp <- v10, want <- v11
G == INSTANCE Grep WITH re <- v1, file <- v2, buf <- v3, out <- v4, all <- v5

Parser(A) == part = "parser" /\ A /\ UNCHANGED <<part, v3, v4, v5, v6, v7, v8, v9, v10, v11>>
Shell(A) == part = "shell" /\ A /\ UNCHANGED <<part, v9, v10, v11>>
Umalloc(A) == part = "malloc" /\ A /\ UNCHANGED part
Grep(A) == part = "grep" /\ A /\ UNCHANGED <<part, v6, v7, v8, v9, v10, v11>>

From9 == v9 = 0 /\ v10 = 0 /\ v11 = 0
From6 == v6 = 0 /\ v7 = 0 /\ v8 = 0 /\ From9

ProgramsInit ==
    \/ part = "parser" /\ P!Init /\ v3 = 0 /\ v4 = 0 /\ v5 = 0 /\ From6
    \/ part = "shell" /\ S!Init /\ From9
    \/ part = "malloc" /\ U!Init
    \/ part = "grep" /\ G!Init /\ From6

ProgramsNext == Parser(P!Next) \/ Shell(S!Next) \/ Umalloc(U!Next) \/ Grep(G!Next)

\* Each part's own fairness.
ProgramsFairness ==
    /\ WF_all(Shell(S!MainWait))
    /\ \A p \in Proc : WF_all(Shell(S!Run(p))) /\ WF_all(Shell(S!Init0Reaps(p)))
    /\ WF_all(Umalloc(U!Step))

ProgramsSpec == ProgramsInit /\ [][ProgramsNext]_all /\ ProgramsFairness

-----------------------------------------------------------------------------
\* parsecmd() parses the lines that the grammar derives as it derives them, and
\* refuses the others.
ParsesTheGrammar == part = "parser" => P!ParsesTheGrammar

\* A program has descriptors 0, 1 and 2 open, to the right ends, and no other;
\* a process in the foreground does not outlive the command that waits for it.
RunsTheLine == part = "shell" => S!ProgramFds /\ S!ForegroundIsAwaited

\* Every unit of the heap is in one block, free or given out; the free list
\* runs through all free blocks in order, none of which touch; malloc() returns
\* 0 only when none is large enough.
HeapIsWhole ==
    /\ [](part = "malloc" => U!ListInOrder /\ U!UnitsOwnedOnce)
    /\ [][part = "malloc" => U!FailsWhenFull]_all

\* Every command comes back to the prompt, and malloc() and free() return.
CallsReturn ==
    /\ (part = "shell" /\ v5[sh] # "prompt") ~> (part = "shell" /\ v5[sh] = "prompt")
    /\ (part = "malloc" /\ v7 # "idle") ~> (part = "malloc" /\ v7 = "idle")

\* match() finds a line if and only if some piece of it is an instance of the
\* regular expression.
MatchesTheRegexp == part = "grep" => G!MatchesTheRegexp

\* grep prints the lines that match, wherever the reads cut the file.
PrintsTheLines == part = "grep" => G!PrintsTheLines

=============================================================================
