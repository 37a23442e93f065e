------------------------------- MODULE Console ------------------------------
(***************************************************************************)
(* The console of console.c: the ring that consoleintr() fills and         *)
(* consoleread() empties, and the cursor that both move with consputc().   *)
(*                                                                         *)
(* A step is a critical section of cons.lock: a character in consoleintr(),*)
(* a run of consoleread() up to its end or its sleep, a consolewrite().    *)
(***************************************************************************)
EXTENDS Integers, Sequences, FiniteSets, FiniteSetsExt, SequencesExt

CONSTANTS
    Proc,               \* processes that read and write the console
    INPUT_BUF,          \* size of the ring
    UINT,               \* values of a uint, a multiple of INPUT_BUF
    Requests,           \* values of n in read(), 1 or more
    COLS, ROWS          \* the screen: 80 and 25

VARIABLES
    r, w, e, buf,       \* input
    pc,                 \* "idle", "reading" or "asleep" in consoleread()
    n, target, killed,
    pos                 \* the cursor

vars == <<r, w, e, buf, pc, n, target, killed, pos>>

\* Keys: letters, newline, ^D, ^U, ^H, and a key with no code.
Letter == {"a", "b"}
Key == Letter \cup {"nl", "^D", "^U", "^H", "none"}

ConsoleAssumption ==
    /\ INPUT_BUF \in Nat \ {0} /\ UINT \in Nat /\ UINT > INPUT_BUF /\ UINT % INPUT_BUF = 0
    /\ Requests \subseteq Nat \ {0}
    /\ COLS \in Nat \ {0} /\ ROWS \in Nat /\ ROWS > 1

Init ==
    /\ r = 0 /\ w = 0 /\ e = 0
    /\ buf = [k \in 0 .. INPUT_BUF - 1 |-> "none"]
    /\ pc = [p \in Proc |-> "idle"]
    /\ n = [p \in Proc |-> 0] /\ target = [p \in Proc |-> 0]
    /\ killed = [p \in Proc |-> FALSE]
    /\ pos = 0

\* Differences and sums of uints.
Dist(x, y) == (x - y) % UINT
Plus(x, k) == (x + k) % UINT

\* cgaputc(): where a character moves the cursor.
cgaputc(at, c) ==
    LET next == CASE c = "nl" -> at + COLS - (at % COLS)
                  [] c = "BACKSPACE" -> IF at > 0 THEN at - 1 ELSE at
                  [] OTHER -> at + 1
    IN  IF next \div COLS >= ROWS - 1 THEN next - COLS ELSE next
consputc(s) == pos' = FoldLeft(cgaputc, pos, s)

\* wakeup(&input.r)
Woken == [p \in Proc |-> IF pc[p] = "asleep" THEN "reading" ELSE pc[p]]

Room == Dist(e, r) < INPUT_BUF

\* consoleintr() with a character of the default case.
TypeKey(c) ==
    /\ c \in Letter \cup {"nl", "^D"}
    /\ Room
    /\ buf' = [buf EXCEPT ![e % INPUT_BUF] = c]
    /\ e' = Plus(e, 1)
    /\ consputc(<<c>>)
    /\ IF c \in {"nl", "^D"} \/ e' = Plus(r, INPUT_BUF)
         THEN w' = e' /\ pc' = Woken
         ELSE UNCHANGED <<w, pc>>
    /\ UNCHANGED <<r, n, target, killed>>

\* ^H
Backspace ==
    /\ e # w
    /\ e' = Dist(e, 1)
    /\ consputc(<<"BACKSPACE">>)
    /\ UNCHANGED <<r, w, buf, pc, n, target, killed>>

\* ^U goes back to the start of the line.
KillLine ==
    LET back == {k \in 1 .. Dist(e, w) : buf[Dist(e, k) % INPUT_BUF] = "nl"}
        count == IF back = {} THEN Dist(e, w) ELSE Min(back) - 1
    IN  /\ count > 0
        /\ e' = Dist(e, count)
        /\ consputc([k \in 1 .. count |-> "BACKSPACE"])
        /\ UNCHANGED <<r, w, buf, pc, n, target, killed>>

consoleintr == (\E c \in Key : TypeKey(c)) \/ Backspace \/ KillLine

\* read() on the console.
StartRead(p) ==
    /\ pc[p] = "idle" /\ ~killed[p]
    /\ \E k \in Requests : n' = [n EXCEPT ![p] = k] /\ target' = [target EXCEPT ![p] = k]
    /\ pc' = [pc EXCEPT ![p] = "reading"]
    /\ UNCHANGED <<r, w, e, buf, killed, pos>>

\* Mutant: a ^D behind other characters is taken with them.
TakesEofAlways(p, k) == TRUE

\* A ^D after k characters: taken when none were read before, else put back.
TakesEof(p, k) == n[p] - k = target[p]

\* consoleread() takes characters until it has n, or the line ends, or nothing
\* is left; then it sleeps, unless it was killed.
consoleread(p) ==
    LET ring(k) == buf[Plus(r, k) % INPUT_BUF]
        avail == Dist(w, r)
        limit == Min({avail, n[p]})
        stops == {k \in 0 .. limit - 1 : ring(k) \in {"nl", "^D"}}
        k == IF stops = {} THEN limit ELSE Min(stops)
        eof == stops # {} /\ ring(k) = "^D"
        chars == IF stops = {} \/ eof THEN k ELSE k + 1
        drop == IF eof /\ TakesEof(p, k) THEN 1 ELSE 0
        done == stops # {} \/ chars = n[p]
    IN  /\ pc[p] = "reading"
        /\ r' = Plus(r, chars + drop)
        /\ n' = [n EXCEPT ![p] = IF done \/ killed[p] THEN 0 ELSE @ - chars]
        /\ target' = [target EXCEPT ![p] = IF done \/ killed[p] THEN 0 ELSE @]
        /\ pc' = [pc EXCEPT ![p] = IF done \/ killed[p] THEN "idle" ELSE "asleep"]
        /\ UNCHANGED <<w, e, buf, killed, pos>>

consolewrite(p) ==
    /\ pc[p] = "idle" /\ ~killed[p]
    /\ \E s \in {<<"a">>, <<"a", "nl">>} : consputc(s)
    /\ UNCHANGED <<r, w, e, buf, pc, n, target, killed>>

\* kill() wakes a sleeper.  It does not if it came between consoleread()'s test
\* of proc->killed and its sleep(), which cons.lock does not prevent.
Kill(p) ==
    /\ pc[p] # "idle"
    /\ killed' = [killed EXCEPT ![p] = TRUE]
    /\ pc' \in {pc, [pc EXCEPT ![p] = "reading"]}
    /\ UNCHANGED <<r, w, e, buf, n, target, pos>>

\* The killed process exits; another one takes its place.
Exit(p) ==
    /\ pc[p] = "idle" /\ killed[p]
    /\ killed' = [killed EXCEPT ![p] = FALSE]
    /\ UNCHANGED <<r, w, e, buf, pc, n, target, pos>>

Next ==
    \/ consoleintr
    \/ \E p \in Proc : \/ StartRead(p) \/ consoleread(p) \/ consolewrite(p) \/ Kill(p) \/ Exit(p)

Spec == Init /\ [][Next]_vars

-----------------------------------------------------------------------------
\* What every variable holds; the cursor stays above the last line of the
\* screen, so that cgaputc() never panics ("pos under/overflow").
TypeOK ==
    /\ {r, w, e} \subseteq 0 .. UINT - 1
    /\ buf \in [0 .. INPUT_BUF - 1 -> Key]
    /\ pc \in [Proc -> {"idle", "reading", "asleep"}]
    /\ \A p \in Proc : n[p] \in 0 .. target[p]
    /\ pos \in 0 .. (ROWS - 1) * COLS - 1

\* The indices stay in order, also when they wrap: unread input, then the line
\* being edited, at most INPUT_BUF characters in all; and when there is no
\* room for another character somebody can read (the third case at
\* console.c:220), so the terminal never gets stuck.
RingInOrder ==
    /\ Dist(w, r) <= Dist(e, r) /\ Dist(e, r) <= INPUT_BUF
    /\ Dist(e, r) = INPUT_BUF => w = e

\* Nobody sleeps in consoleread() while there is something to read, however
\* many readers compete for a line: wakeup(&input.r) comes with every change of
\* input.w.
NoSleepingReader == \A p \in Proc : pc[p] = "asleep" => r = w

\* The ring with its three indices is a line editor in front of a queue: no
\* character is lost, repeated, reordered or overwritten before it was read,
\* and ^D is taken only by a read() that returns 0 bytes.
Ring(from, to) == [k \in 1 .. Dist(to, from) |-> buf[Plus(from, k - 1) % INPUT_BUF]]
Abstract == INSTANCE LineQueue WITH
    Char <- Key, Newline <- "nl", Eof <- "^D", Size <- INPUT_BUF, line <- Ring(w, e), queue <- Ring(r, w)
InputIsLines == Abstract!Spec

=============================================================================
