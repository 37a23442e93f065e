-------------------------------- MODULE Grep --------------------------------
(***************************************************************************)
(* grep.c: the loop that cuts what read() returns into lines, and the      *)
(* regular expression matcher it gives each of them to.                    *)
(*                                                                         *)
(* A read of a file returns as much as is there and fits (readi()).        *)
(***************************************************************************)
EXTENDS Integers, Sequences, SequencesExt, FiniteSetsExt

CONSTANTS
    Patterns,       \* regular expressions the matcher is tried with
    MaxText,        \* on lines up to this length
    FilePatterns,   \* and those files are searched for
    MaxFile,        \* up to this length
    BUFSIZE         \* sizeof(buf)

VARIABLES
    re,             \* the pattern
    file,           \* the rest of the file
    buf,            \* buf[0 .. m-1]
    out,            \* the lines printed
    all             \* history: the whole file

vars == <<re, file, buf, out, all>>

Strings(C, n) == UNION {[1 .. k -> C] : k \in 0 .. n}

-----------------------------------------------------------------------------
Char(s, i) == IF i <= Len(s) THEN s[i] ELSE "NUL"
From(s, i) == SubSeq(s, i, Len(s))

RECURSIVE matchhere(_, _)
\* Mutant: the loop starts behind the first character.
matchstarPlus(c, r, text) ==
    \E k \in 1 .. Len(text) :
        /\ \A i \in 1 .. k : c = "." \/ text[i] = c
        /\ matchhere(r, From(text, k + 1))

\* matchstar()'s loop tries the rest of the pattern behind every prefix of c's.
matchstar(c, r, text) ==
    \E k \in 0 .. Len(text) :
        /\ \A i \in 1 .. k : c = "." \/ text[i] = c
        /\ matchhere(r, From(text, k + 1))

matchhere(r, text) ==
    IF r = <<>> THEN TRUE
    ELSE IF Char(r, 2) = "*" THEN matchstar(r[1], From(r, 3), text)
    ELSE IF r = <<"$">> THEN text = <<>>
    ELSE /\ text # <<>>
         /\ r[1] = "." \/ r[1] = text[1]
         /\ matchhere(Tail(r), Tail(text))

match(r, text) ==
    IF Char(r, 1) = "^" THEN matchhere(Tail(r), text)
    ELSE \E i \in 1 .. Len(text) + 1 : matchhere(r, From(text, i))

-----------------------------------------------------------------------------
Init ==
    /\ \/ re \in Patterns /\ file = <<>>
       \/ re \in FilePatterns /\ file \in Strings({"a", "b", "\n"}, MaxFile)
    /\ buf = <<>> /\ out = <<>> /\ all = file

Newlines(s) == {i \in DOMAIN s : s[i] = "\n"}
Ends(s) == SetToSortSeq(Newlines(s), <)
LinesOf(s) == [n \in DOMAIN Ends(s) |-> SubSeq(s, IF n = 1 THEN 1 ELSE Ends(s)[n - 1] + 1, Ends(s)[n] - 1)]

\* Mutant: m is set to 0 after every read.
KeptNone(b) == <<>>

\* What stays in the buffer: the line that has not ended, or nothing where no
\* line has.
Kept(b) == IF Newlines(b) = {} THEN <<>> ELSE From(b, Max(Newlines(b)) + 1)

\* The inner loop: p ends behind the last newline.
Lines ==
    LET n == Min({BUFSIZE - Len(buf) - 1, Len(file)})
        b == buf \o SubSeq(file, 1, n)
    IN  /\ n > 0
        /\ file' = From(file, n + 1)
        /\ out' = out \o SelectSeq(LinesOf(b), LAMBDA l : match(re, l))
        /\ buf' = Kept(b)
        /\ UNCHANGED <<re, all>>

Next == Lines

Spec == Init /\ [][Next]_vars

-----------------------------------------------------------------------------
(***************************************************************************)
(* What a pattern means: anchors, and items each of a character and maybe  *)
(* a star, that cut a piece of the text into as many segments.             *)
(***************************************************************************)
Anchored == Char(re, 1) = "^"
Body == IF Anchored THEN Tail(re) ELSE re
Starred(i) == Char(Body, i + 1) = "*"
RECURSIVE ItemAt(_)
ItemAt(i) == IF i > Len(Body) THEN <<>> ELSE IF Starred(i) THEN <<i>> \o ItemAt(i + 2) ELSE <<i>> \o ItemAt(i + 1)
Items == ItemAt(1)

Means(text) ==
    LET n == Len(Items)
        one(c, x) == c = "." \/ c = x
        dollar(k) == Items[k] = Len(Body) /\ Body[Items[k]] = "$"
    IN  \E cut \in [0 .. n -> 0 .. Len(text)] :
           /\ Anchored => cut[0] = 0
           /\ \A k \in 1 .. n :
                 /\ cut[k - 1] <= cut[k]
                 /\ CASE Starred(Items[k]) -> \A i \in cut[k - 1] + 1 .. cut[k] : one(Body[Items[k]], text[i])
                      [] dollar(k)         -> cut[k] = cut[k - 1] /\ cut[k] = Len(text)
                      [] OTHER             -> cut[k] = cut[k - 1] + 1 /\ one(Body[Items[k]], text[cut[k]])

\* matchhere() and matchstar(): a line matches if and only if some piece of it
\* is an instance of the pattern, with * taking as much or as little as needed.
MatchesTheRegexp ==
    all = <<>> => \A l \in Strings({"a", "b", "$"}, MaxText) : match(re, l) <=> Means(l)

\* The loop over read(): wherever the reads cut the file, the lines printed
\* are those that match, whole and in order, if none overflows the buffer.
PrintsTheLines ==
    LET short == \A n \in DOMAIN LinesOf(all) : Len(LinesOf(all)[n]) < BUFSIZE - 1
    IN  file = <<>> /\ short => out = SelectSeq(LinesOf(all), Means)

=============================================================================
