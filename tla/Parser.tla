------------------------------- MODULE Parser -------------------------------
(***************************************************************************)
(* The shell's command parser (sh.c): a recursive descent over a buffer of *)
(* characters, with one character of look-ahead, which ends by writing a   *)
(* NUL behind every word in place.                                         *)
(*                                                                         *)
(* A buffer is a sequence of characters, "a" standing for any character of *)
(* a word.  A command is a tuple that starts with its type; a word is      *)
(* <<q, eq>>, the pointers gettoken() returns.                             *)
(***************************************************************************)
EXTENDS Integers, Sequences, SequencesExt, FiniteSetsExt

CONSTANTS
    MAXARGS,
    MaxLine         \* length of the longest line

VARIABLES
    line,           \* the buffer getcmd() has read
    cmd             \* what parsecmd() has made of it

vars == <<line, cmd>>

NUL == "NUL"
whitespace == {" "}
symbols == {"<", "|", ">", "&", ";", "(", ")"}
Chars == whitespace \cup symbols \cup {"a"}

Char(s, i) == IF i <= Len(s) THEN s[i] ELSE NUL
Ok(c, i) == [cmd |-> c, pos |-> i]
panic == [cmd |-> <<"PANIC">>, pos |-> 0]
Failed(r) == r.pos = 0

-----------------------------------------------------------------------------
\* Mutant: symbols do not end a word.
WordEndSpace(s, i) == Min({j \in i .. Len(s) + 1 : Char(s, j) \in whitespace \cup {NUL}})

\* The loops over white space, and over the characters of a word.
Skip(s, i) == Min({j \in i .. Len(s) + 1 : Char(s, j) \notin whitespace})
WordEnd(s, i) == Min({j \in i .. Len(s) + 1 : Char(s, j) \in whitespace \cup symbols \cup {NUL}})

peek(s, i, toks) == Char(s, Skip(s, i)) \in toks

gettoken(s, i) ==
    LET q == Skip(s, i)
        append == Char(s, q) = ">" /\ Char(s, q + 1) = ">"
        eq == CASE Char(s, q) = NUL       -> q
                [] append                 -> q + 2
                [] Char(s, q) \in symbols -> q + 1
                [] OTHER                  -> WordEnd(s, q)
    IN  [tok |-> IF append THEN "+" ELSE Char(s, q), word |-> <<q, eq>>, pos |-> Skip(s, eq)]

\* redircmd(): both > and >> open the file O_WRONLY|O_CREATE.
redircmd(c, op, file) == IF op = "<" THEN <<"REDIR", c, file, "RDONLY", 0>>
                                     ELSE <<"REDIR", c, file, "WRONLY", 1>>
Redirected(c, redirs) == FoldLeft(LAMBDA x, r : redircmd(x, r[1], r[2]), c, redirs)

\* The redirections at i, added to those before them.
RECURSIVE parseredirs(_, _, _)
parseredirs(redirs, s, i) ==
    IF ~peek(s, i, {"<", ">"}) THEN Ok(redirs, Skip(s, i))
    ELSE LET op == gettoken(s, i)
             file == gettoken(s, op.pos)
         IN  IF file.tok # "a" THEN panic
             ELSE parseredirs(Append(redirs, <<op.tok, file.word>>), s, file.pos)

\* The loop of parseexec().
RECURSIVE parseargs(_, _, _, _)
parseargs(argv, redirs, s, i) ==
    LET t == gettoken(s, i)
        rs == parseredirs(redirs, s, t.pos)
    IN  IF peek(s, i, {"|", ")", "&", ";"}) \/ t.tok = NUL
        THEN Ok(Redirected(<<"EXEC", argv>>, redirs), Skip(s, i))
        ELSE IF t.tok # "a" \/ Len(argv) + 1 >= MAXARGS \/ Failed(rs) THEN panic
        ELSE parseargs(Append(argv, t.word), rs.cmd, s, rs.pos)

RECURSIVE parseline(_, _), parseblock(_, _), parseexec(_, _), parsepipe(_, _), parseback(_, _)

parseexec(s, i) ==
    LET rs == parseredirs(<<>>, s, i)
    IN  IF peek(s, i, {"("}) THEN parseblock(s, i)
        ELSE IF Failed(rs) THEN panic
        ELSE parseargs(<<>>, rs.cmd, s, rs.pos)

parseblock(s, i) ==
    LET redirected(c, rs) == IF Failed(rs) THEN panic ELSE Ok(Redirected(c.cmd, rs.cmd), rs.pos)
        closed(c) == IF Failed(c) \/ ~peek(s, c.pos, {")"}) THEN panic
                     ELSE redirected(c, parseredirs(<<>>, s, gettoken(s, c.pos).pos))
    IN  closed(parseline(s, gettoken(s, i).pos))

\* pipecmd() and listcmd().
Joined(type, c, right) == IF Failed(right) THEN panic ELSE Ok(<<type, c.cmd, right.cmd>>, right.pos)

parsepipe(s, i) ==
    LET rest(c) == IF Failed(c) \/ ~peek(s, c.pos, {"|"}) THEN c
                   ELSE Joined("PIPE", c, parsepipe(s, gettoken(s, c.pos).pos))
    IN  rest(parseexec(s, i))

\* The loop of parseline() over "&".
parseback(s, c) ==
    IF Failed(c) \/ ~peek(s, c.pos, {"&"}) THEN c
    ELSE parseback(s, Ok(<<"BACK", c.cmd>>, gettoken(s, c.pos).pos))

parseline(s, i) ==
    LET rest(c) == IF Failed(c) \/ ~peek(s, c.pos, {";"}) THEN c
                   ELSE Joined("LIST", c, parseline(s, gettoken(s, c.pos).pos))
    IN  rest(parseback(s, parsepipe(s, i)))

\* The places nulterminate() writes a NUL to.
RECURSIVE nulterminate(_)
nulterminate(c) ==
    CASE c[1] = "EXEC"  -> {w[2] : w \in Range(c[2])}
      [] c[1] = "REDIR" -> nulterminate(c[2]) \cup {c[3][2]}
      [] c[1] = "BACK"  -> nulterminate(c[2])
      [] OTHER          -> nulterminate(c[2]) \cup nulterminate(c[3])

\* A word as runcmd() sees it: where it starts and the string that is there.
RECURSIVE Strings(_, _)
Strings(c, buf) ==
    LET string(w) == LET end == Min({j \in w[1] .. Len(buf) + 1 : Char(buf, j) = NUL})
                     IN  <<w[1], SubSeq(buf, w[1], end - 1)>>
    IN  CASE c[1] = "EXEC"  -> <<"EXEC", [k \in DOMAIN c[2] |-> string(c[2][k])]>>
          [] c[1] = "REDIR" -> <<"REDIR", Strings(c[2], buf), string(c[3]), c[4], c[5]>>
          [] c[1] = "BACK"  -> <<"BACK", Strings(c[2], buf)>>
          [] OTHER          -> <<c[1], Strings(c[2], buf), Strings(c[3], buf)>>

parsecmd(s) ==
    LET terminated(nuls) == [i \in DOMAIN s |-> IF i \in nuls THEN NUL ELSE s[i]]
        done(r) == IF Failed(r) \/ Skip(s, r.pos) # Len(s) + 1 THEN <<"PANIC">>
                   ELSE Strings(r.cmd, terminated(nulterminate(r.cmd)))
    IN  done(parseline(s, 1))

Init ==
    /\ line \in UNION {[1 .. n -> Chars] : n \in 0 .. MaxLine}
    /\ cmd = <<"UNPARSED">>

Parse == cmd = <<"UNPARSED">> /\ cmd' = parsecmd(line) /\ UNCHANGED line

Next == Parse

Spec == Init /\ [][Next]_vars

-----------------------------------------------------------------------------
(***************************************************************************)
(* The shell's grammar, read off a line cut into tokens all at once, with  *)
(* no look-ahead and no order of descent.                                  *)
(*   Line ::= Pipe "&"* [ ";" Line ]     Pipe ::= Command [ "|" Pipe ]     *)
(*   Command ::= ( word | redirection )*  |  "(" Line ")" redirection*     *)
(***************************************************************************)
Tokens(s) ==
    LET all(i, j, c) == \A k \in i .. j : s[k] = c
        run(i) == Cardinality({j \in 1 .. i - 1 : all(j, i, ">")})
        first(i) == CASE s[i] = " " -> FALSE
                      [] s[i] = "a" -> i = 1 \/ s[i - 1] # "a"
                      [] s[i] = ">" -> run(i) % 2 = 0
                      [] OTHER      -> TRUE
        word(i) == SubSeq(s, i, Max({j \in i .. Len(s) : all(i, j, "a")}))
        token(i) == CASE s[i] = "a" -> <<"a", <<i, word(i)>>>>
                      [] s[i] = ">" -> <<IF Char(s, i + 1) = ">" THEN "+" ELSE ">">>
                      [] OTHER      -> <<s[i]>>
        starts == SetToSortSeq({i \in DOMAIN s : first(i)}, <)
    IN  [n \in DOMAIN starts |-> token(starts[n])]

\* Words, and redirections, each an operator and the word behind it.
IsOp(t, n) == t[n][1] \in {"<", ">", "+"}
IsFile(t, n) == n > 1 /\ IsOp(t, n - 1)
Plain(t) == \A n \in DOMAIN t : /\ t[n][1] \in {"a", "<", ">", "+"}
                                /\ IsOp(t, n) => n < Len(t) /\ t[n + 1][1] = "a"
Pick(t, P(_)) == SetToSortSeq({n \in DOMAIN t : P(n)}, <)
Args(t) == LET ns == Pick(t, LAMBDA n : t[n][1] = "a" /\ ~IsFile(t, n)) IN [k \in DOMAIN ns |-> t[ns[k]][2]]
Redirs(t) == LET ns == Pick(t, LAMBDA n : IsOp(t, n)) IN [k \in DOMAIN ns |-> <<t[ns[k]][1], t[ns[k] + 1][2]>>]

Upto(t, n) == SubSeq(t, 1, n)
After(t, n) == SubSeq(t, n + 1, Len(t))
At(t, c) == {n \in DOMAIN t : t[n][1] = c}

RECURSIVE GLine(_), GPipe(_), GCommand(_), GBack(_)
GCommand(t) ==
    {Redirected(<<"EXEC", Args(u)>>, Redirs(u)) : u \in {v \in {t} : Plain(v) /\ Len(Args(v)) < MAXARGS}}
        \cup UNION {{Redirected(c, Redirs(After(t, n))) : c \in GLine(SubSeq(t, 2, n - 1))} :
                       n \in {m \in At(t, ")") : 1 \in At(t, "(") /\ Plain(After(t, m)) /\ Args(After(t, m)) = <<>>}}
GPipe(t) == GCommand(t) \cup UNION {{<<"PIPE", l, r>> : l \in GCommand(Upto(t, n - 1)), r \in GPipe(After(t, n))} :
                                      n \in At(t, "|")}
GBack(t) == GPipe(t) \cup {<<"BACK", c>> : c \in (IF t # <<>> /\ Len(t) \in At(t, "&") THEN GBack(Front(t)) ELSE {})}
GLine(t) == GBack(t) \cup UNION {{<<"LIST", l, r>> : l \in GBack(Upto(t, n - 1)), r \in GLine(After(t, n))} :
                                   n \in At(t, ";")}

\* parsecmd() with nulterminate(): a line the grammar derives is parsed into
\* the one command it derives, with every word ending where it ended on the
\* line; any other line is refused.
ParsesTheGrammar ==
    cmd # <<"UNPARSED">> =>
        LET meant == GLine(Tokens(line))
        IN  IF meant = {} THEN cmd = <<"PANIC">> ELSE meant = {cmd}

=============================================================================
