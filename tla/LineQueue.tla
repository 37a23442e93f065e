----------------------------- MODULE LineQueue ------------------------------
(***************************************************************************)
(* What a terminal promises to its readers: characters can be edited until *)
(* the line is complete, then they are read once each, in order.  A reader *)
(* gets no more than a line; an end-of-file mark stays until a reader that *)
(* has nothing else to return takes it.                                    *)
(***************************************************************************)
EXTENDS Integers, Sequences

CONSTANTS Char, Newline, Eof, Size

VARIABLES line, queue       \* being edited; complete

Init == line = <<>> /\ queue = <<>>

\* A character: the line is complete at its end or when there is no more room.
Type(c) ==
    LET all == Append(line, c) IN
    /\ Len(queue) + Len(line) < Size
    /\ IF c \in {Newline, Eof} \/ Len(queue) + Len(all) = Size
         THEN queue' = queue \o all /\ line' = <<>>
         ELSE line' = all /\ UNCHANGED queue

Erase ==
    /\ line # <<>>
    /\ line' = SubSeq(line, 1, Len(line) - 1)
    /\ UNCHANGED queue

KillLine == line' = <<>> /\ UNCHANGED queue

\* A reader takes characters up to a newline, or a mark that comes first.
Take ==
    /\ \E k \in 1 .. Len(queue) :
          /\ \A j \in 1 .. k - 1 : queue[j] \notin {Newline, Eof}
          /\ queue[k] = Eof => k = 1
          /\ queue' = SubSeq(queue, k + 1, Len(queue))
    /\ UNCHANGED line

Next == (\E c \in Char : Type(c)) \/ Erase \/ KillLine \/ Take

Spec == Init /\ [][Next]_<<line, queue>>

=============================================================================
