----------------------------- MODULE ByteFiles ------------------------------
(***************************************************************************)
(* What open files promise: a file is a sequence of bytes, an open file    *)
(* has an offset into one, and those who share the open file share the     *)
(* offset.  A file's bytes stay while somebody has it open.                *)
(***************************************************************************)
EXTENDS Integers, Sequences

CONSTANTS
    Inum, File,     \* files; open files
    Byte,           \* what is written
    MaxBytes,       \* length of the longest file
    Closed          \* an open file that is not in use

VARIABLES
    content,        \* the bytes of each file
    open,           \* [ip, off] of each open file, or Closed
    out             \* what this step's read() returned

Init ==
    /\ content = [i \in Inum |-> <<>>]
    /\ open = [f \in File |-> Closed]
    /\ out = <<>>

Open(f) ==
    /\ open[f] = Closed
    /\ \E i \in Inum : open' = [open EXCEPT ![f] = [ip |-> i, off |-> 0]]
    /\ out' = <<>> /\ UNCHANGED content

Close(f) ==
    /\ open' = [open EXCEPT ![f] = Closed]
    /\ out' = <<>> /\ UNCHANGED content

\* A read returns bytes from the offset on and moves the offset behind them.
Read(f) ==
    /\ open[f] # Closed
    /\ LET bytes == content[open[f].ip]
           off == open[f].off
       IN  \E n \in 0 .. Len(bytes) - off :
              /\ out' = SubSeq(bytes, off + 1, off + n)
              /\ open' = [open EXCEPT ![f].off = off + n]
    /\ UNCHANGED content

\* A write puts bytes at the offset, over old ones or beyond the end.
Write(f) ==
    /\ open[f] # Closed
    /\ LET i == open[f].ip
           off == open[f].off
       IN  \E v \in Byte, n \in 1 .. MaxBytes - off :
              /\ content' = [content EXCEPT ![i] = [k \in 1 .. (IF off + n > Len(@) THEN off + n ELSE Len(@)) |->
                                IF k \in off + 1 .. off + n THEN v ELSE @[k]]]
              /\ open' = [open EXCEPT ![f].off = off + n]
    /\ out' = <<>>

\* The bytes of a file go when nobody has it open.
Discard(i) ==
    /\ \A f \in File : open[f] # Closed => open[f].ip # i
    /\ content' = [content EXCEPT ![i] = <<>>]
    /\ out' = <<>> /\ UNCHANGED open

\* Steps that no file takes part in.
Other == out' = <<>> /\ UNCHANGED <<content, open>>

Next ==
    \/ Other
    \/ \E f \in File : Open(f) \/ Close(f) \/ Read(f) \/ Write(f)
    \/ \E i \in Inum : Discard(i)

vars == <<content, open, out>>

Spec == Init /\ [][Next]_vars

=============================================================================
