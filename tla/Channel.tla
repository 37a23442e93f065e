------------------------------ MODULE Channel ------------------------------
(***************************************************************************)
(* What a pipe promises: a bounded first-in first-out channel of bytes     *)
(* with two ends, each of which is closed once.                            *)
(***************************************************************************)
EXTENDS Naturals, Sequences

CONSTANTS Val, Size

VARIABLES
    buf,        \* bytes written and not yet read
    got,        \* the byte delivered last
    ropen, wopen

vars == <<buf, got, ropen, wopen>>

Init == buf = <<>> /\ got \in Val /\ ropen = TRUE /\ wopen = TRUE

Put(v) ==
    /\ wopen /\ Len(buf) < Size
    /\ buf' = Append(buf, v)
    /\ UNCHANGED <<got, ropen, wopen>>

Get ==
    /\ ropen /\ buf # <<>>
    /\ got' = Head(buf) /\ buf' = Tail(buf)
    /\ UNCHANGED <<ropen, wopen>>

CloseRead == ropen /\ ropen' = FALSE /\ UNCHANGED <<buf, got, wopen>>

CloseWrite == wopen /\ wopen' = FALSE /\ UNCHANGED <<buf, got, ropen>>

Next == Get \/ CloseRead \/ CloseWrite \/ \E v \in Val : Put(v)

Spec == Init /\ [][Next]_vars
=============================================================================
