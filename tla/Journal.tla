------------------------------ MODULE Journal ------------------------------
(***************************************************************************)
(* What log.c promises the file system: a disk on which the writes of the  *)
(* operations in progress become durable all together, only when no        *)
(* operation is half done, or not at all when the machine stops first.     *)
(***************************************************************************)

CONSTANTS Proc, Block, Val, InitVal

VARIABLES
    volatile,   \* what bread() returns
    durable,    \* what a reboot would find
    active      \* processes between begin_op() and end_op()

vars == <<volatile, durable, active>>

Init ==
    /\ volatile = [b \in Block |-> InitVal]
    /\ durable = [b \in Block |-> InitVal]
    /\ active = {}

Begin(p) ==
    /\ p \notin active
    /\ active' = active \cup {p}
    /\ UNCHANGED <<volatile, durable>>

Write(p, b, v) ==
    /\ p \in active
    /\ volatile' = [volatile EXCEPT ![b] = v]
    /\ UNCHANGED <<durable, active>>

End(p) ==
    /\ p \in active
    /\ active' = active \ {p}
    /\ UNCHANGED <<volatile, durable>>

Commit ==
    /\ active = {}
    /\ durable' = volatile
    /\ UNCHANGED <<volatile, active>>

Crash ==
    /\ volatile' = durable
    /\ active' = {}
    /\ UNCHANGED durable

Next ==
    \/ \E p \in Proc : Begin(p) \/ End(p) \/ \E b \in Block, v \in Val : Write(p, b, v)
    \/ Commit
    \/ Crash

Spec == Init /\ [][Next]_vars
=============================================================================
