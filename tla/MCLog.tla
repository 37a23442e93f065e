------------------------------- MODULE MCLog -------------------------------
(* Instances of Log for TLC. *)
EXTENDS Log, TLC

\* Processes, and blocks, are interchangeable.
LogSymmetry == Permutations(Proc) \cup Permutations(Block)
=============================================================================
