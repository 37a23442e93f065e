------------------------------- MODULE MCProc -------------------------------
(* Instances of Proc for TLC. *)
EXTENDS Proc, TLC

\* CPUs are interchangeable: nothing orders or names them.
CpuSymmetry == Permutations(Cpu)
=============================================================================
