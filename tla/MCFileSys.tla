----------------------------- MODULE MCFileSys -----------------------------
(* Instances of FileSys for TLC. *)
EXTENDS FileSys, TLC

\* Processes, names and inode numbers are interchangeable; cache entries are
\* not: iget() takes the first empty one.
FileSysSymmetry == Permutations(Proc) \cup Permutations(Name) \cup Permutations(Inum)
=============================================================================
