----------------------------- MODULE MCPkrStore -----------------------------
(* Instances of PkrStore for TLC. *)
EXTENDS PkrStore, TLC

\* Processes, commands and contents are interchangeable.
Symmetry == Permutations(Procs) \cup Permutations(Commands) \cup Permutations(Contents)
=============================================================================
