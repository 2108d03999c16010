---------------------------- MODULE MCPkrProject ----------------------------
(* Instances of PkrProject for TLC. *)
EXTENDS PkrProject

\* Processes are interchangeable.
ProcessSymmetry == Permutations(Procs)
=============================================================================
