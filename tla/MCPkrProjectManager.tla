------------------------ MODULE MCPkrProjectManager ------------------------
(* Instances of PkrProjectManager for TLC. *)
EXTENDS PkrProjectManager, TLC

\* Processes are interchangeable.
ProcessSymmetry == Permutations(Procs)
=============================================================================
