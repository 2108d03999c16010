------------------------- MODULE MCPkrClarification -------------------------
(* Instances of PkrClarification for TLC. *)
EXTENDS PkrClarification, TLC

\* Processes are interchangeable, and so are explicit responses.
Symmetry == Permutations(Procs) \cup Permutations(Explicit)
=============================================================================
