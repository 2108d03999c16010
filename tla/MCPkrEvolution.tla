---------------------------- MODULE MCPkrEvolution ----------------------------
(* Instances of PkrEvolution for TLC. *)
EXTENDS PkrEvolution, TLC

\* Processes are interchangeable, and so are the principals and contents.
EvolutionSymmetry == 
    Permutations(Procs) \cup Permutations(Others \ Proposers) \cup Permutations(Contents)
=============================================================================
