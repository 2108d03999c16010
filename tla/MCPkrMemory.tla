---------------------------- MODULE MCPkrMemory ----------------------------
(* Instances of PkrMemory for TLC. *)
EXTENDS PkrMemory, TLC

CONSTANTS yes, no

\* Two states and back again; the second edge to the same state is never used.
SmallEdges ==
    <<[from |-> "draft", to |-> "review", when |-> {yes}],
      [from |-> "review", to |-> "draft", when |-> {yes}],
      [from |-> "draft", to |-> "review", when |-> {no}]>>
SmallContexts == {yes, no}

\* Processes, runs, entries and commands are interchangeable.
MemorySymmetry ==
    Permutations(Callers) \cup Permutations(Runs) \cup Permutations(Entries)
    \cup Permutations(Commands)
=============================================================================
