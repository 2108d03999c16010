--------------------------- MODULE MCPkrExecution ---------------------------
(* Instances of PkrExecution for TLC. *)
EXTENDS PkrExecution, TLC

\* Processes are interchangeable.
ProcSymmetry == Permutations(Procs)

\* And so are the Assignments of one Task: the code never compares two ids but for
\* equality.  An idle process names one by CHOOSE, and no action or property reads
\* it before the process has chosen its own.
LaneSymmetry == {[x \in Procs \cup Assignments |-> IF x \in Procs THEN s[x] ELSE t[x]] :
                    s \in Permutations(Procs), t \in Permutations(Assignments)}
=============================================================================
