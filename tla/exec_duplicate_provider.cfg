SPECIFICATION Spec
CONSTANTS
    Tasks = {t1}
    Assignments = {a1, a2}
    Agents = {g1}
    Verifiers = {v1}
    Procs = {p1, p2}
    NoAssignment = NoAssignment
    MaxLeaseRev = 1
    MixedVerify = FALSE
SYMMETRY ProcSymmetry
INVARIANTS
    NoDuplicateLiveProvider
CHECK_DEADLOCK FALSE
