SPECIFICATION FairSupSpec
CONSTANTS
    Tasks = {t1}
    TheTask = t1
    Assignments = {1, 2, 3}
    Agents = {g1}
    TheAgent = g1
    Verifiers = {v1}
    TheVerifier = v1
    LongInterval = FALSE
    Procs = {p1, p2, op}
    Operator = op
    NoAssignment = 0
    MaxLeaseRev = 2
    MixedVerify = FALSE
INVARIANTS ExitIsTrue NotAbandoned
PROPERTIES ImplementsExecution WatchEnds
CHECK_DEADLOCK FALSE
