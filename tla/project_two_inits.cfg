SPECIFICATION Spec
CONSTANTS
    Procs = {p1, p2}
    Requests = {r1, r2}
    Jobs = {"init"}
    MaxSeq = 2
INVARIANTS
    AtMostOneBootstrap
