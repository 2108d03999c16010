SPECIFICATION Spec
CONSTANTS
    Commands = {c1, c2}
    Contents = {d1, d2}
    NoContent = NoContent
    Procs = {p1, p2, p3}
    Keeps = {1}
    MaxEvents = 2
    MaxSeq = 3
    Alone = {"snapshot", "restore"}
SYMMETRY Symmetry
INVARIANTS
    AppliedOnce
PROPERTIES
    HistoryKept
CHECK_DEADLOCK FALSE
