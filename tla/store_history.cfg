SPECIFICATION Spec
CONSTANTS
    Commands = {c1, c2}
    Contents = {d1}
    NoContent = NoContent
    Procs = {p1, p2}
    Keeps = {1, 2}
    MaxEvents = 2
    MaxSeq = 4
    Alone = {"compact", "restore"}
SYMMETRY Symmetry
INVARIANTS
    TypeOK
    HistoryContiguous
    RecentKept
    AcceptedIsACut
CHECK_DEADLOCK FALSE
