SPECIFICATION Spec
CONSTANTS
    yes = yes
    no = no
    Callers = {p1, p2}
    Runs = {r1, r2}
    Commands = {c1, c2}
    Initial = "draft"
    Edges <- SmallEdges
    Contexts <- SmallContexts
    NoCommand = NoCommand
    MaxRev = 4
    Entries = {e1, e2}
SYMMETRY MemorySymmetry
INVARIANTS
    ServedWasCurrent
PROPERTIES
    RunsTakeEdgesOnce
    InvalidatedOnce
CHECK_DEADLOCK FALSE
