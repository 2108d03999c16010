SPECIFICATION Spec
CONSTANTS
    Procs = {p1, p2}
    Months = 2
    Days = 3
    MaxWork = 2
SYMMETRY ProcessSymmetry
INVARIANTS
    NoFailedProject
    PlanHasEveryMonth
    PlanNotNewer
PROPERTIES
    DoneStays
CHECK_DEADLOCK FALSE
