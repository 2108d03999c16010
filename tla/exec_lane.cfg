SPECIFICATION Spec
CONSTANTS
    Tasks = {t1}
    Assignments = {a1, a2, a3}
    Agents = {g1}
    Verifiers = {v1}
    Procs = {p1, p2}
    NoAssignment = NoAssignment
    MaxLeaseRev = 2
    MixedVerify = FALSE
SYMMETRY LaneSymmetry
INVARIANTS
    TypeOK
    OneLiveLane
    PhaseAgreement
    SnapshotFaithful
    DoneIsAccepted
PROPERTIES
    ImplementsGovernance
    EndedStays
    EffectRunsOnce
CHECK_DEADLOCK FALSE
