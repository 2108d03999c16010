SPECIFICATION Spec
CONSTANTS
    Kinds = {"prompt", "policy", "adapter", "workflow", "runtime"}
    Contents = {x, y}
    Others = {a, b, c}
    Proposers = {a}
    Owner = o
    Procs = {p1, p2}
    Nothing = Nothing
    OneRegistrar = TRUE
    MaxObservations = 1
    MaxVersions = 3
    MaxCandidates = 2
    MaxDecisions = 2
    MaxVerifications = 2
    Serial = {"register", "propose", "revise", "evaluate", "approve", "monitor"}
    MaxRev = 2
SYMMETRY EvolutionSymmetry
INVARIANTS
    TypeOK
    OneInForce
    PromotedAsApproved
    ActivatedOnce
PROPERTIES
    ImplementsVersionLine
    TakesThePlace
CHECK_DEADLOCK FALSE
