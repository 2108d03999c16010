SPECIFICATION Spec
CONSTANTS
    Contexts = {q1, q2}
    Proposals = {q1, q2}
    Asked = {q1}
    Protected = {q1}
    Direction = {q1}
    Answers = {yes, other, skip}
    Explicit = {yes, other}
    NoAnswer = NoAnswer
    Procs = {p1, p2}
    MaxRev = 5
    MaxKills = 1
    MaxMoves = 1
SYMMETRY Symmetry
INVARIANTS
    TypeOK
    NothingUnapproved
    MadeAsResolved
CHECK_DEADLOCK FALSE
