SPECIFICATION FairSpec
CONSTANTS
    Contexts = {c1, c2}
    Proposals = {}
    Asked = {c1}
    Protected = {c1}
    Direction = {}
    Answers = {yes, skip}
    Explicit = {yes}
    NoAnswer = NoAnswer
    Procs = {p1, p2}
    MaxRev = 5
    MaxKills = 1
    MaxMoves = 1
PROPERTIES
    FollowsWorkflow
    AssessmentEnds
CHECK_DEADLOCK FALSE
