SPECIFICATION Spec
CONSTANTS
    Procs = {p1, p2}
    Requests = {r1, r2}
    Jobs = {"init", "command", "effect", "compact", "export"}
    MaxSeq = 2
SYMMETRY ProcessSymmetry
INVARIANTS
    SchemaWhole
    RefusedOnlyByOthers
    AcceptedExportIsOfOneMoment
    LoneRebuildShowsCommit
