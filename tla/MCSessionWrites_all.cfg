SPECIFICATION Spec
CONSTANTS
    Requests = {r1, r2, r3}
    Questions = {q1, q2}
    Values = {a, b}
    Ops = {"single", "batch", "final", "force", "expire", "terminate", "kick"}
    NoAnswer = NoAnswer
    Ungraded = Ungraded
    NoScore = NoScore
    NoRequest = NoRequest
    NoSnapshot = NoSnapshot
SYMMETRY Symmetry
INVARIANT TypeOK
INVARIANT FinalizedOnceByStudent
PROPERTY SavedOnlyWhileOpen
PROPERTY FinalCountsStoredAnswers
PROPERTY EndedSheetStands
