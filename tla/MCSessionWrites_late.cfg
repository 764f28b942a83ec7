SPECIFICATION Spec
CONSTANTS
    Requests = {r1, r2, r3}
    Questions = {q1}
    Values = {a, b}
    Ops = {"batch", "final"}
    NoAnswer = NoAnswer
    Ungraded = Ungraded
    NoScore = NoScore
    NoRequest = NoRequest
    NoSnapshot = NoSnapshot
SYMMETRY Symmetry
PROPERTY LateWritesLeaveResultsAlone
