SPECIFICATION Spec
CONSTANTS
    Requests = {r1, r2, r3, r4}
    Questions = {q1}
    Values = {a, b, c}
    Ops = {"single", "batch", "final"}
    NoAnswer = NoAnswer
    Ungraded = Ungraded
    NoScore = NoScore
    NoRequest = NoRequest
    NoSnapshot = NoSnapshot
SYMMETRY Symmetry
PROPERTY EveryAnswerIsGradedOnSubmit
