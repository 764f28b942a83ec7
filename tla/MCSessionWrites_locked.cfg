SPECIFICATION FairSpec
CONSTANTS
    Requests = {r1, r2, r3}
    Questions = {q1, q2}
    Values = {a, b}
    Ops = {"single", "final", "kick"}
    NoAnswer = NoAnswer
    Ungraded = Ungraded
    NoScore = NoScore
    NoRequest = NoRequest
    NoSnapshot = NoSnapshot
INVARIANT SubmittedScoreIsOfStoredAnswers
INVARIANT KickedStaysTerminated
PROPERTY PaperSpec
PROPERTY EveryRequestIsAnswered
