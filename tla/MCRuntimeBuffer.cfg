SPECIFICATION Spec
CONSTANTS
    Writers = {w1, w2}
    Submits = {s1}
    Drainers = {d1, d2}
    Questions = {q1, q2}
    Values = {a}
    NoAnswer = NoAnswer
    NoScore = NoScore
    NoHolder = NoHolder
SYMMETRY Symmetry
INVARIANT TypeOK
INVARIANT AnsweredIsKept
 
 
