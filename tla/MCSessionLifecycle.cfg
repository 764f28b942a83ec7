SPECIFICATION Spec
CONSTANTS
    Devices = {d1, d2}
    Desks = {t1}
    Schedulers = {p1}
    Sessions = {s1, s2, s3}
    MaxAttempts = 2
    NoSession = NoSession
SYMMETRY Symmetric
INVARIANT TypeOK
INVARIANT OneOpenSession
INVARIANT StatusFitsColumns
PROPERTY StaffDecisionStands
PROPERTY AttemptsSpec
CHECK_DEADLOCK FALSE
