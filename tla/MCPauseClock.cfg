SPECIFICATION FairSpec
CONSTANTS
    Desks = {t1, t2}
    Sessions = {s1, s2}
    Duration = 1
    EndTime = 2
    Tolerance = 1
    Grace = 1
    LastCall = 2
    MaxRequests = 4
    MaxTime = 7
    NoTime = NoTime
INVARIANT TypeOK
 
PROPERTY NotClosedEarly
PROPERTY SessionsEnd
CHECK_DEADLOCK FALSE
