SPECIFICATION FairSpec
CONSTANTS
    Drainers = {d1, d2}
    s1 = s1
    s2 = s2
    Sessions = {s1, s2}
    SessionOf <- MCSessionOf
    MaxEvents = 4
    BatchSize = 2
    BurstSize = 2
    Minor = {2, 3}
    MaxKicks = 1
    MaxFaults = 1
    Free = Free
INVARIANT TypeOK
 
INVARIANT CountIsLogged
INVARIANT Kept
PROPERTY EndedStands
 
PROPERTY Handled
CHECK_DEADLOCK FALSE
