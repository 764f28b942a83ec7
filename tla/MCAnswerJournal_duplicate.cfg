SPECIFICATION Spec
CONSTANTS
    Questions = {q1, q2}
    Foreign = Foreign
    LeftBehind = 0
    MaxEvents = 3
    MaxJournal = 3
    BatchSize = 2
    Flushes = {f1}
    Requests = {k1, k2}
    MaxFaults = 1
SYMMETRY Symmetry
PROPERTY NoDuplicate
