SPECIFICATION Spec
CONSTANTS
    Questions = {q1, q2}
    Foreign = Foreign
    LeftBehind = 0
    MaxEvents = 3
    MaxJournal = 3
    BatchSize = 2
    Flushes = {f1}
    Requests = {k1}
    MaxFaults = 0
SYMMETRY Symmetry
PROPERTY NoLoss
