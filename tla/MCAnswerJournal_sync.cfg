SPECIFICATION FairSpec
CONSTANTS
    Questions = {q1}
    Foreign = Foreign
    LeftBehind = 1
    MaxEvents = 3
    MaxJournal = 2
    BatchSize = 2
    Flushes = {f1, f2}
    Requests = {k1, k2}
    MaxFaults = 1
INVARIANT SeenIsStored
INVARIANT JournalIsBounded
INVARIANT FlagHasOwner
 
PROPERTY EventsAreSynced
