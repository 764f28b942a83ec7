SPECIFICATION FairSpec
CONSTANTS
    Questions = {1, 2}
    TextQuestions = {2}
    MaxEdits = 2
    BatchSize = 1
    MaxFaults = 1
    TokenRefresh = FALSE
    NoMessage = NoMessage
    NoSheet = NoSheet
INVARIANT TypeOK
INVARIANT RecordedIsKept
INVARIANT FlushedIsHandedIn
INVARIANT LeftMeansHandedIn
PROPERTY PaperSpec
PROPERTY UnsyncedIsSent
CHECK_DEADLOCK FALSE
