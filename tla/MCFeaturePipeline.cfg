SPECIFICATION Spec
CONSTANTS
    LeftContext = 2
    RightContext = 1
    BatchSize = 3
    History = 5
    FileLengths <- MCFileLengths
    MaxFrames = 12
INVARIANTS
    HistoryIsLatest
    OnlineRowsInContext
    FileRowsInContext
