SPECIFICATION Spec
CONSTANTS
    RbSize = 12
    Blocks <- MCBlocks
    FrameSize = 4
    FrameShift = 2
    DeltaContext = 1
    Requests <- MCRequests
    RecordingSize = 17
    Modulus = 24
INVARIANTS
    RowsFollowStream
    RowsAsAsked
    LossWasCounted
    DeltaRowsInContext
PROPERTIES
    ReadReturns
