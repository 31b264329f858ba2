\* A file of ten samples: one Read of five, then of two, the last one short.
CONSTANTS
    Lengths = {10}
    BufferSize = 5
    BatchSize = 2
    AudioTypes = {"DATA_WAVE", "DATA_FEATURE"}
    MaxOutputs = 2
    FrameSize = 4
    FrameShift = 2
    RightContext = 1
SPECIFICATION Spec
INVARIANTS
    ServerSurvivesSession
