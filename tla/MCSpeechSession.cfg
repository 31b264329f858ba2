\* The first Read takes five samples and later ones two: files that end
\* within the first Read, with it, and with a short or a full later batch.  A
\* frame has four samples and the next one begins two later, so that files of
\* one and of five samples have no more frames than the right context.
CONSTANTS
    Lengths = {1, 5, 6, 7, 8, 9, 10, 11}
    BufferSize = 5
    BatchSize = 2
    AudioTypes = {"DATA_WAVE", "DATA_FEATURE"}
    MaxOutputs = 2
    FrameSize = 4
    FrameShift = 2
    RightContext = 1
SPECIFICATION Spec
INVARIANTS
    ProtocolFollowed
    AudioInOrder
PROPERTIES
    FileIsDecoded
    WorkerFreedUnlessSearchDies
