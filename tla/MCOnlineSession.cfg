SPECIFICATION SessionSpec
CONSTANTS
    FrameSize = 2
    FrameShift = 1
    NVec = 3
    Delay = 4
    Energies <- MCEnergies
    Offset = 1
    Recover = 1
    Onset = 2
    HangoverFrames = 2
    DecodeBatch = 3
    RightContext = 1
    MaxLoads = 12
    MaxFrames = 36
INVARIANTS
    HangoverKept
    CutAfterSpeech
    UnwrittenRowsAlone
PROPERTIES
    ReturnsInSpeech
    ImplementsOnlineDecode
    SpeechEndCuts
    LastAudioEndsSession
