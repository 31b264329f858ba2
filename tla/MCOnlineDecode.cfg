SPECIFICATION Spec
CONSTANTS
    FeatBatch = 4
    DecodeBatch = 3
    RightContext = 1
    MaxLoads = 7
    MaxFrames = 28
INVARIANTS
    ScoresInReach
    AllFramesSearched
    OnlyCutsRepeat
PROPERTY
    EndsUnlessSearchDies
