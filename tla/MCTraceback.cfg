SPECIFICATION TracebackSpec
CONSTANTS
    Arcs <- MCArcs
    Start = 0
    Final <- MCFinal
    NoWord = ""
    BatchFrames = 2
    MaxFrames = 6
INVARIANTS
    NothingTakenBack
    NothingHeldBack
    WalkEnds
    ReportIsBestPath
