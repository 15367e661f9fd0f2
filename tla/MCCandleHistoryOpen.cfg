SPECIFICATION HistorySpec
CONSTANTS
    PageRequest = {r1}
    NoBar = NoBar
    NeverTraded = {3}
    Cursors = {4}
    PageSizes = {5}
    ChunkBars = 5
    MaxChunks = 2
    FirstTime = 5
    MaxTime = 9
    HistoryFaults = 1
INVARIANTS ClosedBarsAreFinal
CHECK_DEADLOCK FALSE
