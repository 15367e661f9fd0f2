SPECIFICATION StreamsSpec
CONSTANTS
    n1 = n1
    n2 = n2
    x1 = x1
    AllCoins <- MCAllCoins
    NativeCoins <- MCNativeCoins
    MaxConnections = 2
    MaxWhales = 1
    StreamFaults = 2
INVARIANTS OneStreamPerCoin StorageOutlivesTasks
PROPERTIES StreamsFollowListing CancelEnds
CHECK_DEADLOCK FALSE
