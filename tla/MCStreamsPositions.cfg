SPECIFICATION StreamsSpec
CONSTANTS
    n1 = n1
    n2 = n2
    x1 = x1
    AllCoins <- MCAllCoins
    NativeCoins <- MCNativeCoins
    MaxConnections = 2
    MaxWhales = 2
    StreamFaults = 2
PROPERTIES PositionsFollowTable
CHECK_DEADLOCK FALSE
