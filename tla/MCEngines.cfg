SPECIFICATION MCSpec
CONSTANTS
    Addr = {a1, a2}
    NoAddr = NoAddr
    btc = btc
    gold = gold
    dex1 = dex1
    NoDex = NoDex
    t1 = t1
    t2 = t2
    Coin = {btc, gold}
    DexOf <- MCDexOf
    Task = {t1, t2}
    CoinsOf <- MCCoinsOf
    Threshold = 2
    MaxTracked = 1
    MaxVolume = 2
    Trader = {u1, u2, u3}
    WindowCoin = {c1}
    Lookback = 1
    MaxDelay = 1
    MaxTraders = 1
    MaxTrades = 3
    k1 = k1
    k2 = k2
    Key = {k1, k2}
    KeysOf <- MCKeysOf
    ChangeWindows <- MCChangeWindows
    PreMoveLookback = 1
    BufferSize = 3
    Disorder = 1
    DetectorCooldown = 1
    MinSamples = 2
INVARIANTS
    NoWhaleMissed TrackedIsStored TotalsMatchWindow
    SuppressedMeansSent WindowsSurviveDisorder
PROPERTIES TrackedKeepsProfile
SYMMETRY MCSymmetry
