SPECIFICATION FairSpec
CONSTANTS
  Conns = {c1, c2}
  Keys = {btc, eth, odd}
  ValidKeys = {btc, eth}
  NoKey = NoKey
  MaxBars = 2
  MaxWire = 1
INVARIANTS RefsMatch NoLeakedBar RegistryKnowsUpstream NoSkippedBar
PROPERTIES SubscriptionsFollow WatchedBarArrives
