SPECIFICATION PositionsSpec
CONSTANTS
  w1 = w1
  s1 = s1
  s2 = s2
  Dex = {native, hip3a, hip3b}
  Native = native
  Whales <- MCWhales
  Traders <- MCTraders
  Interval <- MCInterval
  Batch <- MCBatch
  SlowestTick = 1
  MaxFaults = 1
PROPERTIES BaselineCatchesUp EveryMemberPolled
