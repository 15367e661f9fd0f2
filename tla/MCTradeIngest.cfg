SPECIFICATION IngestFairSpec
CONSTANTS
  Streams = {s1, s2}
  Writers = {s1, s2, w1}
  Trades = {t1, t2, t3}
  Effects = {t1, t2, t3}
  NoWriter = NoWriter
  MaxAttempts = 2
  MaxOps = 2
  BufferCap = 2
INVARIANTS NoGapWithoutFault NoGapWithoutOverlap
PROPERTIES StoredUnlessFault
