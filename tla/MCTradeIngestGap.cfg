SPECIFICATION IngestSpec
CONSTANTS
  Streams = {s1, s2}
  Writers = {s1, s2, w1}
  Trades = {t1, t2}
  Effects = {t1, t2}
  NoWriter = NoWriter
  MaxAttempts = 1
  MaxOps = 2
  BufferCap = 3
INVARIANTS NoPermanentGap
