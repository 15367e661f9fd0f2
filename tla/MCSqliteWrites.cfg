SPECIFICATION FairSpec
CONSTANTS
  Writers = {w1, w2, w3}
  Effects = {e1, e2}
  NoWriter = NoWriter
  MaxAttempts = 2
  MaxOps = 2
INVARIANTS AckedDurable OneWriterInside
PROPERTIES WritesEnd ImplementsContract
