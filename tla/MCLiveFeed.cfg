SPECIFICATION FairSpec
CONSTANTS
  Coins = {btc}
  DequeCap = 3
  Limit = 2
  SeenCap = 3
  MaxAlerts = 4
  MaxRevisions = 3
INVARIANTS AlertsInOrder SnapshotsShownUnlessRaced
PROPERTIES AlertsArrive
