SPECIFICATION Spec
CONSTANTS
  Callers = {tick, positions}
  Fingerprints = {f1, f2}
  Group <- MCGroup
  Cooldown = 3
  Window = 3
  MaxPerWindow = 1
  QueryLimit = 1
  CacheCap = 1
  MaxTime = 4
  MaxLag = 2
  MaxRestarts = 1
INVARIANTS CooldownHolds RateBound
