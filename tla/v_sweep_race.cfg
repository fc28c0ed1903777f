SPECIFICATION Spec
CONSTANTS
  c1 = c1 c2 = c2 k1 = k1 k2 = k2
  Caller = {c1, c2}
  Key = {k1, k2}
  Users <- OneEach
  Resetters <- FirstOnly
  Settings <- OneInterval
  SweepInterval = 2
  TTL = 4
  Millisecond = 1
  Zero <- LongAgo
  NoEntry = NoEntry
  Horizon = 10
  Delay = 0
PROPERTIES OnlyIdleEvicted
