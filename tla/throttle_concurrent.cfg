SPECIFICATION Spec
CONSTANTS
  c1 = c1 c2 = c2 k1 = k1 k2 = k2
  Caller = {c1, c2}
  Key = {k1, k2}
  Users <- OneEach
  Resetters <- OneResets
  Settings <- OneMinute
  SweepInterval = 2
  TTL = 2
  Millisecond = 2
  Zero <- LongAgo
  NoEntry = NoEntry
  Horizon = 5
  Delay = 1
INVARIANTS TwiceInv NeverThrice
PROPERTIES SweepsApart
