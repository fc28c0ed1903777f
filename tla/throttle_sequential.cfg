SPECIFICATION Spec
CONSTANTS
  c1 = c1 c2 = c2 k1 = k1 k2 = k2
  Caller = {c1}
  Key = {k1, k2}
  Users <- OneForAll
  Resetters <- OneResets
  Settings <- EveryKind
  SweepInterval = 2
  TTL = 3
  Millisecond = 1
  Zero <- LongAgo
  NoEntry = NoEntry
  Horizon = 6
  Delay = 1
INVARIANTS TypeOK SequentialInv IntervalRespected SweepComplete ResetHolds
PROPERTIES OnlyIdleEvicted ThrottlerSpec
