SPECIFICATION Spec
CONSTANTS
  Caller = {g1, g2}
  StateName = {a, b}
  NoEntry = NoEntry
INVARIANTS LockInv NoConcurrentMapAccess SnapshotIsWhole
PROPERTIES KeeperSpec
