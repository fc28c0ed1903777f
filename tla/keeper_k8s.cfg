SPECIFICATION Spec
CONSTANTS
  g1 = g1 g2 = g2 a = a b = b x = x
  Goroutine = {g1}
  StateName = {a, b}
  Foreign = {x}
  Owns <- OneGoroutine
  Absent = Absent
  SuccessReasons <- MCSuccessReasons
  ForeignConditions <- MCForeignConditions
  MaxVersion = 3
INVARIANTS SessionInv AcknowledgedIsPersisted
PROPERTIES KeeperSpec ForeignIsKept
