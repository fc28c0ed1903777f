SPECIFICATION Spec
CONSTANTS
  g1 = g1 g2 = g2 a = a b = b x = x
  Goroutine = {g1, g2}
  StateName = {a, b}
  Foreign = {}
  Owns <- OneNameEach
  Absent = Absent
  SuccessReasons <- MCSuccessReasons
  ForeignConditions <- MCForeignConditions
  MaxVersion = 2
INVARIANTS AcknowledgedIsPersisted
