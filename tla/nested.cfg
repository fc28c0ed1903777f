SPECIFICATION Spec
CONSTANTS
  a = a b = b c = c d = d g = g p = p root = root k1 = k1 k2 = k2
  Step <- MCStep
  Root = root
  StateName <- MCStateName
  NoState <- MCNoState
  Key <- MCKey
  Flows <- NestedFlows
  Outcomes <- AllOutcomes
  ReadsMayFail = FALSE
  WritesMayFail = FALSE
  MayCrash = TRUE
INVARIANTS FailureStopsFlow WaitIsRequeuedSoon GeneratedWhenReached
PROPERTIES LifecycleSpec
