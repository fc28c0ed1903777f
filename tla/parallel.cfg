SPECIFICATION FairSpec
CONSTANTS
  a = a b = b c = c d = d g = g p = p root = root k1 = k1 k2 = k2
  Step <- MCStep
  Root = root
  StateName <- MCStateName
  NoState <- MCNoState
  Key <- MCKey
  Flows <- ParallelFlows
  Outcomes <- AllOutcomes
  ReadsMayFail = TRUE
  WritesMayFail = TRUE
  MayCrash = FALSE
INVARIANTS EngineInv StructuredConcurrency NoSilentFailure OutcomeIsPersisted
PROPERTIES RunReturns
