SPECIFICATION FairK8sSpec
CONSTANTS
  a = a b = b c = c d = d g = g p = p root = root k1 = k1 k2 = k1
  Step <- MCStep
  Root = root
  StateName <- MCStateName
  NoState <- MCNoState
  Key = {k1}
  Flows <- ReconcilerFlows
  Outcomes = {"nil", "plain"}
  ReadsMayFail = FALSE
  WritesMayFail = TRUE
  MayCrash = TRUE
  PredicateFunc <- MCPredicateFunc
  Built <- MCBuilt
  Guards <- MCGuards
  MaxDisturbances = 3
INVARIANTS K8sInv OutcomeIsOnServer GuardHoldsOnServer
PROPERTIES SuccessIsFinal ServerConverges
