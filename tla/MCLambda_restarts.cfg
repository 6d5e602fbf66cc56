SPECIFICATION LambdaSpec
CONSTANTS
  Unit = 2
  Scalers = {e1}
  e1 = e1
  Configs <- WarmConfigs
  Demand <- WarmDemand
  MinSize = 0
  MaxSize = 2
  StaleAfter = 1
  AgeCap = 2
  Outcomes = {"ok", "failed"}
  MaxLeaving = 1
  SelfTerminating = TRUE
  Lookups = {"found"}
  TimeoutSet = TRUE
INVARIANT LambdaTypeOK
PROPERTY ImplementsPaced
