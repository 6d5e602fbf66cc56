SPECIFICATION LambdaLiveSpec
CONSTANTS
  Unit = 2
  Scalers = {e1}
  e1 = e1
  Configs <- SteadyConfigs
  Demand <- SteadyDemand
  MinSize = 0
  MaxSize = 2
  StaleAfter = 0
  AgeCap = 1
  Outcomes = {"ok", "failed"}
  MaxLeaving = 1
  SelfTerminating = FALSE
  Lookups = {"found", "failed"}
  TimeoutSet = TRUE
PROPERTY MovesTowardsTarget
PROPERTY Converges
PROPERTY InvocationsEnd
