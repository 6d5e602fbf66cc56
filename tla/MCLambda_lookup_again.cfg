SPECIFICATION LambdaSpec
CONSTANTS
  Unit = 2
  Scalers = {e1}
  e1 = e1
  Configs <- CooldownConfig
  Demand <- SomeJobs
  MinSize = 0
  MaxSize = 2
  StaleAfter = 1
  AgeCap = 2
  Outcomes = {"ok"}
  MaxLeaving = 1
  SelfTerminating = FALSE
  Lookups = {"found", "behind", "failed"}
  TimeoutSet = TRUE
PROPERTY GlobalsKeepLastScaleIn
