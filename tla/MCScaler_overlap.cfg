SPECIFICATION LiveSpec
CONSTANTS
  Unit = 2
  Scalers = {s1, s2}
  s1 = s1
  s2 = s2
  Configs <- OverlapConfigs
  Demand <- SteadyDemand
  MinSize = 0
  MaxSize = 2
  StaleAfter = 0
  AgeCap = 1
  Outcomes = {"ok"}
  MaxLeaving = 1
  SelfTerminating = FALSE
PROPERTY Converges
PROPERTY NeverOvershoots
