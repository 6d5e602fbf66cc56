SPECIFICATION Spec
CONSTANTS
  Unit = 2
  Scalers = {s1}
  s1 = s1
  Configs <- RequestConfigs
  Demand <- RequestDemand
  MinSize = 0
  MaxSize = 3
  StaleAfter = 1
  AgeCap = 2
  Outcomes = {"ok", "failed", "lost"}
  MaxLeaving = 1
  SelfTerminating = TRUE
INVARIANT TypeOK
INVARIANT RequestsWithinBounds
PROPERTY SignalsPaced
PROPERTY StaleMetricsHoldCapacity
PROPERTY MissingAgentsKeepInstances
