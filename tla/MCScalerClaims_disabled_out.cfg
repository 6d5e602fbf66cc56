SPECIFICATION Spec
CONSTANTS
  Unit = 2
  Scalers = {s1}
  s1 = s1
  Configs <- DisableOutConfigs
  Demand <- OneJob
  MinSize = 0
  MaxSize = 2
  StaleAfter = 1
  AgeCap = 2
  Outcomes = {"ok"}
  MaxLeaving = 1
  SelfTerminating = FALSE
PROPERTY DisabledScaleOutNeverRaises
