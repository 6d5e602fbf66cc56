SPECIFICATION ElasticLiveSpec
CONSTANTS
  i1 = i1
  i2 = i2
  Instances = {i1, i2}
  MaxGroup = 2
  WindowSize = 1
  BatchSize = 1
  Slots = 2
  Unreachable = {i1}
  Strides = {1}
INVARIANT ElasticTypeOK
PROPERTY MarkedOnGrounds
PROPERTY CheckUsesItsBudget
PROPERTY WavesNest
PROPERTY DanglingAreReplaced
