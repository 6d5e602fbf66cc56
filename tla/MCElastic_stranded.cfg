SPECIFICATION ElasticLiveSpec
CONSTANTS
  i1 = i1
  i2 = i2
  Instances = {i1, i2}
  MaxGroup = 2
  WindowSize = 1
  BatchSize = 1
  Slots = 2
  Unreachable = {}
  Strides = {1}
PROPERTY StoppedAgentsAreReplaced
