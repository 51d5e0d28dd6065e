SPECIFICATION Spec
CONSTANTS
  MaxSteps = 9
  StepBatch = 3
  MaxCalls = 1
  MaxDepth = 2
  MaxItems = 2
  Source = 2
  MaxFrames = 4
  MaxSize = 3
INVARIANT StepsExact
