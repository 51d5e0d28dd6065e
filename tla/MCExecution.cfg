SPECIFICATION FairSpec
CONSTANTS
  MaxSteps = 3
  StepBatch = 2
  MaxCalls = 1
  MaxDepth = 2
  MaxItems = 2
  Source = 2
  MaxFrames = 4
  MaxSize = 3
INVARIANTS
  DepthRestored
  WorkBounded
  CancelBounded
PROPERTIES
  UncatchableUnwinds
  FatalEnds
  ExecutionEnds
