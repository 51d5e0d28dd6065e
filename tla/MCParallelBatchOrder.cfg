SPECIFICATION FairSpec
CONSTANTS
  N = 3
  w1 = w1
  w2 = w2
  w3 = w3
  Worker <- Workers3
  Batches <- OrderBatches
  MaxCalls = 3
  MaxHostCalls = 2
  MaxSteps = 2
  StepBatch = 2
  Faults = {"fatal", "hostPanic"}
  NoWorker = NoWorker
  NoItem = NoItem
INVARIANT SleeperHasWaker
PROPERTIES
  OrderedSpec
  BatchReturns
