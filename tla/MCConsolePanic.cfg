SPECIFICATION FairSpec
CONSTANTS
  N = 3
  w1 = w1
  w2 = w2
  w3 = w3
  Worker <- Workers3
  Batches <- ConsoleBatches
  MaxCalls = 3
  MaxHostCalls = 1
  MaxSteps = 2
  StepBatch = 2
  Faults = {"consolePanic"}
  NoWorker = NoWorker
  NoItem = NoItem
CHECK_DEADLOCK FALSE
PROPERTY BatchReturns
