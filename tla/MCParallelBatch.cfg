SPECIFICATION Spec
CONSTANTS
  N = 3
  w1 = w1
  w2 = w2
  w3 = w3
  Worker <- Workers2
  Batches <- SafetyBatches
  MaxCalls = 3
  MaxHostCalls = 1
  MaxSteps = 2
  StepBatch = 2
  Faults = {"cancel", "fatal", "hostPanic", "consolePanic"}
  NoWorker = NoWorker
  NoItem = NoItem
SYMMETRY Symmetry2
CHECK_DEADLOCK FALSE
INVARIANTS
  TypeOK
  OrderedExclusive
  OrderedTrace
  NoLineLost
  BudgetRespected
  FatalStopsDispatch
  FatalSurfaces
  StepsAccounted
  StepOverrunBounded
  EveryItemRuns
PROPERTY ConsolePanicStopsEffects
