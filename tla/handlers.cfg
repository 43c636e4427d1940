SPECIFICATION FairHandlersSpec
CONSTANTS
  r1 = r1
  r2 = r2
  r3 = r3
  Symbols <- MCSymbols
  Requests <- MCRequests
  Scenarios <- MCScenarios
  Uuid <- MCUuid
  Environments <- MCEnvironments
  ValidNames <- MCValidNames
  Local <- MCLocal
  Cold <- MCCold
  BatchSlots = 1
  OptimizeSlots = 1
  ResizeSlots = 1
  MaxBatch = 2
  MaxDim = 4
  MaxFaults = 1
CHECK_DEADLOCK FALSE
INVARIANTS TypeOK AnswersTruthful ArchiveExact CachedFits
PROPERTY RequestsAnswered
