SPECIFICATION Spec
CONSTANTS
  MaxPositions = 14
  MaxSelectors = 2
  RowEntries <- MCRowEntries
  AggregateEntries <- MCAggregateEntries
  MaxOperations = 2
  MaxScalars = 2
  Configs <- MCConfigs
  Operation = {o1}
  MaxRows = 2
  MaxAttempts = 4
  MaxEntries = 3
  QueriedLists <- MCQueriedLists
  RowResults <- MCRowResults
  SingleResults <- MCSingleResults
  AggregateResults <- MCAggregateResults
  Inputs <- MCInputs
  MaxCalls = 4
  Parts = {"rows", "aggregates", "sideEffects"}
INVARIANTS
  PoliciesDenyByDefault
  EvidenceSound
  CountersExact
PROPERTIES
  CaptureIsGated
CHECK_DEADLOCK FALSE
