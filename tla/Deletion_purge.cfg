SPECIFICATION DeletionSpec
SYMMETRY Interchangeable
CHECK_DEADLOCK FALSE
CONSTANTS
  Call = {c1}
  Saga = {d1}
  Searcher = {}
  EvidenceListed = FALSE
  RevisionLimit = 100
  MaxSagaFaults = 0
  None = None
INVARIANTS CompletedMeansErased
