SPECIFICATION DeletionSpec
SYMMETRY Interchangeable
CHECK_DEADLOCK FALSE
CONSTANTS
  Call = {c1, c2}
  Saga = {d1}
  Searcher = {}
  EvidenceListed = TRUE
  RevisionLimit = 100
  MaxSagaFaults = 0
  None = None
INVARIANTS NoResurrection
