SPECIFICATION ExportSpec
CHECK_DEADLOCK FALSE
CONSTANTS
  Item = {1, 2}
  Tagged = {1, 2}
  RecordCap = 2
  MaxCommits = 2
  MaxImports = 1
INVARIANTS EdgesRoundTrip
