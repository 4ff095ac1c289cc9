SPECIFICATION FairSpec
CONSTANTS
  Edge <- OneEdge
  Deletable = {"b"}
  SyncFlags = {TRUE, FALSE}
  Worker = {w1}
  Intake = {i1}
  Deleter = {d1}
  Gen = {1, 2}
  Batch = 10
  MaxAuthzAttempts = 2
  ReconcileLimit = 200
  EdgeListLimit = 1000
  MaxFaults = 1
  NoEdge = NoEdge
PROPERTY RevokedEdgeLosesTuple
