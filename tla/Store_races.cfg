SPECIFICATION StoresSpec
CHECK_DEADLOCK FALSE
CONSTANTS
  \* AuthzSync
  Edge <- OneEdge
  Deletable = {"b"}
  SyncFlags = {TRUE, FALSE}
  Worker = {1, 2}
  Intake = {i1}
  Deleter = {d1}
  Gen = {1, 2}
  Batch = 1
  MaxAuthzAttempts = 2
  ReconcileLimit = 200
  EdgeListLimit = 1000
  MaxFaults = 1
  NoEdge = NoEdge
  \* Projection
  res = res
  Org = {o1, o2}
  EventId = {e1}
  Resource = {res}
  ResourceOf <- OneResource
  Relay = {r1}
  Consumer = {n1}
  RelayBatch = 10
  MaxDeliver = 2
  MaxPipeFaults = 2
  NoOutboxRow = NoOutboxRow
  \* Deletion
  Call = {1, 2}
  Saga = {3, 4}
  Searcher = {s1}
  EvidenceListed = TRUE
  RevisionLimit = 100
  MaxSagaFaults = 2
  None = None
  \* Retrieval
  Node = {1, 2, 3, 4}
  Arc <- Ring
  Class = {"restricted", "secret", "odd"}
  Start <- Ledgers
  Asked <- Requests
  MaxDepth = 3
  MaxAsk = 4
  DefaultAsk = 3
  HitLimit = 2
  EdgeCap = 3
  MaxChanges = 2
  MaxReadFaults = 1
  NoNode = NoNode
  \* Webhooks
  Event = {1, 2}
  Reader = {}
  PageSize = 1
  Sub = {s2}
  Wants <- WantsAll
  Pass = {p1, p2}
  HookLoop = p1
  Ping = ping
  Limit = 1
  MaxAttempts = 2
  MaxLog = 1000
  Replayable <- ReplayTwo
  MaxHookFaults = 2
  NoSub = NoSub
INVARIANTS
  TupleRequested OutboxCoversEdge
  RecordedBeforeAck PublishedIsNotLost
  VisibilityRevokedFirst TombstoneDominates ManifestIsHonest
  OnlyVisibleDisclosed NoDanglingEdge FoundThroughReadable CompleteUnlessTruncated
  DeliveredOncePerPass DeadMeansExhausted
PROPERTIES
  RemovedOnlyIfRevoked HeldErasedOnlyByRace NearestKept
