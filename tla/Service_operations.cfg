SPECIFICATION ServiceSpec
CHECK_DEADLOCK FALSE
CONSTANTS
  \* Intake
  a = a
  b = b
  k1 = k1
  k2 = k2
  f1 = f1
  f2 = f2
  Call = {1, 2, 3}
  Name = {k1, k2}
  Resource = {a, b}
  Fact = {f1, f2}
  Request <- AllRequests
  None = None
  MaxFaults = 2
  \* ChangeFeed
  Event = {1, 2, 3, 4}
  Reader = {"r1", "r2"}
  PageSize = 2
  \* Quota
  QuotaCall = {"q1", "q2"}
  Rate = {0, 1}
  StoreDefault = 2
  LimiterDefault = 0
  Burst = 2
  QuotaTTL = 1
  IdleLimit = 0
  MaxQuotaTime = 1
  \* Credentials
  Key = {"key1", "key2", "key3", "other"}
  Agent = {"agent1", "agent2"}
  AgentOf <- MCAgentOf
  Admin = {"admin1", "admin2"}
  \* Identity
  Token <- MCToken
  SigningKey = {"old", "new"}
  Rogue = "rogue"
  NoKid = "nokid"
  ApiKey = {"agentkey"}
  IdRequest = {"r1", "r2"}
  CacheTTL = 1
  MaxIdTime = 2
  \* Gate
  Person = {"ann", "bob"}
  Org = {"o1", "o2"}
  HomeOf <- MCHomeOf
  ClaimedScopes <- MCScopes
  PlatformAdmin = {"bob"}
  MaxGateFaults = 1
  \* Sources
  Registrar = {"g1", "g2"}
  Revision = {"1", "2"}
  NoMapping = "none"
  MaxWrites = 4
  \* Mapping
  MapId = {"self", "p", "u", "case1"}
  Self = "self"
  VisRef <- MCVisRef
  Stub <- MCStub
  Allowlists <- MCAllowlists
  Claims <- MCClaims
  Ceilings <- MCCeilings
  EdgeMappings <- MCEdgeMappings
  MaxEdges = 2
  \* Export
  Item = {1, 2, 3}
  Tagged = {1, 2}
  RecordCap = 2
  MaxCommits = 3
  MaxImports = 2
  \* MemoryLedger
  MemCall = {"m1", "m2"}
  MemRes = {"x", "y"}
  MemKey = {"k1", "k2"}
  MemEvent = {"e1"}
  MemDeletable = {"x"}
  MemRequest <- MCMemRequest
  MemWorker = {"w1", "w2"}
  Lease = 2
  MaxMemTime = 3
  MaxRows = 2
  \* Pool
  IntakeTx = {"i1", "i2", "i3"}
  SagaTx = {"d1"}
  Row = {"x", "y", "z"}
  RowOf <- MCRowOf
  ParentOf <- MCParentOf
  PoolSize = 2
  \* Migrate
  LastVersion = 3
  Replaces = {1, 2}
  MigrateRun = {"run1", "run2"}
  MaxMigrateFaults = 1
  \* Lifecycle
  HttpReq = {"h1"}
  DrainRow = {"r1", "r2"}
  DrainBatch = 1
  WorkerLoop = {"relay", "authz"}
INVARIANTS
  OneCommitPerKey ReplaySameOutcome LedgerIsWhole AcceptedIsAnnounced
  MissedOnlyByRace WithinBudget LimiterFollowsCache
  RotationIsSafe AcceptedIsCurrent GateIsExact StoredAsAnswered
  MappedWithinRegistration EdgesAsMapped TransferIsSound
  MemoryStillHolds StuckOnlyByDeletion MigrationIsSound ExitIsOrderly
PROPERTIES
  OverwriteOnlyByRace ImplementsKeyRing
