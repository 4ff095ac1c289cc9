SPECIFICATION WorkersSpec
CHECK_DEADLOCK FALSE
CONSTANTS
  \* AuthzSync
  Edge <- OneEdge
  Deletable = {"b"}
  SyncFlags = {TRUE, FALSE}
  Worker = {w1}
  Intake = {i1}
  Deleter = {d1}
  Gen = {1, 2}
  Batch = 10
  MaxAuthzAttempts = 2
  ReconcileLimit = 200
  EdgeListLimit = 1000
  MaxFaults = 2
  NoEdge = NoEdge
  \* Projection
  res = res
  Org = {o1}
  EventId = {e1}
  Resource = {res}
  ResourceOf <- OneResource
  Relay = {r1, r2}
  Consumer = {n1}
  RelayBatch = 10
  MaxDeliver = 2
  MaxPipeFaults = 3
  NoOutboxRow = NoOutboxRow
  \* Webhooks
  Event = {1, 2}
  Reader = {}
  PageSize = 1
  Sub = {s1}
  Wants <- WantsAll
  Pass = {p1, p2}
  HookLoop = p1
  Ping = ping
  Limit = 1
  MaxAttempts = 2
  MaxLog = 1000
  Replayable <- ReplayTwo
  MaxHookFaults = 2
  NoSub = NoSub
PROPERTIES
  ActiveEdgeConverges OutboxDrains AcceptedIsProjected EventIsPushed
