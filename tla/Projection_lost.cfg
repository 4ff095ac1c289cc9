SPECIFICATION ProjectionSpec
CHECK_DEADLOCK FALSE
CONSTANTS
  res = res
  Org = {o1}
  EventId = {e1}
  Resource = {res}
  ResourceOf <- OneResource
  Relay = {r1}
  Consumer = {n1}
  RelayBatch = 10
  MaxDeliver = 5
  MaxPipeFaults = 6
  NoOutboxRow = NoOutboxRow
INVARIANTS NeverSilentlyLost
