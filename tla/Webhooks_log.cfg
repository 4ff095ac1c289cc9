SPECIFICATION WebhooksFairSpec
CHECK_DEADLOCK FALSE
CONSTANTS
  Event = {1, 2, 3, 4}
  Reader = {}
  PageSize = 100
  Sub = {s1}
  Wants <- WantsAll
  Pass = {p1}
  HookLoop = p1
  Ping = ping
  Limit = 1
  MaxAttempts = 8
  MaxLog = 2
  Replayable = {}
  MaxHookFaults = 0
  NoSub = NoSub
PROPERTIES EventIsPushed
