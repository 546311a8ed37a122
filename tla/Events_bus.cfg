SPECIFICATION Spec
CONSTANTS
  c = c
  h = h
  jsonl = jsonl
  webhook = webhook
  Conns <- MCConns
  Handlers <- MCHandlers
  Logs <- MCLogs
  Hooks <- MCHooks
  SinkLists <- MCSinkLists
  QueueSize = 1
  FileSize = 1
  Keeps = {1, 3}
  MaxAttempts = 1
  HasDLQ = TRUE
  MaxEvents <- MCMaxEvents
  MaxOffers = 4
  MaxFaults = 1
  MaxStarts = 2
INVARIANTS
  EveryEventAccounted
  LogKeepsNewest
  InOrder
  PanicsAreRecovered
PROPERTIES
  CloseEnds
CHECK_DEADLOCK FALSE
