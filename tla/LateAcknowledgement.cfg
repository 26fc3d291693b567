\* Clients run with -l acknowledge every copy of an update.
SPECIFICATION Spec
CONSTANTS
  c1 = c1
  c2 = c2
  c3 = c3
  Clients = {c1, c2}
  Srv = srv
  Files = {f1}
  InitialFiles = {f1}
  Commands <- WatchersEdit
  Offsets = {0}
  ClientSemantic = "AtLeastOnce"
  FreshInterval = 1
  ServerSemantic = "AtMostOnce"
  NUM_TIMEOUTS = 2
  Dropping = {}
  MaxDrops = 0
  MaxCalls = 4
  MaxClientRuns = 1
  MaxServerRuns = 1
PROPERTY AnswerImpliesExecuted
\* Users stop, and processes end and are not started again.
CHECK_DEADLOCK FALSE
