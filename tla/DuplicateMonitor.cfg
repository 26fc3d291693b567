\* A server run with -l executes a repeated Monitor call twice.
SPECIFICATION Spec
CONSTANTS
  c1 = c1
  c2 = c2
  c3 = c3
  Clients = {c1, c2}
  Srv = srv
  Files = {f1}
  InitialFiles = {f1}
  Commands <- OneEditorWatchers
  Offsets = {0}
  ClientSemantic = "AtMostOnce"
  FreshInterval = 1
  ServerSemantic = "AtLeastOnce"
  NUM_TIMEOUTS = 2
  Dropping = {}
  MaxDrops = 0
  MaxCalls = 3
  MaxClientRuns = 1
  MaxServerRuns = 1
INVARIANT IdleNotRegistered
\* Users stop, and processes end and are not started again.
CHECK_DEADLOCK FALSE
