\* One client inserts, the other one monitors up to twice; all processes run with -l.
SPECIFICATION Spec
CONSTANTS
  c1 = c1
  c2 = c2
  c3 = c3
  Clients = {c1, c2}
  Srv = srv
  Files = {f1}
  InitialFiles = {f1}
  Commands <- OneEditorWatchers
  Offsets = {0}
  ClientSemantic = "AtLeastOnce"
  FreshInterval = 1
  ServerSemantic = "AtLeastOnce"
  NUM_TIMEOUTS = 2
  Dropping = {}
  MaxDrops = 0
  MaxCalls = 4
  MaxClientRuns = 1
  MaxServerRuns = 1
INVARIANT MonitorsUpToDate
\* Users stop, and processes end and are not started again.
CHECK_DEADLOCK FALSE
