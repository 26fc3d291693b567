\* One client inserts, two monitor; the server may lose a packet.
SPECIFICATION Spec
CONSTANTS
  c1 = c1
  c2 = c2
  c3 = c3
  Clients = {c1, c2, c3}
  Srv = srv
  Files = {f1}
  InitialFiles = {f1}
  Commands <- OneEditorWatchers
  Offsets = {0}
  ClientSemantic = "AtMostOnce"
  FreshInterval = 1
  ServerSemantic = "AtMostOnce"
  NUM_TIMEOUTS = 2
  Dropping = {srv}
  MaxDrops = 1
  MaxCalls = 2
  MaxClientRuns = 1
  MaxServerRuns = 1
SYMMETRY Symmetry
INVARIANT UpdatesReachAll
\* Users stop, and processes end and are not started again.
CHECK_DEADLOCK FALSE
