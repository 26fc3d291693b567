\* One client inserts, the other one does everything and takes no copy for fresh; one
\* packet is lost.
SPECIFICATION Spec
CONSTANTS
  c1 = c1
  c2 = c2
  c3 = c3
  Clients = {c1, c2}
  Srv = srv
  Files = {f1}
  InitialFiles = {f1}
  Commands <- EditorAndAll
  Offsets = {0}
  ClientSemantic = "AtMostOnce"
  FreshInterval = 0
  ServerSemantic = "AtMostOnce"
  NUM_TIMEOUTS = 2
  Dropping = {c1, srv}
  MaxDrops = 1
  MaxCalls = 3
  MaxClientRuns = 1
  MaxServerRuns = 1
INVARIANT ServiceInv
PROPERTY ImplementsAtMostOnce
\* Users stop, and processes end and are not started again.
CHECK_DEADLOCK FALSE
