\* One client reads two files and is started a second time.
SPECIFICATION Spec
CONSTANTS
  c1 = c1
  c2 = c2
  c3 = c3
  Clients = {c1}
  Srv = srv
  Files = {f1, f2}
  InitialFiles = {f1}
  Commands <- Readers
  Offsets = {0}
  ClientSemantic = "AtMostOnce"
  FreshInterval = 1
  ServerSemantic = "AtMostOnce"
  NUM_TIMEOUTS = 2
  Dropping = {}
  MaxDrops = 0
  MaxCalls = 2
  MaxClientRuns = 2
  MaxServerRuns = 1
INVARIANT CopiesOfOwnFile
\* Users stop, and processes end and are not started again.
CHECK_DEADLOCK FALSE
