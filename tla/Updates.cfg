\* One client makes two files and inserts into them, the other one monitors and
\* reads them.
SPECIFICATION Spec
CONSTANTS
  c1 = c1
  c2 = c2
  c3 = c3
  Clients = {c1, c2}
  Srv = srv
  Files = {f1, f2}
  InitialFiles = {}
  Commands <- WatchersRead
  Offsets = {0}
  ClientSemantic = "AtMostOnce"
  FreshInterval = 1
  ServerSemantic = "AtMostOnce"
  NUM_TIMEOUTS = 2
  Dropping = {}
  MaxDrops = 0
  MaxCalls = 4
  MaxClientRuns = 1
  MaxServerRuns = 1
SYMMETRY FileSymmetry
INVARIANT MonitoringInv
INVARIANT HeardInv
INVARIANT MonitorsUpToDate
INVARIANT IdleNotRegistered
INVARIANT AtMostOnce
INVARIANT CopiesOfOwnFile
PROPERTY GivesUpOnlyIfUnheard
\* Users stop, and processes end and are not started again.
CHECK_DEADLOCK FALSE
