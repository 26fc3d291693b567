\* One client does everything but shift and is started up to four times; the server may be
\* started again once, and one of its packets is lost.
SPECIFICATION Spec
CONSTANTS
  c1 = c1
  c2 = c2
  c3 = c3
  Clients = {c2}
  Srv = srv
  Files = {f1}
  InitialFiles = {f1}
  Commands <- EditorAndAll
  Offsets = {0, 2147483647}
  ClientSemantic = "AtMostOnce"
  FreshInterval = 1
  ServerSemantic = "AtMostOnce"
  NUM_TIMEOUTS = 2
  Dropping = {srv}
  MaxDrops = 1
  MaxCalls = 2
  MaxClientRuns = 4
  MaxServerRuns = 2
INVARIANT TypeOK
INVARIANT AtMostOnceInv
\* Users stop, and processes end and are not started again.
CHECK_DEADLOCK FALSE
