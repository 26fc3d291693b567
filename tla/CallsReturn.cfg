\* One client shifts, the other one does everything; one packet is lost.
SPECIFICATION FairSpec
CONSTANTS
  c1 = c1
  c2 = c2
  c3 = c3
  Clients = {c1, c2}
  Srv = srv
  Files = {f1}
  InitialFiles = {f1}
  Commands <- ShifterAndAll
  Offsets = {0}
  ClientSemantic = "AtMostOnce"
  FreshInterval = 1
  ServerSemantic = "AtMostOnce"
  NUM_TIMEOUTS = 2
  Dropping = {c2, srv}
  MaxDrops = 1
  MaxCalls = 2
  MaxClientRuns = 1
  MaxServerRuns = 1
PROPERTY ClientCallReturns
PROPERTY ServerCallReturns
\* Users stop, and processes end and are not started again.
CHECK_DEADLOCK FALSE
