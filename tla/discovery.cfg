SPECIFICATION FairSpec
CONSTANTS
  s1 = s1
  s2 = s2
  a = a
  None = None
  Base = 3001
  Attempts = 2
  ApiPorts <- MCApiPorts
  StopPorts = {3000, 3001}
  Servers = {s1, s2}
  Foreign <- MCForeign
  Callers = {a}
  MaxRetries = 1
  MaxEvents = 2
INVARIANTS
  TypeOK
  RequestFindsServer
  JoinsWhatRuns
PROPERTIES
  BootEnds
  RequestEnds
CHECK_DEADLOCK FALSE
