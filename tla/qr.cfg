SPECIFICATION FairSpec
CONSTANTS
  alice = alice
  bob = bob
  p1 = p1
  p2 = p2
  None = None
  Users = {alice, bob}
  TwoLetter = {alice}
  PayIds = {p1, p2}
  MaxCalls = 3
  MaxKeys = 1
  MaxTime = 1
  MaxScans = 2
INVARIANTS
  TypeOK
  PaysWhoShowsIt
  KeepsHisCode
  ScansAreAudited
PROPERTIES
  ScanEnds
CHECK_DEADLOCK FALSE
