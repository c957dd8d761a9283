SPECIFICATION FairSpec
CONSTANTS
  alice = alice
  bob = bob
  carol = carol
  nobody = nobody
  r1 = r1
  r2 = r2
  r3 = r3
  k1 = k1
  k2 = k2
  k3 = k3
  None = None
  Users = {alice, bob}
  Strangers = {nobody}
  Currencies = {"USD"}
  Keys = {k1, k2}
  Requests = {r1, r2, r3}
  Payloads <- PairPayloads
  Limit <- MCLimit
  InitialBalance <- MCInitial
  MaxBalance = 5
  WalletRank <- MCRank
  MaxRank = 3
  PoolSize = 2
PROPERTIES
  EveryRequestEnds
CHECK_DEADLOCK FALSE
