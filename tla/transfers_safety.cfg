SPECIFICATION Spec
CONSTANTS
  alice = alice
  bob = bob
  carol = carol
  nobody = nobody
  r1 = r1
  r2 = r2
  r3 = r3
  k1 = k1
  k2 = k2
  k3 = k3
  None = None
  Users = {alice, bob, carol}
  Strangers = {nobody}
  Currencies = {"USD", "CDF"}
  Keys = {k1, k2, k3}
  Requests = {r1, r2, r3}
  Payloads <- RingPayloads
  Limit <- MCLimit
  InitialBalance <- MCInitial
  MaxBalance = 5
  WalletRank <- MCRank
  MaxRank = 3
  PoolSize = 3
SYMMETRY RequestSymmetry
PROPERTIES
  LedgerSpec
INVARIANTS
  TypeOK
  NoOverdraft
  LedgerMatchesRows
  AnsweredAsSettled
  NoWaitCycle
CHECK_DEADLOCK FALSE
