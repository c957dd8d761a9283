SPECIFICATION Spec
CONSTANTS
  alice = alice
  bob = bob
  phone = phone
  tablet = tablet
  c1 = c1
  c2 = c2
  c3 = c3
  None = None
  Phones = {alice, bob}
  Devices = {phone, tablet}
  Calls = {c1, c2, c3}
  Ops = {"register", "login", "refresh", "revoke", "revokeAll"}
  Seeded = {alice}
  Settings <- MCSettings
  FallbackLife = 1
  MaxLife = 1
  MaxTime = 2
SYMMETRY CallSymmetry
INVARIANTS
  TypeOK
  OneAccountOneWallet
  NewDeviceIsReported
  SessionServesItsTerm
PROPERTIES
  RevokedStaysRevoked
  WritesOwnSessions
CHECK_DEADLOCK FALSE
