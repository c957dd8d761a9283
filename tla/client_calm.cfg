SPECIFICATION Spec
CONSTANTS
  alice = alice
  bob = bob
  None = None
  Users = {alice, bob}
  Resources = {"profile", "wallet", "history", "qr"}
  MaxLogins = 2
  MaxEvents = 4
CONSTRAINT OnlyCalm
SYMMETRY UserSymmetry
INVARIANTS
  CalmShowsOwnData
  CalmStaysLoggedIn
  CalmLogoutIsFinal
  CalmDiskIsMemory
CHECK_DEADLOCK FALSE
