SPECIFICATION Spec
CONSTANTS
  alice = alice
  bob = bob
  None = None
  Users = {alice, bob}
  Resources = {"profile", "wallet", "qr"}
  MaxLogins = 2
  MaxEvents = 1
INVARIANT OwnQr
CHECK_DEADLOCK FALSE
