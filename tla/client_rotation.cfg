SPECIFICATION Spec
CONSTANTS
  alice = alice
  bob = bob
  None = None
  Users = {alice}
  Resources = {"profile", "wallet"}
  MaxLogins = 1
  MaxEvents = 1
INVARIANT SessionSurvivesExpiry
CHECK_DEADLOCK FALSE
