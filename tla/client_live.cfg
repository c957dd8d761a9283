SPECIFICATION FairSpec
CONSTANTS
  alice = alice
  bob = bob
  None = None
  Users = {alice}
  Resources = {"profile", "wallet"}
  MaxLogins = 1
  MaxEvents = 1
INVARIANT TypeOK
PROPERTIES
  StartEnds
  RequestsEnd
CHECK_DEADLOCK FALSE
