SPECIFICATION FairSpec
CONSTANTS
  f1 = f1
  f2 = f2
  None = None
  Flows = {f1, f2}
  Amounts = {2}
  Funds = 4
  MaxFetches = 2
  MaxRefresh = 1
  MaxSends <- TwoFlows
INVARIANTS
  TypeOK
  OnePaymentPerFlow
  SuccessIsPaid
PROPERTIES
  SubmissionEnds
CHECK_DEADLOCK FALSE
