SPECIFICATION Spec
CONSTANTS
  f1 = f1
  f2 = f2
  None = None
  Flows = {f1}
  Amounts = {1, 2}
  Funds = 3
  MaxFetches = 3
  MaxRefresh = 2
  MaxSends <- OneFlow
INVARIANTS
  SuccessShowsThePayment
CHECK_DEADLOCK FALSE
