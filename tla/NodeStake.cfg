SPECIFICATION Spec
CONSTANTS
  Accounts = {n1, a}
  Nodes = {n1}
  Minimums = {1, 2}
  Periods = {0, 2}
  Timeouts = {0, 1}
  MaxTime = 3
  Amounts = {1, 2}
  Rejecting = {}
  Supply = 2
INVARIANTS
  UnbondingHonoured
  NothingStranded
PROPERTIES
  ImplementsCustody
CHECK_DEADLOCK FALSE
