SPECIFICATION Spec
CONSTANTS
  Variants = {v, w}
  Accounts = {a, b}
  Trainers = {b}
  Validators = {b}
  Challengers = {a, b}
  Rejecting = {}
  NoAccount = NoAccount
  Policies <- TwoPolicies
  Stakes = {1}
  Supply = 6
  MaxTime = 2
SYMMETRY Alike
INVARIANTS
  PotsMatchStakes
PROPERTIES
  DecidedForGood
  PaidFromPots
CHECK_DEADLOCK FALSE
