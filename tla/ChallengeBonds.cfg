SPECIFICATION Spec
CONSTANTS
  Challenges = {c1,c2}
  Accounts = {a,escrow,r}
  Escrow = escrow
  Rejecting = {r}
  NoAccount = none
  Amounts = {0,1,2}
  Windows = {1}
  Word = 100
  Supply = 3
  MaxTime = 2
INVARIANTS
  Solvent
  RefundedOrSlashed
PROPERTIES
  ImplementsCustody
CHECK_DEADLOCK FALSE
