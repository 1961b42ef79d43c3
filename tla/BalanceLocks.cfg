SPECIFICATION Spec
CONSTANTS
  a1 = a1  a2 = a2  a3 = a3  p1 = p1  p2 = p2  d1 = d1
  None = None
  Sessions = {a1, a2, a3}
  Payouts = {p1, p2}
  Deposits = {d1}
  Amount <- Amounts
SYMMETRY SessionSymmetry
INVARIANTS CheckedBalanceStands DeadlockNeedsFinalization
PROPERTY ImplementsMerchantBalance
