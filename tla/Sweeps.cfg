SPECIFICATION Spec
CONSTANTS
  e1 = e1  e2 = e2
  n1 = n1  n2 = n2  w1 = w1  g1 = g1  x1 = x1
  None = None
  Events = {e1, e2}
  Amount <- Amounts
  Runs <- Snapshots
  Minimum = 1
  Planners = {n1, n2}
  Screeners = {w1}
  Signers = {g1}
  Executors = {x1}
CONSTRAINTS OneHazard PlansOnly
SYMMETRY Symmetry
INVARIANTS TypeOK OutcomeIsTrue SecondSweepIsBlind OnlyScreenedMoneySwept
PROPERTY AllowedWhenPlanned
CHECK_DEADLOCK FALSE
