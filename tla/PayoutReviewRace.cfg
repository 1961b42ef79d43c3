SPECIFICATION FairSpec
CONSTANTS
  p1 = p1  p2 = p2  p3 = p3  v1 = v1  v2 = v2  w1 = w1  w2 = w2
  None = None
  Payouts = {p1, p2}
  Requests <- Repeated
  Reviewers = {v1, v2}
  Screeners = {w1}
  Funds = 4
INVARIANTS DecidedOnce OnePayoutPerOrder ApprovedIsNotDenied
PROPERTY ScreeningEnds
