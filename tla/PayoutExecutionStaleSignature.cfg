\* A signature that outlives its 15 seconds before it is stored.
SPECIFICATION FairSpec
CONSTANTS
  p1 = p1
  p2 = p2
  s1 = s1
  s2 = s2
  e1 = e1
  e2 = e2
  t1 = t1
  t2 = t2
  hotWorker = hotWorker
  None = None
  NoTx = NoTx
  Payouts = {p1}
  SigningWorkers = {s1}
  ExecutionWorkers = {e1}
  TxIds = {t1}
  WorkerId <- SharedWorkerId
  Amount <- Amounts
PROPERTY ApprovedPayoutIsSigned
CHECK_DEADLOCK FALSE
