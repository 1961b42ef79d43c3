\* The two reads of a confirmation round see different chain states.
SPECIFICATION Spec
CONSTANTS
  p1 = p1
  p2 = p2
  s1 = s1
  s2 = s2
  e1 = e1
  e2 = e2
  t1 = t1
  t2 = t2
  hotWorker = hotWorker
  None = None
  NoTx = NoTx
  Payouts = {p1}
  SigningWorkers = {s1}
  ExecutionWorkers = {e1}
  TxIds = {t1}
  WorkerId <- SharedWorkerId
  Amount <- Amounts
INVARIANT FailedNeverTransferred
CHECK_DEADLOCK FALSE
