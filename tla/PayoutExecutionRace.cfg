\* One payout, two signing and two execution processes under one worker id.
SPECIFICATION FairSpec
CONSTANTS
  p1 = p1
  p2 = p2
  s1 = s1
  s2 = s2
  e1 = e1
  e2 = e2
  t1 = t1
  t2 = t2
  hotWorker = hotWorker
  None = None
  NoTx = NoTx
  Payouts = {p1}
  SigningWorkers = {s1, s2}
  ExecutionWorkers = {e1, e2}
  TxIds = {t1}
  WorkerId <- SharedWorkerId
  Amount <- Amounts
INVARIANTS TypeOK TablesAgree SucceededIsTransferred FailedTransferWasMissed
PROPERTY OnlyHolderWrites ImplementsContract
CHECK_DEADLOCK FALSE
PROPERTY SignedPayoutEnds
