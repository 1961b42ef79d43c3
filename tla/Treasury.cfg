SPECIFICATION FairSpec
CONSTANTS
  d1 = d1  p1 = p1  s1 = s1  l1 = l1
  None = None
  Deposits = {d1}
  Payouts = {p1}
  Sweeps = {s1}
  Losses = {l1}
  Wallets <- TwoWallets
  Hot <- HotWallet
  Amount <- Amounts
  Source <- Sources
  Target <- Targets
INVARIANTS SnapshotAddsUp VerdictIsTrue LedgerIsQuiet
PROPERTY LossIsReported
CHECK_DEADLOCK FALSE
