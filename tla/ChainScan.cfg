SPECIFICATION FairSpec
CONSTANTS
  q1 = q1  q2 = q2  q3 = q3  t1 = t1  t2 = t2  t3 = t3  t4 = t4
  usdt = usdt  usdc = usdc  indexer = indexer
  None = None
  Processes = {q1, q2, q3}
  WorkerId <- SharedWorkerId
  Contract <- TwoContracts
  Transfers = {t1, t2, t3, t4}
  TokenOf <- Tokens
  BlockOf <- Heights
  Executed <- Successful
  Start = 1
  Top = 3
INVARIANTS TypeOK PrefixIndexed StopsForOtherNetwork
PROPERTIES OnlyHolderWrites SolidIsIndexed
CHECK_DEADLOCK FALSE
