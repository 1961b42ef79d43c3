SPECIFICATION HookFairSpec
CONSTANTS
  o1 = o1  o2 = o2  n1 = n1  n2 = n2  q1 = q1  q2 = q2
  webhookWorker = webhookWorker
  Nil = Nil
  HookWorkerId <- SharedWorkerId
  Events = {o1, o2}
  Endpoints = {n1, n2}
  HookProcesses = {q1, q2}
  BatchSize = 2
  MaxAttempts = 2
  MaxFaults = 1
INVARIANT SucceededReachedAll
PROPERTIES NoRepeatAfterAck EventEnds
CHECK_DEADLOCK FALSE
