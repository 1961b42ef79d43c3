SPECIFICATION FairSpec
CONSTANTS
  a1 = a1  e1 = e1  e2 = e2  e3 = e3  e4 = e4
  w1 = w1  m1 = m1  m2 = m2
  None = None
  Addresses = {a1}
  Events = {e1, e2, e3, e4}
  Screeners = {w1}
  Matchers = {m1, m2}
  Expected <- ExpectTwo
  To <- OneAddress
  Amount <- Amounts
  Chains <- Payments
  Time <- OneEarly
INVARIANTS ReceivedIsMatched CreditedOnce OnlyCleanMoneyCounts
PROPERTIES SettledOnce IndexedIsSettled DueIsClosed
CHECK_DEADLOCK FALSE
