CONSTANTS
  w1 = w1
  w2 = w2
  Workers = {w1, w2}
  Payments <- MCPayments
  HotSet <- MCHotSet
  SpreadSet <- MCSpreadSet
  Capacity = 2
  Sample = 3
  Repointed = 2
  Failing = 3
  FailEvery = 2
  Disturbances = {"store", "expiry"}
  MaxFaults = 2
SPECIFICATION Spec
INVARIANTS PoolNeverPanics EveryPaymentIsCounted CleanRunIsReportedClean
PROPERTIES BenchEnds
CHECK_DEADLOCK FALSE
