CONSTANTS
  w1 = w1
  Workers = {w1}
  Payments <- MCPayments
  HotSet <- MCHotSet
  SpreadSet <- MCSpreadSet
  Capacity = 2
  Sample = 3
  Repointed = 2
  Failing = 3
  FailEvery = 2
  Disturbances = {"store"}
  MaxFaults = 1
SPECIFICATION Spec
INVARIANTS AcceptedMeansAccepted
CHECK_DEADLOCK FALSE
