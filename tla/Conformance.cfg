CONSTANTS
  None = None
  Attempts = 4
SPECIFICATION Spec
INVARIANTS CorrectStorePasses BrokenStoresAreCaught QuietChecksPass
PROPERTIES CheckEnds
CHECK_DEADLOCK FALSE
