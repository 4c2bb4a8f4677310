CONSTANTS
  a1 = a1
  a2 = a2
  a3 = a3
  i1 = i1
  posting = posting
  receipt = receipt
  None = None
  Attempts = {a1, a2, a3}
  Ids = {i1}
  Writes = {posting, receipt}
  PoolSize = 2
  Faults = {"begin", "statement", "effect", "panic", "disconnect", "crash"}
SPECIFICATION AdminSpec
SYMMETRY Symmetry
INVARIANTS TypeOK SpentAtMostOnce BothOrNeither VerdictIsTrue EffectsRunAlone
PROPERTIES ImplementsSingleUse FailureIsFinal RowsAreImmutable RetrySettlesOutcome
