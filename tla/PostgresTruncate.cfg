CONSTANTS
  a1 = a1
  a2 = a2
  i1 = i1
  posting = posting
  None = None
  Attempts = {a1, a2}
  Ids = {i1}
  Writes = {posting}
  PoolSize = 2
  Faults = {"disconnect"}
SPECIFICATION TruncateSpec
PROPERTIES RowsAreImmutable
