CONSTANTS
  a1 = a1
  a2 = a2
  a3 = a3
  i1 = i1
  posting = posting
  None = None
  Attempts = {a1, a2, a3}
  Ids = {i1}
  Writes = {posting}
  PoolSize = 2
  Faults = {"panic", "disconnect", "crash"}
SPECIFICATION FairSpec
PROPERTIES CallsReturn CredentialIsReleased
