CONSTANTS
  a1 = a1
  a2 = a2
  s1 = s1
  s2 = s2
  i1 = i1
  i2 = i2
  posting = posting
  receipt = receipt
  None = None
  Attempts = {a1, a2}
  Stores = {s1, s2}
  Ids = {i1, i2}
  Writes = {posting, receipt}
SPECIFICATION FairSpec
INVARIANTS TypeOK EffectIsAllOrNothing
PROPERTIES ImplementsSingleUse CallsReturn
