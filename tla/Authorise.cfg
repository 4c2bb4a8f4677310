CONSTANTS
  a1 = a1
  a2 = a2
  rent = rent
  fees = fees
  dRent = dRent
  dFees = dFees
  kBank = kBank
  kApp = kApp
  ShortKey = ShortKey
  None = None
  Transactions <- MCTransactions
  Digest <- MCDigest
  TrustedIssuers <- MCTrusted
  AllowTestMethod = FALSE
  MaxLifetime = 1
  MaxClockSkew = 0
  TicksPerSecond = 1
  IntBits = 8
  Calls = {a1, a2}
  Ids = {"j1", "j2"}
  Issuers <- TwoIssuers
  Lifetimes = {1, 2}
  Strays <- MCStrays
  FreshIds = "all issuers"
  MaxMinted = 2
  MaxClock = 3
SPECIFICATION Spec
CHECK_DEADLOCK FALSE
INVARIANTS TypeOK AuthorityBehindEveryEffect OneEffectPerCredential ReplayMeansSpent
