CONSTANTS
  rent = rent
  fees = fees
  dRent = dRent
  dFees = dFees
  dOther = dOther
  kBank = kBank
  kApp = kApp
  kForged = kForged
  ShortKey = ShortKey
  Transactions <- MCTransactions
  Digest <- MCDigest
  TrustedIssuers <- MCTrusted
  Credentials <- NoSubject
  AllowTestMethod = FALSE
  MaxLifetime = 2
  MaxClockSkew = 1
  TicksPerSecond = 2
  IntBits = 8
  MaxNow = 18
SPECIFICATION Spec
INVARIANTS EnforcedAtBothEnds
