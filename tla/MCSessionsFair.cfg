\* One handler and the pass, a crash, and every session that ends is noticed.
SPECIFICATION FairSpec
CONSTANTS
  MaxId = 2
  Req = {r1}
  MaxGroup = 2
  MaxCrashes = 1
  MayFail = TRUE
INVARIANT NoUnreachableSession
PROPERTY DeathNoticed
