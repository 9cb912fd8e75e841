\* Two requests with one token delete the two passkeys there are.
SPECIFICATION Spec
CONSTANTS
  Req = {r1, r2}
  Passkey = {k1, k2}
  Token = {t1}
  MaxSetupTries = 1
  TTL = 1
  SlideBelow = 0
  MaxChallenges = 2
  MaxTime = 0
SYMMETRY Symmetry
INVARIANT LastPasskeyKept
