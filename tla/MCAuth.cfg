\* Two requests at a time, two passkeys, two tokens, a clock past one expiry and far
\* enough for two slides of one token whose readings are a day apart.
SPECIFICATION Spec
CONSTANTS
  Req = {r1, r2}
  Passkey = {k1, k2}
  Token = {t1, t2}
  MaxSetupTries = 2
  TTL = 2
  SlideBelow = 2
  MaxChallenges = 2
  MaxTime = 3
SYMMETRY Symmetry
INVARIANTS
  TypeOK
  OneKeyPerChallenge
  CodeOpensOnlySetup
PROPERTIES
  DeadTokensStayDead
  OnlyUnusedExpire
  RunsOutOnlyByRace
