\* Nothing fails and nothing crashes: a kill meets a create.
SPECIFICATION Spec
CONSTANTS
  MaxId = 1
  Req = {r1, r2}
  MaxGroup = 1
  MaxCrashes = 0
  MayFail = FALSE
INVARIANT DeadMeansGone
