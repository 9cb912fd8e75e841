\* Two handlers and the pass, groups of two, every tmux and store call may fail.
SPECIFICATION Spec
CONSTANTS
  MaxId = 2
  Req = {r1, r2}
  MaxGroup = 2
  MaxCrashes = 0
  MayFail = TRUE
SYMMETRY Symmetry
INVARIANTS
  TypeOK
  NoUnreachableSession
  NoHalfGroup
PROPERTIES
  HeldLeftRunning
  RowsFollowLifecycle
