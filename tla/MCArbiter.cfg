\* Three connections of two browsers on one session. Two ticks pass both limits:
\* an absence of 0 is inside the grace and of 1 outside, a gesture 1 old still
\* counts as presence and 2 old does not.
SPECIFICATION Spec
CONSTANTS
  Session = {s1}
  Client = {k1, k2}
  Conn = {c1, c2, c3}
  Dims = {d1}
  NoOne = NoOne
  NoDims = NoDims
  OwnerGrace = 1
  PresenceWindow = 1
  MaxTime = 2
CONSTRAINT OnePassive
SYMMETRY Symmetry
INVARIANTS
  TypeOK
  RecordsServeConnections
  AbsenceAndPresenceDated
  OnlyOwnerResizesWindow
  WindowSizedByOwner
PROPERTIES
  OwnerDisplacedOnlyByPresentHuman
  OwnershipOutlivesConnections
