\* Two tabs of one browser, of different sizes, on one session.
SPECIFICATION TileSpec
CONSTANTS
  Session = {s1}
  Client = {k1}
  Conn = {c1, c2}
  Dims = {d1, d2}
  NoOne = NoOne
  NoDims = NoDims
  OwnerGrace = 1
  PresenceWindow = 1
  MaxTime = 0
PROPERTY ActiveResizeSizesWindow
