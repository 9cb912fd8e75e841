\* Each of the components on a small instance; every component stops at the
\* bound on its steps.
SPECIFICATION PartsSpec
CONSTANTS
  s1 = s1
  s2 = s2
  s3 = s3
  s4 = s4
  local = local
  remote = remote
  t1 = t1
  Session = {s1, s2, s3, s4}
  Server = {local, remote}
  Local = local
  ServerOf <- MCServerOf
  DirOf <- MCDirOf
  FirstLayouts <- MCFirstLayouts
  FirstDirs <- MCFirstDirs
  NoTile = NoTile
  MAX_COLS = 3
  Unit = 60
  MinTile = 10
  Snap = 5
  Delta = {15}
  MaxSteps = 3
  Phone <- MCPhone
  PhoneTiles <- MCPhoneTiles
  FontSizes = {9, 13}
  MaxTaps = 4
  MaxLoads = 4
  MaxOutput = 2
  Host = {"h1", "h2"}
  Nowhere = "none"
  ToolsOf <- MCToolsOf
  RootPath <- MCRootPath
  Listings <- MCListings
  VisibleOn <- MCVisibleOn
  FirstRecent <- MCFirstRecent
  Targets <- MCTargets
  Dotted = {".g"}
  Needles = {{}, {".g"}, {"a"}}
  RecentLimit = 1
  MaxMoves = 3
  Opened <- MCOpened
  FirstRows <- MCFirstRows
  MaxClicks = 3
  Origin = {"o1", "o2"}
  MaxBuild = 2
  MaxEntry = 2
  MaxTurns = 8
  Tile = {t1}
  SessionId = {s1}
  SessionOf <- MCSessionOf
  FirstBackoff = 1
  MaxBackoff = 4
  Names <- MCNames
  CaValidity = 4
  LeafValidity = 2
  CaRenewUnder = 1
  LeafRotateUnder = 1
  MaxNow = 3
  MaxKeys = 4
CHECK_DEADLOCK FALSE
INVARIANTS
  PartsTypeOK
  LoadingEnds
  ServersKeepApart
  
  EndIsTrue
  FilesFit
  CacheFollowsDisk
  ServesUnexpired
PROPERTIES
  TilesGoByIntent
  HiddenTilesStay
  DropSwapsTheTwo
  StaysOnSession
  TextNeverGoesBack
  LoadingIsAnswered
  Reconnects
