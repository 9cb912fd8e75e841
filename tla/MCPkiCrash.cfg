\* One change of the hostnames and a crash between the renames of the CA's pair.
SPECIFICATION PkiSpec
CONSTANTS
  Names = {{1}, {2}}
  CaValidity = 3
  LeafValidity = 2
  CaRenewUnder = 1
  LeafRotateUnder = 1
  MaxNow = 1
  MaxKeys = 4
CHECK_DEADLOCK FALSE
INVARIANT RecoversFromCrash
