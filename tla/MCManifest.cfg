CONSTANTS
  a = a
  b = b
  x = x
  Files = {1}
  Contents <- ThreeContents
  Broken <- XBroken
  NoHash = NoHash
  MaxWrites = 2
  MaxRuns = 3
  MayLock = TRUE
SPECIFICATION Spec
INVARIANTS TypeOK RotIsFound
PROPERTIES BitRotIsReal CacheIsHonest
