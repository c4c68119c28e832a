SPECIFICATION FairSpec
CONSTANTS
  x1 = x1
  x2 = x2
  x3 = x3
  x4 = x4
  p = p
  q = q
  u = u
  sol = sol
  a = a
  b = b
  NoPool = NoPool
  Txs = {x1, x2, x3, x4}
  Info <- MCInfo
  Owners = {p, q, u}
  Mints = {sol, a, b}
  Wsol = sol
  Million = 10
  BatchMax = 3
  BatchAge = 1
  FirstBackoff = 1
  MaxBackoff = 2
  Retention = 1
  PruneInterval = 1
  ChunkSize = 1
  MaxChunks = 2
  FaultKinds = {"write", "stream", "crash"}
  MaxFaults = 1
INVARIANTS NoneMissing CountedOnce BribesExact
PROPERTIES OldRowsGo StreamComesBack
