CONSTANTS
  w1 = w1
  w2 = w2
  Workers = {w1}
  Monitor = Monitor
  NoOwner = NoOwner
  NoFile = NoFile
  Truncated = Truncated
  Clients = {5}
  MaxDrivers = 1
  InitDrivers = 1
  HighRatings = {50}
  LowRatings = {45}
  Dists = {0}
  Modes = {0}
  MaxSecond = 2
  MaxRequests = 2
  MaxRuns = 2
SPECIFICATION LifeSpec
INVARIANT SnapshotLedgerBalanced
