\* A client that has gone away before its reply is written.
CONSTANTS
  w1 = w1
  w2 = w2
  Workers = {w1, w2}
  Monitor = Monitor
  NoOwner = NoOwner
  Clients = {50}
  MaxDrivers = 1
  InitDrivers = 1
  HighRatings = {50}
  LowRatings = {45}
  Dists = {0}
  Modes = {0}
  MaxSecond = 1
  MaxRequests = 2
SPECIFICATION Spec
SYMMETRY WorkerSymmetry
INVARIANT WorkerPoolIntact
