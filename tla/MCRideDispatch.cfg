CONSTANTS
  w1 = w1
  w2 = w2
  Workers = {w1, w2}
  Monitor = Monitor
  NoOwner = NoOwner
  Clients = {5, 50}
  MaxDrivers = 2
  InitDrivers = 1
  HighRatings = {50}
  LowRatings = {45}
  Dists = {0, 1}
  Modes = {0, 1}
  MaxSecond = 1
  MaxRequests = 3
SPECIFICATION Spec
SYMMETRY WorkerSymmetry
INVARIANT TypeOK
INVARIANT DriverStatusConsistent
INVARIANT FuelInRange
INVARIANT NoDoubleBooking
PROPERTY ImplementsContract
