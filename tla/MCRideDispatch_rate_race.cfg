\* Rate limiter, two workers: a request can read time(NULL), be overtaken
\* by requests that read the next second, and only then take the mutex.
\* No drivers, so every admitted request is answered "No drivers available".
CONSTANTS
  w1 = w1
  w2 = w2
  Workers = {w1, w2}
  Monitor = Monitor
  NoOwner = NoOwner
  Clients = {5}
  MaxDrivers = 0
  InitDrivers = 0
  HighRatings = {50}
  LowRatings = {45}
  Dists = {0}
  Modes = {1}
  MaxSecond = 2
  MaxRequests = 8
SPECIFICATION Spec
SYMMETRY WorkerSymmetry
INVARIANT RateLimitHolds
