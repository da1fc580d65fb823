\* Rate limiter, one worker: requests of one client reach the limiter one
\* after another across two seconds.  No drivers, so every admitted request
\* is answered "No drivers available".
CONSTANTS
  w1 = w1
  w2 = w2
  Workers = {w1}
  Monitor = Monitor
  NoOwner = NoOwner
  Clients = {5}
  MaxDrivers = 0
  InitDrivers = 0
  HighRatings = {50}
  LowRatings = {45}
  Dists = {0}
  Modes = {1}
  MaxSecond = 2
  MaxRequests = 6
SPECIFICATION Spec
INVARIANT RateLimitHolds
