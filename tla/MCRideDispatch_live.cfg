\* Two workers, one driver and a slot for a join, two connections (rides,
\* joins or requests turned away), with the map monitor's passes running
\* forever after.  The tank may run dry during a ride (burns are unbounded), so the refuelling
\* cycle is on the way back.
CONSTANTS
  w1 = w1
  w2 = w2
  Workers = {w1, w2}
  Monitor = Monitor
  NoOwner = NoOwner
  Clients = {50}
  MaxDrivers = 2
  InitDrivers = 1
  HighRatings = {50}
  LowRatings = {45}
  Dists = {0, 1}
  Modes = {0}
  MaxSecond = 1
  MaxRequests = 2
SPECIFICATION LiveSpec
PROPERTY DriverReturns
