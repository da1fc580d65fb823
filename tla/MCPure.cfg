\* Driver tables of up to 3 drivers, the checksum fold over the whole
\* accumulator range, RC4 test vectors, and power_mod against repeated
\* multiplication, and the monitor's step on the city grid.
CONSTANTS
  MaxN = 3
  Ratings = {45, 48, 50}
  Dists = {0, 1}
  Fuels = {0, 1}
  DH_PRIME = 46337
  DH_GENERATOR = 3
  MaxSum = 261120
  Bases = {0, 1, 2, 3, 16807, 46336, 46337, 46338, 92679}
  MaxExp = 64
SPECIFICATION Spec
INVARIANT BasicMatchesSpec
INVARIANT SmartMatchesSpec
INVARIANT ChecksumMatchesSpec
INVARIANT Rc4KnownAnswer
INVARIANT PowModMatchesSpec
INVARIANT StepContract
