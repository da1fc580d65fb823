--------------------------- MODULE MCRideDispatch ---------------------------
EXTENDS RideDispatch, TLC

CONSTANTS w1, w2

\* Workers are interchangeable processes running the same loop.
WorkerSymmetry == Permutations({w1, w2})

=============================================================================
