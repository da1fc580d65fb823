---------------------------- MODULE MCLifecycle ----------------------------
EXTENDS Lifecycle, TLC

CONSTANTS w1, w2

\* Workers are interchangeable processes running the same loop.
LifeSymmetry == Permutations({w1, w2})

=============================================================================
