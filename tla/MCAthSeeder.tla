---------------------------- MODULE MCAthSeeder ----------------------------
\* Instance of AthSeeder for TLC: up to two feeders, which are alike.
EXTENDS AthSeeder, TLC

CONSTANTS f1, f2

FeederSymmetry == Permutations(Feeders)
=============================================================================
