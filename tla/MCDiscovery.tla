---------------------------- MODULE MCDiscovery ----------------------------
\* Names the mints of the instances of Discovery.
EXTENDS Discovery

CONSTANTS m1, m2
=============================================================================
