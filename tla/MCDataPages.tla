---------------------------- MODULE MCDataPages ----------------------------
EXTENDS DataPages, TLC

CONSTANTS k1, k2, k3

Symm == Permutations(Keys)
============================================================================
