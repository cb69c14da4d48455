---------------------------- MODULE MCGraphStore ----------------------------
EXTENDS GraphStore, TLC

CONSTANTS s1, s2

SessionSymmetry == Permutations(Sessions)
=============================================================================
