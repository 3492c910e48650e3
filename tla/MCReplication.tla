---------------------------- MODULE MCReplication ----------------------------
EXTENDS Replication, TLC
CONSTANTS a, b, c
Symmetry == Permutations(Members)
=============================================================================
