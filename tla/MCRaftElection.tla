---------------------------- MODULE MCRaftElection ----------------------------
EXTENDS RaftElection, TLC
CONSTANTS a, b, c
MCLastIndex == (a :> 1) @@ (b :> 0) @@ (c :> 0)
Symmetry == Permutations({b, c})
=============================================================================
