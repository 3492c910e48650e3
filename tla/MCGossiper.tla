----------------------------- MODULE MCGossiper -----------------------------
EXTENDS Gossiper, TLC
CONSTANTS m1, m2, m3, m4
MCNodeOf == (m1 :> 1) @@ (m2 :> 1) @@ (m3 :> 1) @@ (m4 :> 2)
=============================================================================
