---------------------------- MODULE MCBroadcast ----------------------------
EXTENDS Broadcast, TLC
Symmetry == Permutations(Clients)
=============================================================================
