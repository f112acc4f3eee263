-------------------------------- MODULE MCHub --------------------------------
EXTENDS Hub, TLC
Symmetry == Permutations(Clients) \cup Permutations(Timers)
=============================================================================
