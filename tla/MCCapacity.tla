----------------------------- MODULE MCCapacity -----------------------------
EXTENDS Capacity, TLC
Symmetry == Permutations(Rooms) \cup Permutations(Sessions)
              \cup Permutations(Reservations) \cup Permutations(Requests)
=============================================================================
