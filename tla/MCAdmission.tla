----------------------------- MODULE MCAdmission -----------------------------
EXTENDS Admission, TLC
Symmetry == Permutations(Guests) \cup Permutations(Handlers)
=============================================================================
