------------------------------ MODULE MCOrders ------------------------------
EXTENDS Orders, TLC
Symmetry == Permutations(Handler) \cup Permutations(Courier)
=============================================================================
