------------------------------ MODULE MCModel ------------------------------
EXTENDS KencModel, TLC

Symmetry == Permutations(Threads) \cup Permutations(Files)
=============================================================================
