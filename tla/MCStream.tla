------------------------------ MODULE MCStream ------------------------------
EXTENDS KencStream, TLC

Symmetry == Permutations(Audio)
=============================================================================
