------------------------------- MODULE MCBuild -------------------------------
EXTENDS KencBuild, TLC

CONSTANTS a, b

MCSymmetry == Permutations({a, b})
=============================================================================
