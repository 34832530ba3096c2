----------------------------- MODULE MCConverter -----------------------------
EXTENDS KencConverter

CONSTANTS a, b, c

\* The runtime bundle and one input.
MCSources == <<"bundle", "input">>
=============================================================================
