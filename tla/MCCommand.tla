------------------------------ MODULE MCCommand ------------------------------
EXTENDS KencCommand
=============================================================================
