------------------------------ MODULE MCInstalled ------------------------------
EXTENDS KencInstalled
=============================================================================
