------------------------------ MODULE MCSource ------------------------------
EXTENDS KencSource

MCAudio == 0..FileRecords - 1
=============================================================================
