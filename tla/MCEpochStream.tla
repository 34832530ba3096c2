---------------------------- MODULE MCEpochStream ----------------------------
EXTENDS KencEpochStream
=============================================================================
