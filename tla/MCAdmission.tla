----------------------------- MODULE MCAdmission -----------------------------
EXTENDS KencAdmission
=============================================================================
