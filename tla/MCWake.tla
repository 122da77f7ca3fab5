------------------------------- MODULE MCWake -------------------------------
EXTENDS Sleep
=============================================================================
