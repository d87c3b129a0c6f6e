-------------------------- MODULE MCProcessServer --------------------------
EXTENDS ProcessServer

CONSTANTS c1, c2
=============================================================================
