--------------------------- MODULE MCServerStart ---------------------------
EXTENDS ServerStart

CONSTANTS c1, c2
=============================================================================
