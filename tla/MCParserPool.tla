---------------------------- MODULE MCParserPool ----------------------------
EXTENDS ParserPool, TLC

CONSTANTS p1, p2, r1, r2, r3

JobsDef == (p1 :> {r1, r2}) @@ (p2 :> {r3})
=============================================================================
