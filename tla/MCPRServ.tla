------------------------------ MODULE MCPRServ ------------------------------
EXTENDS PRServ, TLC

CONSTANTS s1, s2, c1, c2, k, h1, h2

\* Each client has a server of its own.
HomeDef == (c1 :> s1) @@ (c2 :> s2)

\* Two servers that write, or one that writes and one that is read-only.
ModesDef == {(s1 :> FALSE) @@ (s2 :> b) : b \in BOOLEAN}
\* A new file, and one in which two checksums are numbered.
TablesDef == {(<<k, h1>> :> -1) @@ (<<k, h2>> :> -1), (<<k, h1>> :> 0) @@ (<<k, h2>> :> 1)}
=============================================================================
