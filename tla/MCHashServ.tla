----------------------------- MODULE MCHashServ -----------------------------
EXTENDS HashServ, TLC

\* Sessions, taskhashes and outhashes are interchangeable: rows are picked by
\* their times, which are distinct.
Symmetry ==
  Permutations(Clients) \cup Permutations(Taskhashes) \cup Permutations(Outhashes)
=============================================================================
