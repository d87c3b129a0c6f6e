----------------------------- MODULE MCRunQueue -----------------------------
EXTENDS RunQueueExecute

\* A chain: the image (5) needs the package of b (4), which is compiled (3)
\* against the package of a (2), which is compiled by 1.
ChainDepends == [t \in 1..5 |-> IF t = 1 THEN {} ELSE {t - 1}]
ChainFn == [t \in 1..5 |-> IF t <= 2 THEN "a" ELSE IF t <= 4 THEN "b" ELSE "i"]

\* A diamond: the package of d (5) covers two compilations (3, 4), against the
\* packages of a (1) and of b (2); the image (6) needs it.
DiamondDepends == <<{}, {}, {1}, {2}, {3, 4}, {5}>>
DiamondFn == <<"a", "b", "d", "d", "d", "i">>

\* Two multiconfigs build the same recipe: packages 2 and 4 over compilations
\* 1 and 3, and images 5 and 6.  The package of mc2 also needs the other's.
TwinDepends == <<{}, {1}, {}, {3}, {2}, {4}>>
TwinFn == <<"a1", "a1", "a2", "a2", "i1", "i2">>
TwinRecipe == <<"a", "a", "a", "a", "i", "i">>

\* One compilation (1) feeds two setscene tasks, the sysroot (2) and the package
\* (3) of a.  The package of d (6) covers two tasks, its compilation (4) against that
\* sysroot and its installation (5) against that package; the image is 7.
SharedDepends == <<{}, {1}, {1}, {2}, {3}, {4, 5}, {6}>>
SharedFn == <<"a", "a", "a", "d", "d", "d", "i">>
SharedRecipe == <<"a.compile", "a.sysroot", "a.package", "d.compile", "d.install", "d.package", "i">>

\* In the chain the setscene of 4 hard-depends on that of 2 (a tool in its
\* sysroot).
HardSetsceneDepends == [t \in {2, 4} |-> IF t = 4 THEN {2} ELSE {}]

NoSetsceneDepends == [t \in Setscene |-> {}]
OneHash == [t \in Tasks |-> 1]
AllObjects == {<<Recipe[t], h>> : t \in Setscene, h \in Hashes}
=============================================================================
