---------------------------- MODULE MCNamespace ----------------------------
\* Instances of Namespace for TLC.
EXTENDS Namespace, TLC

CONSTANTS t1, t2, x1, x2, x3, x4, d1, d2, f, g, h

MCThreads   == {t1, t2}
MCOneThread == {t1}
MCNodes     == {x1, x2, x3, x4}  \* one for each path and one that is open
MCDirs      == {d1, d2}
MCNames     == {f, g, h}

\* One directory with two names, one with one; or only the first.
MCPaths    == {<<d1, f>>, <<d1, g>>, <<d2, h>>}
MCTwoPaths == {<<d1, f>>, <<d1, g>>}
MCAllowed  == Paths

\* The two names of the first directory may be swapped.
MCSymmetry == Permutations(Threads) \cup Permutations(Nodes) \cup Permutations({f, g})
=============================================================================
