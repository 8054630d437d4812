---------------------------- MODULE MCNodeAttrs ----------------------------
\* Instances of NodeAttrs for TLC.
EXTENDS NodeAttrs, TLC

CONSTANTS t1, t2

MCThreads  == {t1, t2}
MCSymmetry == Permutations(Threads)
=============================================================================
