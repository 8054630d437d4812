----------------------- MODULE MCRandomAccessReader -----------------------
\* Instances of RandomAccessReader for TLC.
EXTENDS RandomAccessReader, TLC

CONSTANTS t1, t2, t3, r1, r2, r3, r4

MCThreads == {t1, t2, t3}
MCTwoThreads == {t1, t2}
MCReaders == {r1, r2, r3, r4}
MCThreeReaders == {r1, r2, r3}

\* Reads of a file of two bytes: both halves and the whole of it.
MCLength == 2
MCRequests == {[offset |-> 0, size |-> 1], [offset |-> 1, size |-> 1],
               [offset |-> 0, size |-> 2]}

MCSymmetry == Permutations(Threads) \cup Permutations(Readers)
=============================================================================
