------------------------- MODULE MCFileHandleReader -------------------------
\* Instances of FileHandleReader for TLC.
EXTENDS FileHandleReader

\* A file of 7 bytes, blocks of 2: reads that are satisfied by a fragment, that
\* are adjacent, over a hole within and across blocks, far ahead, backward, at
\* the end and beyond it.  The file grows by a byte.
MCLengths  == {7, 8}
MCRequests == [offset : {0, 3, 5}, size : {1, 3}] \cup {[offset |-> 7, size |-> 1]}

\* A file of one byte that grows to six, where a read far ahead is possible.
MCGrowing == {1, 6}
MCFarAhead == [offset : {0, 5}, size : {1}]
=============================================================================
