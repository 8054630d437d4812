--------------------------- MODULE MCFileHandle ---------------------------
\* Instances of FileHandle for TLC.
EXTENDS FileHandle, TLC

CONSTANTS t1, t2, h1, h2, old, new

MCThreads == {t1, t2}
MCHandles == {h1, h2}
MCOnePiece == {new}
MCNoPiece == {}
MCPieces  == {old, new}
MCInitial == {old}

\* Goroutines are alike, and so are handles.
MCSymmetry == Permutations(MCThreads) \cup Permutations(MCHandles)
=============================================================================
