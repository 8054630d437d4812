------------------------- MODULE MCHdfsConnection -------------------------
\* Instances of HdfsConnection for TLC.
EXTENDS HdfsConnection

CONSTANTS t1, t2, c1, c2, c3, c4

MCThreads == {t1, t2}
MCClients == {c1, c2, c3, c4}
=============================================================================
