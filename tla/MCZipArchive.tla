---------------------------- MODULE MCZipArchive ----------------------------
\* Instances of ZipArchive for TLC.
EXTENDS ZipArchive

CONSTANTS t1, t2, r1, r2

MCThreads == {t1, t2}
MCRoots   == {r1, r2}

\* A directory with a file in it and a file beside it; a directory in a directory.
MCArchives == {<< <<"foo", "">>, <<"foo", "a">>, <<"qux">> >>,
               << <<"foo", "">>, <<"foo", "baz", "">>, <<"foo", "baz", "w">> >>}
ASSUME MCArchivesAssumption == \A a \in MCArchives : DirectoriesFirst(a)
=============================================================================
