---------------------------- MODULE ZipArchive ----------------------------
(***************************************************************************)
(* A zip file shown as a directory (ZipDir.go): the first request for a    *)
(* root node reads the archive and builds the tree of ZipDir and ZipFile   *)
(* nodes; its members are read as streams (ZipFile.go, ZipFileHandle.go);  *)
(* unmounting closes the readers of all archives (FileSystem.go).          *)
(*                                                                         *)
(* Every lookup of "x.zip@" makes a root node of its own (Dir.go:104-119), *)
(* so there may be several of one file.  Whether HDFS can be read is in    *)
(* RandomAccessReader and FileHandleReader; here a read succeeds or fails. *)
(***************************************************************************)
EXTENDS Naturals, SequencesExt

CONSTANTS Threads,    \* goroutines that serve FUSE requests
          Roots,      \* ZipRootDir nodes of the archive
          Archives,   \* its possible contents: sequences of member names, each the
                      \* sequence of its components; that of a directory ends with ""
          Length,     \* bound: size of a member
          MaxReadSize,
          MaxFaults,  \* bound on failures
          None        \* nil

ASSUME BoundsAssumption == Length \in Nat /\ MaxReadSize \in Nat \ {0} /\ MaxFaults \in Nat
ASSUME NoneAssumption   == None \notin Threads \cup Roots

PathsIn(a) == UNION {{SubSeq(a[m], 1, i) : i \in DOMAIN a[m]} : m \in DOMAIN a}
ASSUME NilAssumption    == \A a \in Archives : \A dirs \in SUBSET PathsIn(a) : None # dirs

VARIABLES
  archive,            \* the contents, never changed
  tree,               \* SubDirs and Files below each root
  ReadArchiveLock,
  reader,             \* the RandomAccessReader of each root: "none", "open", "closed"
  leaked,             \* readers of archives that could not be read, never closed
  Mounted, closeOnUnmount, closeOnUnmountLock,
  unmount,            \* the step of Unmount at which main and the signal handler are
  exited,             \* the process has ended
  handle,             \* the ZipFileHandle and its stream; root = None: not open
  sent,               \* how far the kernel has asked for the open member
  troubled,           \* history: a read of the open member has failed
  pc, call, faults

archives == <<archive, tree, ReadArchiveLock, reader, leaked>>
mount    == <<Mounted, unmount, exited>>
closers  == <<closeOnUnmount, closeOnUnmountLock>>
member   == <<handle, sent, troubled>>
threads  == <<pc, call>>
vars     == <<archives, mount, closers, member, threads, faults>>

-----------------------------------------------------------------------------
(* The tree: directories and files by their paths.                             *)
Nil   == [SubDirs |-> None, Files |-> None]
Empty == [SubDirs |-> {}, Files |-> {}]
File(path, m) == [path |-> path, member |-> m]

\* The component after a trailing slash
NoName == ""

\* Mutant: it is a name.
SkippedNever(name) == FALSE

Skipped(name) == name = NoName

\* One component of the name of member m, from directory at.dir on.
Component(at, m, i) ==
  LET name == archive[m][i]
      path == Append(at.dir, name)
      others == {f \in at.tree.Files : f.path # path} IN
  IF Skipped(name) THEN at
  ELSE IF path \in at.tree.SubDirs THEN [at EXCEPT !.dir = path]
  ELSE IF i = Len(archive[m]) THEN [at EXCEPT !.tree.Files = others \cup {File(path, m)}]
  ELSE [at EXCEPT !.tree.SubDirs = @ \cup {path}]

\* How far member m has got in tree t after each of its components
Walk(t, m) ==
  LET at[i \in 0..Len(archive[m])] ==
        IF i = 0 THEN [tree |-> t, dir |-> <<>>] ELSE Component(at[i - 1], m, i)
  IN  at

\* Mutant: Files is made anew for every member.
InsertedAlone(t, m) == Walk([t EXCEPT !.Files = {}], m)[Len(archive[m])].tree

Inserted(t, m) == Walk(t, m)[Len(archive[m])].tree

-----------------------------------------------------------------------------
Idle == [root |-> None, next |-> 0, list |-> {}, offset |-> 0, size |-> 0]
NotOpen == [root |-> None, offset |-> 0, stream |-> 0, lock |-> None]

\* The actors that unmount: main after Serve, and the signal handler.
Actors == {"main", "signal"}

Init ==
  /\ archive \in Archives
  /\ tree = [r \in Roots |-> Nil] /\ ReadArchiveLock = [r \in Roots |-> None]
  /\ reader = [r \in Roots |-> "none"] /\ leaked = 0
  /\ Mounted = TRUE /\ closeOnUnmount = {} /\ closeOnUnmountLock = None
  /\ unmount = [a \in Actors |-> "none"] /\ exited = FALSE
  /\ handle = NotOpen /\ sent = 0 /\ troubled = FALSE
  /\ pc = [t \in Threads |-> "idle"] /\ call = [t \in Threads |-> Idle] /\ faults = 0

Goto(t, p) == pc' = [pc EXCEPT ![t] = p]
Finish(t)  == Goto(t, "idle") /\ call' = [call EXCEPT ![t] = Idle]
Succeeds   == UNCHANGED faults
Fails      == faults < MaxFaults /\ faults' = faults + 1

Unlocks(t, r) == ReadArchiveLock' = [ReadArchiveLock EXCEPT ![r] = None]

-----------------------------------------------------------------------------
(* ZipDir.ReadArchive *)

\* Lookup and ReadDirAll; once SubDirs is set they change nothing.
Arrive(t, r) ==
  /\ pc[t] = "idle" /\ tree[r] = Nil
  /\ Goto(t, "lock") /\ call' = [call EXCEPT ![t].root = r]
  /\ UNCHANGED <<archives, mount, closers, member, faults>>

\* Mutant: the check is not repeated under the lock.
NotRepeated(r) == FALSE

\* "Repeating the check after taking a lock"
ReadMeanwhile(r) == tree[r] # Nil

Lock(t) ==
  LET r == call[t].root IN
  /\ pc[t] = "lock" /\ ReadArchiveLock[r] = None
  /\ IF ReadMeanwhile(r)
     THEN Finish(t) /\ UNCHANGED ReadArchiveLock
     ELSE /\ ReadArchiveLock' = [ReadArchiveLock EXCEPT ![r] = t]
          /\ Goto(t, "open") /\ UNCHANGED call
  /\ UNCHANGED <<archive, tree, reader, leaked, mount, closers, member, faults>>

\* Attr of the zip file, zip.NewReader
OpenArchive(t) ==
  LET r == call[t].root IN
  /\ pc[t] = "open"
  /\ \/ /\ Succeeds /\ Goto(t, "register")
        /\ reader' = [reader EXCEPT ![r] = "open"]
        /\ UNCHANGED <<ReadArchiveLock, leaked, call>>
     \/ /\ Fails /\ Unlocks(t, r) /\ Finish(t)
        /\ leaked' \in {leaked, leaked + 1}   \* Attr, or NewReader has failed
        /\ UNCHANGED reader
  /\ UNCHANGED <<archive, tree, mount, closers, member>>

\* Mutant: the list of closers is not protected.
Unprotected == TRUE

CloseLockFree == closeOnUnmountLock = None

\* FileSystem.CloseOnUnmount: the list is read, extended and written.
Register(t) ==
  /\ pc[t] = "register" /\ CloseLockFree
  /\ closeOnUnmountLock' = t /\ UNCHANGED closeOnUnmount
  /\ Goto(t, "append") /\ call' = [call EXCEPT ![t].list = closeOnUnmount]
  /\ UNCHANGED <<archives, mount, member, faults>>

\* ... and then SubDirs and Files are made.
AppendCloser(t) ==
  LET r == call[t].root IN
  /\ pc[t] = "append"
  /\ closeOnUnmount' = call[t].list \cup {r} /\ closeOnUnmountLock' = None
  /\ tree' = [tree EXCEPT ![r] = Empty]
  /\ Goto(t, "insert") /\ call' = [call EXCEPT ![t].list = {}, ![t].next = 1]
  /\ UNCHANGED <<archive, ReadArchiveLock, reader, leaked, mount, member, faults>>

\* One member of the archive, or the end of ReadArchive.
Insert(t) ==
  LET r == call[t].root
      m == call[t].next IN
  /\ pc[t] = "insert"
  /\ IF m <= Len(archive)
     THEN /\ tree' = [tree EXCEPT ![r] = Inserted(@, m)]
          /\ call' = [call EXCEPT ![t].next = @ + 1] /\ UNCHANGED <<pc, ReadArchiveLock>>
     ELSE /\ Unlocks(t, r) /\ Finish(t) /\ UNCHANGED tree
  /\ UNCHANGED <<archive, reader, leaked, mount, closers, member, faults>>

-----------------------------------------------------------------------------
(* Reading a member.  The kernel asks for its bytes in their order, up to some *)
(* requests ahead; each is served by a goroutine of its own.                   *)

\* ZipFile.Open; one that fails changes nothing.
OpenMember(r) ==
  /\ handle.root = None /\ tree[r] # Nil /\ tree[r].Files # {}
  /\ handle' = [handle EXCEPT !.root = r] /\ sent' = 0 /\ troubled' = FALSE
  /\ UNCHANGED <<archives, mount, closers, threads, faults>>

Reading(t) == pc[t] \in {"wait", "read"}

\* ZipFileHandle.Release
Release ==
  /\ handle.root # None /\ \A t \in Threads : ~Reading(t)
  /\ handle' = NotOpen /\ sent' = 0 /\ troubled' = FALSE
  /\ UNCHANGED <<archives, mount, closers, threads, faults>>

Read(t, size) ==
  /\ pc[t] = "idle" /\ handle.root # None /\ sent < Length
  /\ Goto(t, "wait") /\ call' = [call EXCEPT ![t].offset = sent, ![t].size = size]
  /\ sent' = sent + size
  /\ UNCHANGED <<archives, mount, closers, handle, troubled, faults>>

\* The goroutine whose offset is not that of the handle sleeps and tries again.
TakeTurn(t) ==
  /\ pc[t] = "wait" /\ handle.lock = None /\ call[t].offset = handle.offset
  /\ handle' = [handle EXCEPT !.lock = t] /\ Goto(t, "read")
  /\ UNCHANGED <<archives, mount, closers, sent, troubled, call, faults>>

\* Mutants: the handle moves by the size asked for, or not at all.
AdvanceBySize(nr, size) == handle.offset + size
AdvanceNot(nr, size)    == handle.offset

Advance(nr, size) == handle.offset + nr

\* io.ReadFull moves the stream by nr bytes.
ReadFull(t, nr) ==
  /\ handle' = [handle EXCEPT !.stream = @ + nr, !.offset = Advance(nr, call[t].size),
                              !.lock = None]
  /\ Finish(t)

\* The bytes asked for, up to the end; or an error, of HDFS or because the reader
\* of the archive is closed, after some of them.
ReadMember(t) ==
  LET left == Length - handle.stream
      full == IF call[t].size <= left THEN call[t].size ELSE left IN
  /\ pc[t] = "read"
  /\ \/ Succeeds /\ ReadFull(t, full) /\ UNCHANGED troubled
     \/ /\ Fails \/ (Succeeds /\ reader[handle.root] = "closed")
        /\ \E nr \in 0..full : nr < full /\ ReadFull(t, nr)
        /\ troubled' = TRUE
  /\ UNCHANGED <<archives, mount, closers, sent>>

-----------------------------------------------------------------------------
(* FileSystem.Unmount, by main and by the signal handler (main.go) *)

\* Serve returns when the file system is unmounted and nothing is open, or when
\* others have unmounted it (counted as a fault).  What follows Unmount in main
\* ends the process.
ServeReturns == (~Mounted /\ handle.root = None /\ Succeeds) \/ (Mounted /\ Fails)

UnmountStart(a) ==
  /\ unmount[a] = "none"
  /\ IF a = "main" THEN ServeReturns ELSE Succeeds
  /\ IF Mounted THEN unmount' = [unmount EXCEPT ![a] = "clear"] /\ UNCHANGED exited
                ELSE UNCHANGED unmount /\ exited' = (a = "main")
  /\ UNCHANGED <<archives, Mounted, closers, member, threads>>

\* fusermount fails when the other actor was quicker.
UnmountClear(a) ==
  /\ unmount[a] = "clear" /\ Mounted' = FALSE
  /\ unmount' = [unmount EXCEPT ![a] = IF Mounted THEN "walk" ELSE "walkAndDie"]
  /\ UNCHANGED <<archives, exited, closers, member, threads, faults>>

UnmountWalk(a) ==
  /\ unmount[a] \in {"walk", "walkAndDie"} /\ closeOnUnmountLock = None
  /\ reader' = [r \in Roots |-> IF r \in closeOnUnmount THEN "closed" ELSE reader[r]]
  /\ exited' = (a = "main" \/ unmount[a] = "walkAndDie")
  /\ unmount' = [unmount EXCEPT ![a] = "none"]
  /\ UNCHANGED <<archive, tree, ReadArchiveLock, leaked, Mounted, closers, member, threads, faults>>

-----------------------------------------------------------------------------
Serve(t) ==
  \/ Lock(t) \/ OpenArchive(t) \/ Register(t) \/ AppendCloser(t) \/ Insert(t)
  \/ TakeTurn(t) \/ ReadMember(t)

Next ==
  /\ ~exited
  /\ \/ \E t \in Threads : Serve(t) \/ \E r \in Roots : Arrive(t, r)
     \/ \E t \in Threads, size \in 1..MaxReadSize : Read(t, size)
     \/ Release \/ \E r \in Roots : OpenMember(r)
     \/ \E a \in Actors : UnmountStart(a) \/ UnmountClear(a) \/ UnmountWalk(a)

\* Go's scheduler runs every goroutine that can run, sleeping ones wake up, and
\* the locks here are held for a bounded time.
Spec == Init /\ [][Next]_vars
FairSpec == /\ Spec
            /\ \A t \in Threads : WF_vars(~exited /\ Serve(t))
            /\ \A a \in Actors : WF_vars(~exited /\ UnmountWalk(a))

-----------------------------------------------------------------------------
(* Properties *)
Paths == PathsIn(archive)

\* The variables stay in their types; a reader leaks only by a failure.
TypeOK ==
  /\ archive \in Archives
  /\ \A r \in Roots : tree[r] # Nil => /\ tree[r].SubDirs \subseteq Paths
                                       /\ \A f \in tree[r].Files : f.member \in DOMAIN archive
  /\ ReadArchiveLock \in [Roots -> Threads \cup {None}]
  /\ reader \in [Roots -> {"none", "open", "closed"}] /\ leaked \in 0..faults
  /\ Mounted \in BOOLEAN /\ exited \in BOOLEAN /\ troubled \in BOOLEAN
  /\ closeOnUnmount \subseteq Roots /\ closeOnUnmountLock \in Threads \cup {None}
  /\ unmount \in [Actors -> {"none", "clear", "walk", "walkAndDie"}]
  /\ handle \in [root : Roots \cup {None}, offset : 0..Length, stream : 0..Length,
                 lock : Threads \cup {None}]
  /\ sent \in 0..(Length + MaxReadSize) /\ faults \in 0..MaxFaults
  /\ pc \in [Threads -> {"idle", "lock", "open", "register", "append", "insert", "wait", "read"}]
  /\ call \in [Threads -> [root : Roots \cup {None}, next : 0..(Len(archive) + 1),
                           list : SUBSET Roots, offset : 0..(Length + MaxReadSize),
                           size : 0..MaxReadSize]]

\* What the archive contains: the directories are those listed.
IsDirectory(name) == Last(name) = NoName
PathOf(name)      == IF IsDirectory(name) THEN Front(name) ELSE name
Contents ==
  [SubDirs |-> {Front(archive[m]) : m \in {k \in DOMAIN archive : IsDirectory(archive[k])}},
   Files   |-> {File(archive[m], m) : m \in {k \in DOMAIN archive : ~IsDirectory(archive[k])}}]

\* An archive that lists every directory before what is in it, and nothing twice
DirectoriesFirst(a) ==
  /\ a \in Seq(Seq(STRING))
  /\ \A m \in DOMAIN a :
       /\ a[m] # <<>> /\ \A i \in DOMAIN a[m] : a[m][i] = NoName => i > 1 /\ i = Len(a[m])
       /\ \A i \in 1..(Len(PathOf(a[m])) - 1) :
            \E k \in 1..(m - 1) : IsDirectory(a[k]) /\ Front(a[k]) = SubSeq(a[m], 1, i)
       /\ \A k \in DOMAIN a \ {m} : PathOf(a[k]) # PathOf(a[m])

\* The archive has been read (the first goroutine has left the lock).
HasBeenRead(r) == tree[r] # Nil /\ ReadArchiveLock[r] = None

\* A request never finds a file or directory that the archive does not have, at a
\* place where it does not have it, not even while the archive is being read; and
\* afterwards it finds all (ZipDir.go:81-124), for archives that list directories
\* before what is in them.
TreeRight == \A r \in Roots : tree[r] # Nil =>
  /\ tree[r].SubDirs \subseteq Contents.SubDirs /\ tree[r].Files \subseteq Contents.Files
  /\ HasBeenRead(r) => tree[r] = Contents

\* However many goroutines find the archive unread, it is read once: the nodes
\* made for it are never made again, nor is their making begun (ZipDir.go:42-57).
ReadOnce ==
  [][\A r \in Roots : HasBeenRead(r) => HasBeenRead(r)' /\ tree'[r] = tree[r]]_vars

\* Files and directories in one set
Entries(t) ==
  IF t = Nil THEN {} ELSE {[path |-> p, member |-> 0] : p \in t.SubDirs} \cup t.Files

Directory == INSTANCE ArchiveDirectory WITH
  contents <- Entries(Contents),
  shown    <- [r \in Roots |-> Entries(tree[r])],
  complete <- [r \in Roots |-> HasBeenRead(r)]

\* Whoever reads an archive, unmounts or fails meanwhile, its tree implements the
\* abstract directory: it grows by one member of the archive at a time, so that nothing
\* a request has found is lost or replaced, and has all of them when the lock is given
\* back, after which it is immutable (ZipDir.go:41-43, :78-127).
ImplementsArchiveDirectory == Directory!Spec

\* The reader of an archive that has been read is known to Unmount, so that it can be
\* closed, and is not closed while the file system is mounted, whichever goroutines
\* register readers and unmount at the same time (FileSystem.go:82-101, :126-130).
ReadersKnown == \A r \in Roots :
  /\ tree[r] # Nil => reader[r] # "none" /\ r \in closeOnUnmount
  /\ reader[r] = "closed" => ~Mounted

\* A goroutine that reads a member finds the stream at the offset it was asked for,
\* in whichever order the requests come to run and wherever an earlier one has
\* failed (ZipFileHandle.go:38-64).
MemberInOrder == \A t \in Threads : pc[t] = "read" => handle.stream = call[t].offset

\* Every request is answered, unless the process ends or, for one that waits for its
\* turn, an earlier read of the member has failed (ZipDir.go:51, ZipFileHandle.go:41).
Answered == \A t \in Threads :
  pc[t] # "idle" ~> pc[t] = "idle" \/ exited \/ (pc[t] = "wait" /\ troubled)
=============================================================================
