-------------------------- MODULE ZipArchiveProofs --------------------------
(***************************************************************************)
(* Theorems about zip archives, for any goroutines, root nodes, archives,  *)
(* sizes and failures.                                                     *)
(*                                                                         *)
(* What a member's name adds to the tree is computed by recursion over its *)
(* components (Walk).  Induction on them goes by sets of natural numbers   *)
(* (NatSets), so that no theorem with an operator for a parameter is       *)
(* needed: InsertedRight says what inserting a member comes to, and the    *)
(* invariant Building what of an archive has been read.  Only what follows *)
(* from these needs that archives list directories before what is in them  *)
(* (Listed).                                                               *)
(***************************************************************************)
EXTENDS ZipArchive, Integers, TLAPS, WellFoundedInduction, SequenceTheorems

-----------------------------------------------------------------------------
(* The inductive invariant *)

InsidePcs == {"open", "register", "append", "insert"}
Calls == [root : Roots \cup {None}, next : Int, list : SUBSET Roots, offset : Int, size : Int]
Handles == [root : Roots \cup {None}, offset : Int, stream : Int, lock : Threads \cup {None}]

\* The types, but for the contents of the trees and the bounds
Shapes ==
  /\ DOMAIN tree = Roots
  /\ ReadArchiveLock \in [Roots -> Threads \cup {None}]
  /\ reader \in [Roots -> {"none", "open", "closed"}]
  /\ closeOnUnmount \subseteq Roots
  /\ unmount \in [Actors -> {"none", "clear", "walk", "walkAndDie"}]
  /\ handle \in Handles /\ sent \in Int
  /\ pc \in [Threads -> {"idle", "lock", "open", "register", "append", "insert", "wait", "read"}]
  /\ call \in [Threads -> Calls]

\* A goroutine that reads an archive has the lock of its root; the reader is
\* there from the registration on, and registered from the insertions on.
Locking == \A t \in Threads :
  /\ pc[t] \in InsidePcs \cup {"lock"} => call[t].root \in Roots
  /\ pc[t] \in InsidePcs => ReadArchiveLock[call[t].root] = t
  /\ pc[t] \in {"register", "append", "insert"} => reader[call[t].root] # "none"
  /\ pc[t] = "insert" => call[t].root \in closeOnUnmount

\* The list that CloseOnUnmount extends is the current one: no other goroutine
\* is at it.
Registering == \A t \in Threads :
  pc[t] = "append" => closeOnUnmountLock = t /\ call[t].list = closeOnUnmount

\* Closing begins when nothing is mounted any more.
Unmounting == \A a \in Actors : unmount[a] \in {"walk", "walkAndDie"} => ~Mounted

\* The handle is where its stream is, and the goroutine that reads has it.
Turns ==
  /\ handle.offset = handle.stream
  /\ \A t \in Threads : pc[t] = "read" => handle.lock = t /\ call[t].offset = handle.offset

Inv == Shapes /\ Locking /\ Registering /\ Unmounting /\ ReadersKnown /\ Turns

-----------------------------------------------------------------------------
\* What a step does to one goroutine
LEMMA Thread ==
  ASSUME Shapes, NEW t \in Threads, NEW p, pc' = [pc EXCEPT ![t] = p]
  PROVE  pc'[t] = p /\ \A u \in Threads : u # t => pc'[u] = pc[u]
BY DEF Shapes

\* The requests after a step
LEMMA CallTyped ==
  ASSUME Shapes, NEW t \in Threads, NEW c \in Calls, call' = [call EXCEPT ![t] = c]
  PROVE  /\ call' \in [Threads -> Calls] /\ call'[t] = c
         /\ \A u \in Threads : u # t => call'[u] = call[u]
BY DEF Shapes

\* The constants are what they seem.
LEMMA Nothing ==
  /\ None \notin Threads /\ None \notin Roots /\ Idle \in Calls /\ NotOpen \in Handles
  /\ NotOpen.offset = 0 /\ NotOpen.stream = 0 /\ Idle.root = None
BY NoneAssumption DEF Idle, NotOpen, Calls, Handles

\* At first no archive has been read.
LEMMA InvInit == Init => Inv
<1> SUFFICES ASSUME Init
             PROVE  Inv
  OBVIOUS
<1>1. Shapes
  BY Nothing DEF Init, Shapes
<1>2. Locking /\ Registering /\ Unmounting
  BY DEF Init, Locking, Registering, Unmounting, InsidePcs
<1>3. ReadersKnown /\ Turns
  BY Nothing DEF Init, ReadersKnown, Turns
<1> QED BY <1>1, <1>2, <1>3 DEF Inv

-----------------------------------------------------------------------------
(* Reading an archive *)

\* What has been read stays so.
Once == \A r \in Roots : HasBeenRead(r) => HasBeenRead(r)' /\ tree'[r] = tree[r]

\* A goroutine asks for an archive that has not been read.
LEMMA ArriveKeeps ==
  ASSUME Inv, NEW t \in Threads, NEW r \in Roots, Arrive(t, r)
  PROVE  Inv' /\ Once
<1>1. /\ Shapes /\ pc[t] = "idle" /\ pc' = [pc EXCEPT ![t] = "lock"]
      /\ call' = [call EXCEPT ![t] = [call[t] EXCEPT !.root = r]]
      /\ UNCHANGED <<tree, ReadArchiveLock, reader, closeOnUnmount, closeOnUnmountLock, Mounted, unmount, handle, sent>>
  BY DEF Inv, Arrive, Goto, archives, mount, closers, member, Shapes
<1>2. [call[t] EXCEPT !.root = r] \in Calls /\ [call[t] EXCEPT !.root = r].root = r
  <2>1. call[t] \in Calls
    BY <1>1 DEF Shapes
  <2> QED BY <2>1 DEF Calls
<1>3. /\ call' \in [Threads -> Calls] /\ call'[t].root = r
      /\ \A u \in Threads : u # t => call'[u] = call[u]
  BY <1>1, <1>2, CallTyped
<1>4. pc'[t] = "lock" /\ \A u \in Threads : u # t => pc'[u] = pc[u]
  BY <1>1, Thread
<1>5. Shapes'
  BY <1>1, <1>3 DEF Shapes
<1>6. Locking' /\ Registering' /\ Turns'
  BY <1>1, <1>3, <1>4 DEF Inv, Locking, Registering, Turns, InsidePcs
<1>7. Unmounting' /\ ReadersKnown' /\ Once
  BY <1>1 DEF Inv, Unmounting, ReadersKnown, Once, HasBeenRead
<1> QED BY <1>5, <1>6, <1>7 DEF Inv

\* ... gets its lock, or finds it read by another.
LEMMA LockKeeps ==
  ASSUME Inv, NEW t \in Threads, Lock(t)
  PROVE  Inv' /\ Once
<1>1. /\ Shapes /\ pc[t] = "lock" /\ call[t].root \in Roots /\ ReadArchiveLock[call[t].root] = None
      /\ UNCHANGED <<tree, reader, closeOnUnmount, closeOnUnmountLock, Mounted, unmount, handle, sent>>
  BY DEF Inv, Locking, Lock, mount, closers, member
<1>2. CASE Finish(t) /\ UNCHANGED ReadArchiveLock
  <2>1. /\ call' \in [Threads -> Calls] /\ call'[t] = Idle
        /\ \A u \in Threads : u # t => call'[u] = call[u]
    BY <1>1, <1>2, CallTyped, Nothing DEF Finish
  <2>2. pc' = [pc EXCEPT ![t] = "idle"] /\ pc'[t] = "idle" /\ \A u \in Threads : u # t => pc'[u] = pc[u]
    BY <1>1, <1>2, Thread DEF Finish, Goto
  <2>3. Shapes'
    BY <1>1, <1>2, <2>1, <2>2 DEF Shapes
  <2>4. Locking' /\ Registering' /\ Turns'
    BY <1>1, <1>2, <2>1, <2>2 DEF Inv, Locking, Registering, Turns, InsidePcs
  <2>5. Unmounting' /\ ReadersKnown' /\ Once
    BY <1>1, <1>2 DEF Inv, Unmounting, ReadersKnown, Once, HasBeenRead
  <2> QED BY <2>3, <2>4, <2>5 DEF Inv
<1>3. CASE /\ ~ReadMeanwhile(call[t].root)
           /\ ReadArchiveLock' = [ReadArchiveLock EXCEPT ![call[t].root] = t]
           /\ Goto(t, "open") /\ UNCHANGED call
  <2>1. pc' = [pc EXCEPT ![t] = "open"] /\ pc'[t] = "open" /\ \A u \in Threads : u # t => pc'[u] = pc[u]
    BY <1>1, <1>3, Thread DEF Goto
  <2>2. /\ ReadArchiveLock' \in [Roots -> Threads \cup {None}] /\ ReadArchiveLock'[call[t].root] = t
        /\ \A r \in Roots : r # call[t].root => ReadArchiveLock'[r] = ReadArchiveLock[r]
    BY <1>1, <1>3 DEF Shapes
  <2>3. Shapes'
    BY <1>1, <1>3, <2>1, <2>2 DEF Shapes
  <2>4. Locking'
    BY <1>1, <1>3, <2>1, <2>2, Nothing DEF Inv, Locking, InsidePcs
  <2>5. Registering' /\ Turns'
    BY <1>1, <1>3, <2>1 DEF Inv, Registering, Turns
  <2>6. Unmounting' /\ ReadersKnown'
    BY <1>1 DEF Inv, Unmounting, ReadersKnown
  <2>7. Once
    BY <1>1, <1>3, <2>2 DEF ReadMeanwhile, Once, HasBeenRead
  <2> QED BY <2>3, <2>4, <2>5, <2>6, <2>7 DEF Inv
<1> QED BY <1>2, <1>3 DEF Lock

\* A goroutine inside has the lock of its root, and nobody else has.
LEMMA InsideAlone ==
  ASSUME Inv, NEW t \in Threads, pc[t] \in InsidePcs
  PROVE  /\ call[t].root \in Roots /\ ReadArchiveLock[call[t].root] = t
         /\ \A u \in Threads : u # t /\ pc[u] \in InsidePcs => call[u].root # call[t].root
         /\ ~HasBeenRead(call[t].root)
BY Nothing DEF Inv, Locking, HasBeenRead

\* It gives the lock back.
LEMMA Unlocked ==
  ASSUME Inv, NEW t \in Threads, pc[t] \in InsidePcs, Unlocks(t, call[t].root)
  PROVE  /\ ReadArchiveLock' \in [Roots -> Threads \cup {None}]
         /\ \A r \in Roots : r # call[t].root => ReadArchiveLock'[r] = ReadArchiveLock[r]
BY InsideAlone DEF Unlocks, Inv, Shapes

\* It opens the archive, or gives up.
LEMMA OpenKeeps ==
  ASSUME Inv, NEW t \in Threads, OpenArchive(t)
  PROVE  Inv' /\ Once
<1> DEFINE r == call[t].root
<1>1. /\ Shapes /\ pc[t] = "open" /\ pc[t] \in InsidePcs
      /\ UNCHANGED <<tree, closeOnUnmount, closeOnUnmountLock, Mounted, unmount, handle, sent>>
  BY DEF Inv, OpenArchive, mount, closers, member, InsidePcs
<1>2. r \in Roots /\ \A u \in Threads : u # t /\ pc[u] \in InsidePcs => call[u].root # r
  BY <1>1, InsideAlone
<1>3. CASE /\ Goto(t, "register") /\ reader' = [reader EXCEPT ![r] = "open"]
           /\ UNCHANGED <<ReadArchiveLock, leaked, call>>
  <2>1. pc' = [pc EXCEPT ![t] = "register"] /\ pc'[t] = "register" /\ \A u \in Threads : u # t => pc'[u] = pc[u]
    BY <1>1, <1>3, Thread DEF Goto
  <2>2. /\ reader' \in [Roots -> {"none", "open", "closed"}] /\ reader'[r] = "open"
        /\ \A q \in Roots : q # r => reader'[q] = reader[q]
    BY <1>1, <1>2, <1>3 DEF Shapes
  <2> HIDE DEF r
  <2>3. Shapes'
    BY <1>1, <1>3, <2>1, <2>2 DEF Shapes
  <2>4. Locking'
    <3>1. ReadArchiveLock[r] = t
      BY <1>1, InsideAlone DEF r
    <3>2. \A u \in Threads : pc[u] \in InsidePcs \cup {"lock"} => call[u].root \in Roots
      BY DEF Inv, Locking
    <3> QED BY <1>1, <1>2, <1>3, <2>1, <2>2, <3>1, <3>2 DEF Inv, Locking, InsidePcs, r
  <2>5. Registering' /\ Turns'
    BY <1>1, <1>3, <2>1 DEF Inv, Registering, Turns
  <2>6. Unmounting' /\ ReadersKnown'
    BY <1>1, <2>2 DEF Inv, Unmounting, ReadersKnown
  <2>7. Once
    BY <1>1, <1>3 DEF Once, HasBeenRead
  <2> QED BY <2>3, <2>4, <2>5, <2>6, <2>7 DEF Inv
<1>4. CASE Unlocks(t, r) /\ Finish(t) /\ UNCHANGED reader
  <2>1. /\ call' \in [Threads -> Calls] /\ call'[t] = Idle
        /\ \A u \in Threads : u # t => call'[u] = call[u]
    BY <1>1, <1>4, CallTyped, Nothing DEF Finish
  <2>2. pc' = [pc EXCEPT ![t] = "idle"] /\ pc'[t] = "idle" /\ \A u \in Threads : u # t => pc'[u] = pc[u]
    BY <1>1, <1>4, Thread DEF Finish, Goto
  <2>3. /\ ReadArchiveLock' \in [Roots -> Threads \cup {None}] /\ ~HasBeenRead(r)
        /\ \A q \in Roots : q # r => ReadArchiveLock'[q] = ReadArchiveLock[q]
    BY <1>1, <1>4, Unlocked, InsideAlone
  <2> HIDE DEF r
  <2>4. Shapes'
    BY <1>1, <1>4, <2>1, <2>2, <2>3 DEF Shapes
  <2>5. Locking'
    BY <1>1, <1>2, <1>4, <2>1, <2>2, <2>3 DEF Inv, Locking, InsidePcs
  <2>6. Registering' /\ Turns'
    BY <1>1, <1>4, <2>1, <2>2 DEF Inv, Registering, Turns
  <2>7. Unmounting' /\ ReadersKnown'
    BY <1>1, <1>4 DEF Inv, Unmounting, ReadersKnown
  <2>8. Once
    BY <1>1, <2>3 DEF Once, HasBeenRead
  <2> QED BY <2>4, <2>5, <2>6, <2>7, <2>8 DEF Inv
<1> QED BY <1>3, <1>4 DEF OpenArchive

\* It registers the reader: first it reads the list ...
LEMMA RegisterKeeps ==
  ASSUME Inv, NEW t \in Threads, Register(t)
  PROVE  Inv' /\ Once
<1>1. /\ Shapes /\ pc[t] = "register" /\ closeOnUnmountLock = None /\ closeOnUnmountLock' = t
      /\ pc' = [pc EXCEPT ![t] = "append"] /\ call' = [call EXCEPT ![t] = [call[t] EXCEPT !.list = closeOnUnmount]]
      /\ UNCHANGED <<tree, ReadArchiveLock, reader, closeOnUnmount, Mounted, unmount, handle, sent>>
  BY DEF Inv, Register, CloseLockFree, Goto, archives, mount, member, Shapes
<1>2. LET d == [call[t] EXCEPT !.list = closeOnUnmount] IN
      d \in Calls /\ d.root = call[t].root /\ d.list = closeOnUnmount
  <2>1. call[t] \in Calls /\ closeOnUnmount \in SUBSET Roots
    BY <1>1 DEF Shapes
  <2> QED BY <2>1 DEF Calls
<1>3. /\ call' \in [Threads -> Calls] /\ call'[t].root = call[t].root /\ call'[t].list = closeOnUnmount
      /\ \A u \in Threads : u # t => call'[u] = call[u]
  BY <1>1, <1>2, CallTyped
<1>4. pc'[t] = "append" /\ \A u \in Threads : u # t => pc'[u] = pc[u]
  BY <1>1, Thread
<1>5. Shapes'
  BY <1>1, <1>3 DEF Shapes
<1>6. Locking'
  BY <1>1, <1>3, <1>4 DEF Inv, Locking, InsidePcs
<1>7. Registering'
  BY <1>1, <1>3, <1>4, Nothing DEF Inv, Registering
<1>8. Turns' /\ Unmounting' /\ ReadersKnown' /\ Once
  BY <1>1, <1>3, <1>4 DEF Inv, Turns, Unmounting, ReadersKnown, Once, HasBeenRead
<1> QED BY <1>5, <1>6, <1>7, <1>8 DEF Inv

\* ... then it writes it, and the tree becomes visible.
LEMMA AppendKeeps ==
  ASSUME Inv, NEW t \in Threads, AppendCloser(t)
  PROVE  Inv' /\ Once
<1> DEFINE r == call[t].root
<1>1. /\ Shapes /\ pc[t] = "append" /\ pc[t] \in InsidePcs
      /\ pc' = [pc EXCEPT ![t] = "insert"]
      /\ call' = [call EXCEPT ![t] = [call[t] EXCEPT !.list = {}, !.next = 1]]
      /\ closeOnUnmount' = call[t].list \cup {r} /\ tree' = [tree EXCEPT ![r] = Empty]
      /\ UNCHANGED <<ReadArchiveLock, reader, Mounted, unmount, handle, sent>>
  BY DEF Inv, AppendCloser, Goto, mount, member, InsidePcs, Shapes
<1>2. /\ r \in Roots /\ ~HasBeenRead(r) /\ reader[r] # "none"
      /\ closeOnUnmountLock = t /\ call[t].list = closeOnUnmount
  BY <1>1, InsideAlone DEF Inv, Locking, Registering
<1>3. LET d == [call[t] EXCEPT !.list = {}, !.next = 1] IN d \in Calls /\ d.root = r
  <2>1. call[t] \in Calls
    BY <1>1 DEF Shapes
  <2>2. {} \in SUBSET Roots /\ 1 \in Int
    OBVIOUS
  <2>3. [call[t] EXCEPT !.list = {}, !.next = 1] \in Calls
    BY <2>1, <2>2 DEF Calls
  <2>4. [call[t] EXCEPT !.list = {}, !.next = 1].root = call[t].root
    BY <2>1 DEF Calls
  <2> QED BY <2>3, <2>4
<1>4. /\ call' \in [Threads -> Calls] /\ call'[t].root = r
      /\ \A u \in Threads : u # t => call'[u] = call[u]
  BY <1>1, <1>3, CallTyped
<1>5. pc'[t] = "insert" /\ \A u \in Threads : u # t => pc'[u] = pc[u]
  BY <1>1, Thread
<1>6. /\ closeOnUnmount' = closeOnUnmount \cup {r} /\ closeOnUnmount' \subseteq Roots
      /\ DOMAIN tree' = Roots /\ \A q \in Roots : q # r => tree'[q] = tree[q]
  BY <1>1, <1>2 DEF Shapes
<1> HIDE DEF r
<1>7. Shapes'
  BY <1>1, <1>4, <1>6 DEF Shapes
<1>8. Locking'
  <2>1. ReadArchiveLock[r] = t
    BY <1>1, InsideAlone DEF r
  <2> QED BY <1>1, <1>2, <1>4, <1>5, <1>6, <2>1 DEF Inv, Locking, InsidePcs
<1>9. Registering'
  BY <1>1, <1>2, <1>4, <1>5 DEF Inv, Registering
<1>10. Turns' /\ Unmounting'
  BY <1>1, <1>4, <1>5 DEF Inv, Turns, Unmounting
<1>11. ReadersKnown'
  BY <1>1, <1>2, <1>6 DEF Inv, ReadersKnown
<1>12. Once
  BY <1>1, <1>2, <1>6 DEF Once, HasBeenRead
<1> QED BY <1>7, <1>8, <1>9, <1>10, <1>11, <1>12 DEF Inv

\* A member is inserted, or the last one was.
LEMMA InsertKeeps ==
  ASSUME Inv, NEW t \in Threads, Insert(t)
  PROVE  Inv' /\ Once
<1> DEFINE r == call[t].root
<1>1. /\ Shapes /\ pc[t] = "insert" /\ pc[t] \in InsidePcs
      /\ UNCHANGED <<reader, closeOnUnmount, closeOnUnmountLock, Mounted, unmount, handle, sent>>
  BY DEF Inv, Insert, mount, closers, member, InsidePcs
<1>2. /\ r \in Roots /\ ~HasBeenRead(r) /\ reader[r] # "none" /\ r \in closeOnUnmount
      /\ \A u \in Threads : u # t /\ pc[u] \in InsidePcs => call[u].root # r
  BY <1>1, InsideAlone DEF Inv, Locking
<1>3. CASE /\ \E e : tree' = [tree EXCEPT ![r] = e]
           /\ call' = [call EXCEPT ![t].next = @ + 1] /\ UNCHANGED <<pc, ReadArchiveLock>>
  <2>1. call[t] \in Calls /\ call' = [call EXCEPT ![t] = [call[t] EXCEPT !.next = call[t].next + 1]]
    BY <1>1, <1>3 DEF Shapes
  <2>2. LET d == [call[t] EXCEPT !.next = call[t].next + 1] IN
        d \in Calls /\ d.root = r /\ d.list = call[t].list /\ d.offset = call[t].offset
    BY <2>1 DEF Calls
  <2>3. /\ call' \in [Threads -> Calls] /\ call'[t].root = r /\ call'[t].list = call[t].list
        /\ \A u \in Threads : u # t => call'[u] = call[u]
    BY <1>1, <2>1, <2>2, CallTyped
  <2>4. DOMAIN tree' = Roots /\ \A q \in Roots : q # r => tree'[q] = tree[q]
    BY <1>1, <1>2, <1>3 DEF Shapes
  <2> HIDE DEF r
  <2>5. Shapes'
    BY <1>1, <1>3, <2>3, <2>4 DEF Shapes
  <2>6. Locking' /\ Registering' /\ Turns'
    <3>1. \A u \in Threads : call'[u].root = call[u].root /\ call'[u].list = call[u].list
      BY <2>3 DEF r
    <3> QED BY <1>1, <1>3, <2>3, <3>1 DEF Inv, Locking, Registering, Turns
  <2>7. Unmounting' /\ ReadersKnown'
    BY <1>1, <1>2, <2>4 DEF Inv, Unmounting, ReadersKnown
  <2>8. Once
    BY <1>2, <1>3, <2>4 DEF Once, HasBeenRead
  <2> QED BY <2>5, <2>6, <2>7, <2>8 DEF Inv
<1>4. CASE Unlocks(t, r) /\ Finish(t) /\ UNCHANGED tree
  <2>1. /\ call' \in [Threads -> Calls] /\ call'[t] = Idle
        /\ \A u \in Threads : u # t => call'[u] = call[u]
    BY <1>1, <1>4, CallTyped, Nothing DEF Finish
  <2>2. pc' = [pc EXCEPT ![t] = "idle"] /\ pc'[t] = "idle" /\ \A u \in Threads : u # t => pc'[u] = pc[u]
    BY <1>1, <1>4, Thread DEF Finish, Goto
  <2>3. /\ ReadArchiveLock' \in [Roots -> Threads \cup {None}]
        /\ \A q \in Roots : q # r => ReadArchiveLock'[q] = ReadArchiveLock[q]
    BY <1>1, <1>4, Unlocked
  <2> HIDE DEF r
  <2>4. Shapes'
    BY <1>1, <1>4, <2>1, <2>2, <2>3 DEF Shapes
  <2>5. Locking'
    BY <1>1, <1>2, <1>4, <2>1, <2>2, <2>3 DEF Inv, Locking, InsidePcs
  <2>6. Registering' /\ Turns'
    BY <1>1, <1>4, <2>1, <2>2 DEF Inv, Registering, Turns
  <2>7. Unmounting' /\ ReadersKnown'
    BY <1>1, <1>4 DEF Inv, Unmounting, ReadersKnown
  <2>8. Once
    BY <1>2, <1>4, <2>3 DEF Once, HasBeenRead
  <2> QED BY <2>4, <2>5, <2>6, <2>7, <2>8 DEF Inv
<1> QED BY <1>3, <1>4 DEF Insert

-----------------------------------------------------------------------------
(* Reading a member, and unmounting *)

\* The steps that leave archives, closers and unmounting alone
LEMMA ArchivesKeep ==
  ASSUME Inv, UNCHANGED <<archives, mount, closers>>,
         \A u \in Threads : /\ pc'[u] = pc[u] \/ {pc[u], pc'[u]} \cap (InsidePcs \cup {"lock"}) = {}
                            /\ call'[u] = call[u] \/ pc'[u] \notin InsidePcs \cup {"lock"}
  PROVE  Locking' /\ Registering' /\ Unmounting' /\ ReadersKnown' /\ Once
<1>1. UNCHANGED <<tree, ReadArchiveLock, reader, closeOnUnmount, closeOnUnmountLock, Mounted, unmount>>
  BY DEF archives, mount, closers
<1>2. \A u \in Threads : pc'[u] \in InsidePcs \cup {"lock"} => pc'[u] = pc[u] /\ call'[u] = call[u]
  OBVIOUS
<1>3. Locking'
  BY <1>1, <1>2 DEF Inv, Locking, InsidePcs
<1>4. Registering'
  BY <1>1, <1>2 DEF Inv, Registering, InsidePcs
<1>5. Unmounting' /\ ReadersKnown' /\ Once
  BY <1>1 DEF Inv, Unmounting, ReadersKnown, Once, HasBeenRead
<1> QED BY <1>3, <1>4, <1>5

\* A member is opened.
LEMMA OpenMemberKeeps ==
  ASSUME Inv, NEW r \in Roots, OpenMember(r)
  PROVE  Inv' /\ Once
<1>1. /\ Shapes /\ handle \in Handles /\ handle' = [handle EXCEPT !.root = r] /\ sent' = 0
      /\ UNCHANGED <<archives, mount, closers, pc, call>>
  BY DEF Inv, OpenMember, threads, Shapes
<1>2. handle' \in Handles /\ handle'.offset = handle.offset /\ handle'.stream = handle.stream /\ handle'.lock = handle.lock
  BY <1>1 DEF Handles
<1>3. Shapes'
  BY <1>1, <1>2 DEF Shapes, archives, mount, closers
<1>4. Turns'
  BY <1>1, <1>2 DEF Inv, Turns
<1> QED BY <1>1, <1>3, <1>4, ArchivesKeep DEF Inv

\* The handle is released when nobody reads.
LEMMA ReleaseKeeps ==
  ASSUME Inv, Release
  PROVE  Inv' /\ Once
<1>1. /\ Shapes /\ handle' = NotOpen /\ sent' = 0
      /\ UNCHANGED <<archives, mount, closers, pc, call>> /\ \A t \in Threads : pc[t] # "read"
  BY DEF Inv, Release, Reading, threads
<1>2. Shapes'
  BY <1>1, Nothing DEF Shapes, archives, mount, closers
<1>3. Turns'
  BY <1>1, Nothing DEF Turns
<1> QED BY <1>1, <1>2, <1>3, ArchivesKeep DEF Inv

\* The kernel asks for what comes next.
LEMMA ReadKeeps ==
  ASSUME Inv, NEW t \in Threads, NEW size \in 1..MaxReadSize, Read(t, size)
  PROVE  Inv' /\ Once
<1>0. size \in Int
  BY BoundsAssumption
<1>1. /\ Shapes /\ sent \in Int /\ pc[t] = "idle" /\ pc' = [pc EXCEPT ![t] = "wait"]
      /\ call[t] \in Calls
      /\ call' = [call EXCEPT ![t] = [call[t] EXCEPT !.offset = sent, !.size = size]]
      /\ sent' = sent + size
      /\ UNCHANGED <<archives, mount, closers, handle>>
  BY DEF Inv, Read, Goto, Shapes
<1>2. [call[t] EXCEPT !.offset = sent, !.size = size] \in Calls
  BY <1>0, <1>1 DEF Calls
<1>3. call' \in [Threads -> Calls] /\ \A u \in Threads : u # t => call'[u] = call[u]
  BY <1>1, <1>2, CallTyped
<1>4. pc'[t] = "wait" /\ \A u \in Threads : u # t => pc'[u] = pc[u]
  BY <1>1, Thread
<1>5. Shapes'
  BY <1>0, <1>1, <1>3 DEF Shapes, archives, mount, closers
<1>6. Turns'
  BY <1>1, <1>3, <1>4 DEF Inv, Turns
<1>7. \A u \in Threads : /\ pc'[u] = pc[u] \/ {pc[u], pc'[u]} \cap (InsidePcs \cup {"lock"}) = {}
                         /\ call'[u] = call[u] \/ pc'[u] \notin InsidePcs \cup {"lock"}
  BY <1>1, <1>3, <1>4 DEF InsidePcs
<1> QED BY <1>1, <1>5, <1>6, <1>7, ArchivesKeep DEF Inv

\* A goroutine's turn comes when the handle is at its offset.
LEMMA TakeTurnKeeps ==
  ASSUME Inv, NEW t \in Threads, TakeTurn(t)
  PROVE  Inv' /\ Once
<1>1. /\ Shapes /\ pc[t] = "wait" /\ pc' = [pc EXCEPT ![t] = "read"] /\ handle \in Handles
      /\ handle.lock = None /\ call[t].offset = handle.offset /\ handle' = [handle EXCEPT !.lock = t]
      /\ UNCHANGED <<archives, mount, closers, sent, call>>
  BY DEF Inv, TakeTurn, Goto, Shapes
<1>2. handle' \in Handles /\ handle'.offset = handle.offset /\ handle'.stream = handle.stream /\ handle'.lock = t
  BY <1>1 DEF Handles
<1>3. pc'[t] = "read" /\ \A u \in Threads : u # t => pc'[u] = pc[u]
  BY <1>1, Thread
<1>4. Shapes'
  BY <1>1, <1>2 DEF Shapes, archives, mount, closers
<1>5. Turns'
  BY <1>1, <1>2, <1>3, Nothing DEF Inv, Turns
<1>6. \A u \in Threads : /\ pc'[u] = pc[u] \/ {pc[u], pc'[u]} \cap (InsidePcs \cup {"lock"}) = {}
                         /\ call'[u] = call[u] \/ pc'[u] \notin InsidePcs \cup {"lock"}
  BY <1>1, <1>3 DEF InsidePcs
<1> QED BY <1>1, <1>4, <1>5, <1>6, ArchivesKeep DEF Inv

\* It reads, and the handle follows the stream, also when the read fails.
LEMMA ReadMemberKeeps ==
  ASSUME Inv, NEW t \in Threads, ReadMember(t)
  PROVE  Inv' /\ Once
<1>1. /\ Shapes /\ pc[t] = "read" /\ handle \in Handles /\ call[t] \in Calls /\ handle.lock = t
      /\ handle.offset = handle.stream
      /\ UNCHANGED <<archives, mount, closers, sent>>
  BY DEF Inv, ReadMember, Shapes, Turns
<1>2. PICK nr \in Int : ReadFull(t, nr)
  <2>1. handle.stream \in Int /\ call[t].size \in Int /\ Length \in Int
    BY <1>1, BoundsAssumption DEF Handles, Calls
  <2> DEFINE left == Length - handle.stream
             full == IF call[t].size <= left THEN call[t].size ELSE left
  <2>2. full \in Int /\ \A nr \in 0..full : nr \in Int
    BY <2>1
  <2>3. ReadFull(t, full) \/ \E nr \in 0..full : ReadFull(t, nr)
    BY DEF ReadMember
  <2> QED BY <2>2, <2>3
<1>3. /\ handle' = [handle EXCEPT !.stream = handle.stream + nr, !.offset = handle.offset + nr, !.lock = None]
      /\ pc' = [pc EXCEPT ![t] = "idle"] /\ call' = [call EXCEPT ![t] = Idle]
  BY <1>1, <1>2 DEF ReadFull, Advance, Finish, Goto, Handles
<1>4. handle.stream + nr \in Int /\ handle.offset + nr \in Int /\ handle.offset + nr = handle.stream + nr
  BY <1>1 DEF Handles
<1>5. handle' \in Handles /\ handle'.offset = handle'.stream
  BY <1>1, <1>3, <1>4 DEF Handles
<1>6. call' \in [Threads -> Calls] /\ \A u \in Threads : u # t => call'[u] = call[u]
  BY <1>1, <1>3, CallTyped, Nothing
<1>7. pc'[t] = "idle" /\ \A u \in Threads : u # t => pc'[u] = pc[u]
  BY <1>1, <1>3, Thread
<1>8. Shapes'
  BY <1>1, <1>3, <1>5, <1>6 DEF Shapes, archives, mount, closers
<1>9. Turns'
  BY <1>1, <1>5, <1>7 DEF Inv, Turns
<1>10. \A u \in Threads : /\ pc'[u] = pc[u] \/ {pc[u], pc'[u]} \cap (InsidePcs \cup {"lock"}) = {}
                          /\ call'[u] = call[u] \/ pc'[u] \notin InsidePcs \cup {"lock"}
  BY <1>1, <1>6, <1>7 DEF InsidePcs
<1> QED BY <1>1, <1>8, <1>9, <1>10, ArchivesKeep DEF Inv

\* The readers are closed when the file system is not mounted any more.
LEMMA UnmountKeeps ==
  ASSUME Inv, NEW a \in Actors, UnmountStart(a) \/ UnmountClear(a) \/ UnmountWalk(a)
  PROVE  Inv' /\ Once
<1>1. /\ Shapes /\ (Mounted' = Mounted \/ ~Mounted')
      /\ UNCHANGED <<tree, ReadArchiveLock, closeOnUnmount, closeOnUnmountLock, handle, sent, pc, call>>
  BY DEF Inv, UnmountStart, UnmountClear, UnmountWalk, archives, closers, member, threads
<1>2. PICK s \in {"none", "clear", "walk", "walkAndDie"} :
        /\ unmount' = [unmount EXCEPT ![a] = s]
        /\ s \in {"walk", "walkAndDie"} => ~Mounted'
  <2>1. CASE UnmountStart(a)
    <3>1. unmount' = [unmount EXCEPT ![a] = "clear"] \/ unmount' = [unmount EXCEPT ![a] = unmount[a]]
      BY <1>1, <2>1 DEF UnmountStart, Shapes
    <3>2. unmount[a] = "none"
      BY <2>1 DEF UnmountStart
    <3> QED BY <3>1, <3>2
  <2>2. CASE UnmountClear(a)
    BY <2>2 DEF UnmountClear
  <2>3. CASE UnmountWalk(a)
    BY <2>3 DEF UnmountWalk
  <2> QED BY <2>1, <2>2, <2>3
<1>3. reader' = reader \/ (~Mounted /\ reader' = [r \in Roots |-> IF r \in closeOnUnmount THEN "closed" ELSE reader[r]])
  BY DEF Inv, Unmounting, UnmountStart, UnmountClear, UnmountWalk, archives
<1>4. /\ reader' \in [Roots -> {"none", "open", "closed"}]
      /\ \A r \in Roots : reader[r] # "none" => reader'[r] # "none"
      /\ \A r \in Roots : reader'[r] = "closed" => reader[r] = "closed" \/ ~Mounted
  BY <1>1, <1>3 DEF Shapes
<1>5. Shapes'
  BY <1>1, <1>2, <1>4 DEF Shapes
<1>6. Locking'
  BY <1>1, <1>4 DEF Inv, Locking, InsidePcs
<1>7. Registering' /\ Turns'
  BY <1>1 DEF Inv, Registering, Turns
<1>8. Unmounting'
  BY <1>1, <1>2 DEF Inv, Unmounting, Shapes
<1>9. ReadersKnown' /\ Once
  BY <1>1, <1>4 DEF Inv, ReadersKnown, Once, HasBeenRead
<1> QED BY <1>5, <1>6, <1>8, <1>9, <1>7 DEF Inv

\* Every step keeps the invariant, and what has been read.
LEMMA Step == Inv /\ [Next]_vars => Inv' /\ Once
<1> SUFFICES ASSUME Inv, [Next]_vars
             PROVE  Inv' /\ Once
  OBVIOUS
<1>1. CASE UNCHANGED vars
  <2>1. UNCHANGED <<archives, mount, closers, pc, call, handle, sent>>
    BY <1>1 DEF vars, member, threads
  <2>2. Shapes' /\ Turns'
    BY <2>1 DEF Inv, Shapes, Turns, archives, mount, closers
  <2> QED BY <2>1, <2>2, ArchivesKeep DEF Inv
<1> QED BY <1>1, ArriveKeeps, LockKeeps, OpenKeeps, RegisterKeeps, AppendKeeps, InsertKeeps,
           OpenMemberKeeps, ReleaseKeeps, ReadKeeps, TakeTurnKeeps, ReadMemberKeeps, UnmountKeeps
        DEF Next, Serve

-----------------------------------------------------------------------------
(* What is read of an archive *)

\* Induction: a set of natural numbers with 0 and the successors of its elements
LEMMA NatSets ==
  ASSUME NEW T \in SUBSET Nat, 0 \in T, \A n \in T : n + 1 \in T
  PROVE  T = Nat
<1> SUFFICES ASSUME Nat \ T # {}
             PROVE  FALSE
  OBVIOUS
<1> DEFINE R == OpToRel(<, Nat)
<1>1. IsWellFoundedOn(R, Nat)
  BY NatLessThanWellFounded
<1>2. \A x, y \in Nat : y < x => <<y, x>> \in R
  BY DEF OpToRel
<1> HIDE DEF R
<1>3. PICK x \in Nat \ T : \A y \in Nat \ T : ~(<<y, x>> \in R)
  BY <1>1, WFMin
<1>4. x \in Nat /\ x # 0
  BY <1>3
<1>5. x - 1 \in Nat /\ x - 1 < x /\ x = (x - 1) + 1
  BY <1>4
<1>6. x - 1 \in T
  BY <1>2, <1>3, <1>4, <1>5
<1> QED BY <1>3, <1>5, <1>6

\* What the recursion of Walk defines
LEMMA WalkDef ==
  ASSUME NEW t, NEW m, Len(archive[m]) \in Nat
  PROVE  /\ Walk(t, m)[0] = [tree |-> t, dir |-> <<>>]
         /\ \A i \in 1..Len(archive[m]) : Walk(t, m)[i] = Component(Walk(t, m)[i - 1], m, i)
<1> DEFINE start == [tree |-> t, dir |-> <<>>]
           Steps(g, n) == g = [i \in 0..n |-> IF i = 0 THEN start ELSE Component(g[i - 1], m, i)]
           T == {n \in Nat : \E g : Steps(g, n)}
<1>1. 0 \in T
  <2>1. Steps([i \in 0..0 |-> start], 0)
    OBVIOUS
  <2> QED BY <2>1
<1>2. ASSUME NEW n \in T
      PROVE  n + 1 \in T
  <2>0. n \in Nat /\ n + 1 \in Nat
    OBVIOUS
  <2>1. PICK g : Steps(g, n)
    OBVIOUS
  <2> DEFINE h == [i \in 0..n + 1 |-> IF i <= n THEN g[i] ELSE Component(g[n], m, n + 1)]
  <2>2. Steps(h, n + 1)
    BY <2>0, <2>1
  <2> HIDE DEF Steps, h
  <2> QED BY <2>0, <2>2
<1>3. T = Nat
  <2> HIDE DEF T
  <2> QED BY <1>1, <1>2, NatSets DEF T
<1>4. PICK g : Steps(g, Len(archive[m]))
  BY <1>3
<1>5. Steps(Walk(t, m), Len(archive[m]))
  BY <1>4 DEF Walk
<1> DEFINE at == Walk(t, m)
           N  == Len(archive[m])
<1>6. at = [i \in 0..N |-> IF i = 0 THEN start ELSE Component(at[i - 1], m, i)] /\ N \in Nat
  BY <1>5
<1> HIDE DEF at, N
<1>7. at[0] = start /\ \A i \in 1..N : at[i] = Component(at[i - 1], m, i)
  BY <1>6
<1> QED BY <1>7 DEF at, N

\* The first parts of a name, one component at a time
LEMMA NextPart ==
  ASSUME NEW s \in Seq(STRING), NEW i \in 0..(Len(s) - 1)
  PROVE  Append(SubSeq(s, 1, i), s[i + 1]) = SubSeq(s, 1, i + 1)
<1>1. /\ Len(s) \in Nat /\ i \in Nat /\ i + 1 \in 1..Len(s) /\ 1 \in 1..Len(s) /\ i + 1 \in 1..Len(s)
      /\ (i + 1) - 1 = i
  BY LenProperties
<1>2. SubSeq(s, 1, i + 1) = SubSeq(s, 1, i) \o <<s[i + 1]>>
  BY <1>1, SubSeqRecursiveSecond
<1>3. SubSeq(s, 1, i) \in Seq(STRING) /\ s[i + 1] \in STRING
  <2>1. \A j \in 1..Len(s) : s[j] \in STRING
    BY ElementOfSeq
  <2>2. i \in Int /\ 1 \in Int /\ \A j \in 1..i : s[j] \in STRING
    BY <1>1, <2>1
  <2> QED BY <1>1, <2>1, <2>2, SubSeqProperties
<1> QED BY <1>2, <1>3, AppendIsConcat

\* The contents of the first n members
UpTo(n) ==
  [SubDirs |-> {Front(archive[m]) : m \in {k \in 1..n : IsDirectory(archive[k])}},
   Files   |-> {File(archive[m], m) : m \in {k \in 1..n : ~IsDirectory(archive[k])}}]

\* The names of an archive that lists directories first
LEMMA Names ==
  ASSUME DirectoriesFirst(archive), NEW m \in DOMAIN archive
  PROVE  /\ Len(archive) \in Nat /\ DOMAIN archive = 1..Len(archive) /\ m \in Nat /\ m >= 1 /\ m <= Len(archive)
         /\ archive[m] \in Seq(STRING) /\ DOMAIN archive[m] = 1..Len(archive[m])
         /\ Len(archive[m]) \in Nat /\ Len(archive[m]) # 0
<1>1. archive \in Seq(Seq(STRING)) /\ archive[m] # <<>>
  BY DEF DirectoriesFirst
<1>2. Len(archive) \in Nat /\ DOMAIN archive = 1..Len(archive)
  BY <1>1, LenProperties
<1>3. archive[m] \in Seq(STRING)
  BY <1>1, <1>2, ElementOfSeq
<1>4. Len(archive[m]) \in Nat /\ DOMAIN archive[m] = 1..Len(archive[m]) /\ Len(archive[m]) # 0
  BY <1>1, <1>3, LenProperties, EmptySeq
<1> QED BY <1>2, <1>3, <1>4

\* The directories above a member are those that its name goes through; they are
\* listed before it, and it is not.
LEMMA Parents ==
  ASSUME DirectoriesFirst(archive), NEW m \in DOMAIN archive
  PROVE  LET s == archive[m]
             q == IF IsDirectory(s) THEN Len(s) - 1 ELSE Len(s) IN
         /\ q \in 1..Len(s) /\ PathOf(s) = SubSeq(s, 1, q)
         /\ \A i \in 1..q : s[i] # NoName
         /\ IsDirectory(s) => q = Len(s) - 1 /\ s[Len(s)] = NoName
         /\ \A i \in 1..(q - 1) : SubSeq(s, 1, i) \in UpTo(m - 1).SubDirs
         /\ PathOf(s) \notin UpTo(m - 1).SubDirs
         /\ \A f \in UpTo(m - 1).Files : f.path # PathOf(s)
<1> DEFINE s == archive[m]
           l == Len(s)
           q == IF IsDirectory(s) THEN l - 1 ELSE l
<1>1. /\ Len(archive) \in Nat /\ DOMAIN archive = 1..Len(archive) /\ m \in Nat /\ m >= 1 /\ m <= Len(archive)
      /\ s \in Seq(STRING) /\ DOMAIN s = 1..l /\ l \in Nat /\ l # 0
  BY Names
<1>2. /\ \A i \in DOMAIN s : s[i] = NoName => i > 1 /\ i = l
      /\ \A i \in 1..(Len(PathOf(s)) - 1) :
            \E k \in 1..(m - 1) : IsDirectory(archive[k]) /\ Front(archive[k]) = SubSeq(s, 1, i)
      /\ \A k \in DOMAIN archive \ {m} : PathOf(archive[k]) # PathOf(s)
  BY DEF DirectoriesFirst
<1> HIDE DEF s
<1>3. /\ IsDirectory(s) <=> s[l] = NoName
      /\ PathOf(s) = SubSeq(s, 1, q)
  BY <1>1, SubSeqFull DEF PathOf, IsDirectory, Last, Front
<1>4. \A i \in 1..l : s[i] \in STRING
  BY <1>1, ElementOfSeq, Zenon
<1> HIDE DEF l
<1>5. q \in 1..l /\ \A i \in 1..q : i \in 1..l /\ s[i] # NoName
  <2>1. l \in Nat /\ l \in 1..l /\ \A i \in 1..l : s[i] = NoName => i > 1 /\ i = l
    BY ONLY <1>1, <1>2
  <2>2. CASE IsDirectory(s)
    <3>1. q = l - 1 /\ l > 1
      BY <1>3, <2>1, <2>2
    <3> HIDE DEF q
    <3>2. q \in 1..l /\ \A i \in 1..q : i \in 1..l /\ i # l
      BY ONLY <2>1, <3>1
    <3> QED BY ONLY <2>1, <3>2
  <2>3. CASE ~IsDirectory(s)
    <3>1. q = l /\ s[l] # NoName
      BY <1>3, <2>3
    <3> HIDE DEF q
    <3> QED BY ONLY <2>1, <3>1
  <2> QED BY <2>2, <2>3
<1>6. Len(PathOf(s)) = q
  <2> HIDE DEF q
  <2>1. q \in Int /\ 1 \in Int /\ 1 <= q /\ q - 1 + 1 = q
    BY ONLY <1>1, <1>5
  <2>2. \A i \in 1..q : s[i] \in STRING
    BY ONLY <1>4, <1>5
  <2>3. Len(SubSeq(s, 1, q)) = IF 1 <= q THEN q - 1 + 1 ELSE 0
    BY <2>1, <2>2, SubSeqProperties
  <2> QED BY ONLY <1>3, <2>1, <2>3
<1> HIDE DEF q
<1>7. \A i \in 1..(q - 1) : SubSeq(s, 1, i) \in UpTo(m - 1).SubDirs
  BY <1>2, <1>6 DEF UpTo
<1>8. \A k \in 1..(m - 1) : PathOf(archive[k]) # PathOf(s)
  <2>1. \A k \in 1..(m - 1) : k \in DOMAIN archive \ {m}
    BY <1>1
  <2> QED BY <1>2, <2>1
<1>9. PathOf(s) \notin UpTo(m - 1).SubDirs
  BY <1>8 DEF UpTo, PathOf
<1>10. \A f \in UpTo(m - 1).Files : f.path # PathOf(s)
  BY <1>8 DEF UpTo, PathOf, File
<1>11. IsDirectory(s) => q = l - 1 /\ s[l] = NoName
  BY <1>3 DEF q
<1> QED BY <1>3, <1>5, <1>7, <1>9, <1>10, <1>11 DEF s, q, l

\* One more member
LEMMA UpToNext ==
  ASSUME NEW m \in Nat, m >= 1
  PROVE  LET old == UpTo(m - 1) IN
         UpTo(m) = IF IsDirectory(archive[m])
                   THEN [SubDirs |-> old.SubDirs \cup {Front(archive[m])}, Files |-> old.Files]
                   ELSE [SubDirs |-> old.SubDirs, Files |-> old.Files \cup {File(archive[m], m)}]
<1> DEFINE Dirs(n)  == {k \in 1..n : IsDirectory(archive[k])}
           Plain(n) == {k \in 1..n : ~IsDirectory(archive[k])}
<1>0. 1..m = (1..(m - 1)) \cup {m}
  OBVIOUS
<1>1. CASE IsDirectory(archive[m])
  <2>1. Dirs(m) = Dirs(m - 1) \cup {m} /\ Plain(m) = Plain(m - 1)
    BY <1>0, <1>1
  <2> HIDE DEF Dirs, Plain
  <2>2. {Front(archive[k]) : k \in Dirs(m)} = {Front(archive[k]) : k \in Dirs(m - 1)} \cup {Front(archive[m])}
    BY <2>1
  <2> QED BY <1>1, <2>1, <2>2 DEF UpTo, Dirs, Plain
<1>2. CASE ~IsDirectory(archive[m])
  <2>1. Plain(m) = Plain(m - 1) \cup {m} /\ Dirs(m) = Dirs(m - 1)
    BY <1>0, <1>2
  <2> HIDE DEF Dirs, Plain
  <2>2. {File(archive[k], k) : k \in Plain(m)} = {File(archive[k], k) : k \in Plain(m - 1)} \cup {File(archive[m], m)}
    BY <2>1
  <2> QED BY <1>2, <2>1, <2>2 DEF UpTo, Dirs, Plain
<1> QED BY <1>1, <1>2

\* Inserting the next member makes of the first m - 1 members the first m.
LEMMA InsertedRight ==
  ASSUME DirectoriesFirst(archive), NEW m \in DOMAIN archive
  PROVE  Inserted(UpTo(m - 1), m) = UpTo(m)
<1> DEFINE s   == archive[m]
           q   == IF IsDirectory(s) THEN Len(s) - 1 ELSE Len(s)
           old == UpTo(m - 1)
           at  == Walk(old, m)
           dirs == old.SubDirs
           files == old.Files
<1>1. /\ m \in Nat /\ m >= 1 /\ s \in Seq(STRING) /\ Len(s) \in Nat
  BY Names
<1>2. /\ q \in 1..Len(s) /\ PathOf(s) = SubSeq(s, 1, q)
      /\ \A i \in 1..q : s[i] # NoName
      /\ IsDirectory(s) => q = Len(s) - 1 /\ s[Len(s)] = NoName
      /\ \A i \in 1..(q - 1) : SubSeq(s, 1, i) \in dirs
      /\ PathOf(s) \notin dirs
      /\ \A f \in files : f.path # PathOf(s)
  BY Parents
<1>3. ~IsDirectory(s) => q = Len(s)
  OBVIOUS
<1>4. /\ at[0] = [tree |-> old, dir |-> <<>>]
      /\ \A i \in 1..Len(s) : at[i] = Component(at[i - 1], m, i)
  BY <1>1, WalkDef
<1>5. old = [SubDirs |-> dirs, Files |-> files]
  BY DEF UpTo
<1>6. UpTo(m) = IF IsDirectory(s) THEN [SubDirs |-> dirs \cup {Front(s)}, Files |-> files]
                ELSE [SubDirs |-> dirs, Files |-> files \cup {File(s, m)}]
  BY <1>1, UpToNext
<1>7. Inserted(old, m) = at[Len(s)].tree
  BY DEF Inserted
<1>8. PathOf(s) = IF IsDirectory(s) THEN Front(s) ELSE s
  BY DEF PathOf
<1> HIDE DEF q, old, at, dirs, files
<1> DEFINE here(n) == [tree |-> old, dir |-> SubSeq(s, 1, n)]
           T == {n \in Nat : n < q => at[n] = here(n)}
<1>9. ASSUME NEW i \in 1..q
      PROVE  i \in 1..Len(s) /\ Append(SubSeq(s, 1, i - 1), s[i]) = SubSeq(s, 1, i) /\ s[i] # NoName
  <2>1. i - 1 \in 0..(Len(s) - 1) /\ (i - 1) + 1 = i /\ i \in 1..Len(s)
    BY <1>1, <1>2
  <2>2. Append(SubSeq(s, 1, i - 1), s[(i - 1) + 1]) = SubSeq(s, 1, (i - 1) + 1)
    BY <1>1, <2>1, NextPart
  <2> QED BY <1>2, <2>1, <2>2
<1>10. 0 \in T
  <2>1. SubSeq(s, 1, 0) = <<>>
    BY <1>1, SubSeqEmpty
  <2> QED BY <1>4, <2>1
<1>11. ASSUME NEW n \in T
       PROVE  n + 1 \in T
  <2>0. n \in Nat /\ n + 1 \in Nat /\ (n + 1) - 1 = n
    OBVIOUS
  <2> SUFFICES ASSUME n + 1 < q
               PROVE  at[n + 1] = here(n + 1)
    BY <2>0
  <2>1. at[n] = here(n) /\ n + 1 \in 1..q /\ n + 1 \in 1..(q - 1)
    BY <1>1, <1>2, <2>0
  <2>2. /\ Append(SubSeq(s, 1, n), s[n + 1]) = SubSeq(s, 1, n + 1) /\ s[n + 1] # NoName
        /\ n + 1 \in 1..Len(s)
    BY <1>9, <2>0, <2>1
  <2>3. SubSeq(s, 1, n + 1) \in dirs
    BY <1>2, <2>1
  <2>4. at[n + 1] = Component(here(n), m, n + 1)
    BY <1>4, <2>0, <2>1, <2>2
  <2> QED BY <2>2, <2>3, <2>4 DEF Component, Skipped, dirs
<1>12. T = Nat
  <2> HIDE DEF T
  <2>1. T \in SUBSET Nat
    BY DEF T
  <2> QED BY <1>10, <1>11, <2>1, NatSets
<1>13. at[q - 1] = here(q - 1)
  <2>1. q - 1 \in Nat /\ q - 1 < q
    BY <1>1, <1>2
  <2> QED BY <1>12, <2>1
<1>14. /\ q \in 1..Len(s) /\ q \in 1..q /\ Append(SubSeq(s, 1, q - 1), s[q]) = PathOf(s) /\ s[q] # NoName
  <2>1. q \in 1..q
    BY <1>1, <1>2
  <2> QED BY <1>2, <1>9, <2>1
<1>15. at[q] = Component(here(q - 1), m, q)
  BY <1>4, <1>13, <1>14
<1>16. at[q].tree = IF q = Len(s) THEN [old EXCEPT !.Files = {f \in files : f.path # PathOf(s)} \cup {File(PathOf(s), m)}]
                    ELSE [old EXCEPT !.SubDirs = dirs \cup {PathOf(s)}]
  <2> DEFINE h == here(q - 1)
             path == PathOf(s)
  <2>1. h.tree = old /\ h.dir = SubSeq(s, 1, q - 1) /\ old.SubDirs = dirs /\ old.Files = files
    BY DEF dirs, files
  <2>2. path \notin dirs /\ s[q] # NoName /\ Append(SubSeq(s, 1, q - 1), s[q]) = path
    BY <1>2, <1>14
  <2>3. h = [tree |-> old, dir |-> SubSeq(s, 1, q - 1)]
    OBVIOUS
  <2> HIDE DEF path, h, here
  <2>4. at[q] = IF q = Len(s) THEN [h EXCEPT !.tree.Files = {f \in files : f.path # path} \cup {File(path, m)}]
                ELSE [h EXCEPT !.tree.SubDirs = dirs \cup {path}]
    <3>1. Component(h, m, q) = IF q = Len(s) THEN [h EXCEPT !.tree.Files = {f \in files : f.path # path} \cup {File(path, m)}]
                               ELSE [h EXCEPT !.tree.SubDirs = dirs \cup {path}]
      BY ONLY <2>1, <2>2 DEF Component, Skipped
    <3> QED BY <1>15, <3>1 DEF h
  <2> QED BY ONLY <2>1, <2>3, <2>4 DEF path
<1> HIDE DEF T
<1>17. CASE ~IsDirectory(s)
  <2>1. q = Len(s) /\ PathOf(s) = s
    BY <1>3, <1>8, <1>17
  <2>2. {f \in files : f.path # s} = files /\ s \notin dirs
    BY <1>2, <2>1
  <2>3. at[q].tree = [old EXCEPT !.Files = files \cup {File(s, m)}]
    BY <1>16, <2>1, <2>2
  <2>4. [old EXCEPT !.Files = files \cup {File(s, m)}] = [SubDirs |-> dirs, Files |-> files \cup {File(s, m)}]
    BY <1>5
  <2> QED BY <1>6, <1>7, <1>17, <2>1, <2>3, <2>4 DEF old
<1>18. CASE IsDirectory(s)
  <2>1. q = Len(s) - 1 /\ s[Len(s)] = NoName /\ PathOf(s) = Front(s)
    BY <1>2, <1>8, <1>18
  <2>2. q # Len(s) /\ Len(s) \in 1..Len(s)
    BY <1>1, <1>14, <2>1
  <2>3. at[q].tree = [SubDirs |-> dirs \cup {Front(s)}, Files |-> files]
    <3>1. at[q].tree = [old EXCEPT !.SubDirs = dirs \cup {Front(s)}]
      BY <1>16, <2>1, <2>2
    <3> QED BY <1>5, <3>1
  <2>4. at[Len(s)] = Component(at[q], m, Len(s))
    BY <1>4, <2>1, <2>2
  <2>5. at[Len(s)] = at[q]
    BY <2>1, <2>4 DEF Component, Skipped
  <2> QED BY <1>6, <1>7, <1>18, <2>3, <2>5 DEF old
<1> QED BY <1>17, <1>18

-----------------------------------------------------------------------------
(* The contents and the bounds *)

\* The archives list directories before what is in them.
Listed == \A a \in Archives : DirectoriesFirst(a)

\* The bounds
Bounded ==
  /\ archive \in Archives
  /\ faults \in 0..MaxFaults /\ leaked \in 0..faults
  /\ Mounted \in BOOLEAN /\ exited \in BOOLEAN /\ troubled \in BOOLEAN
  /\ closeOnUnmountLock \in Threads \cup {None}
  /\ handle.stream \in 0..Length /\ sent \in 0..(Length + MaxReadSize)
  /\ \A t \in Threads : /\ call[t].next \in 0..(Len(archive) + 1)
                        /\ call[t].offset \in 0..(Length + MaxReadSize)
                        /\ call[t].size \in 0..MaxReadSize

\* What is read of an archive is its first members, all of them when the lock is given
\* back; the goroutine that has it knows how many.
Building ==
  /\ \A r \in Roots : tree[r] = Nil \/ \E n \in 0..Len(archive) : tree[r] = UpTo(n)
  /\ \A r \in Roots : HasBeenRead(r) => tree[r] = UpTo(Len(archive))
  /\ \A t \in Threads : pc[t] \in {"open", "register", "append"} => tree[call[t].root] = Nil
  /\ \A t \in Threads : pc[t] = "insert" =>
        /\ call[t].next \in 1..(Len(archive) + 1)
        /\ tree[call[t].root] = UpTo(call[t].next - 1)

\* The first members, none and all
LEMMA UpToFacts ==
  ASSUME DirectoriesFirst(archive)
  PROVE  /\ Len(archive) \in Nat /\ UpTo(0) = Empty /\ UpTo(Len(archive)) = Contents
         /\ \A n \in 0..Len(archive) :
              /\ UpTo(n).SubDirs \subseteq Contents.SubDirs /\ UpTo(n).Files \subseteq Contents.Files
              /\ \A f \in UpTo(n).Files : f.member \in DOMAIN archive
<1>1. archive \in Seq(Seq(STRING))
  BY DEF DirectoriesFirst
<1>2. Len(archive) \in Nat /\ DOMAIN archive = 1..Len(archive)
  BY <1>1, LenProperties
<1>3. UpTo(0) = Empty
  <2>1. 1..0 = {}
    OBVIOUS
  <2> QED BY <2>1 DEF UpTo, Empty
<1>4. UpTo(Len(archive)) = Contents
  BY <1>2 DEF UpTo, Contents
<1>5. ASSUME NEW n \in 0..Len(archive)
      PROVE  /\ UpTo(n).SubDirs \subseteq Contents.SubDirs /\ UpTo(n).Files \subseteq Contents.Files
             /\ \A f \in UpTo(n).Files : f.member \in DOMAIN archive
  <2>1. \A k \in 1..n : k \in DOMAIN archive
    BY <1>2
  <2> QED BY <2>1 DEF UpTo, Contents, File
<1> QED BY <1>2, <1>3, <1>4, <1>5

\* The directories are among the paths of the archive.
LEMMA DirsPaths ==
  ASSUME DirectoriesFirst(archive)
  PROVE  Contents.SubDirs \subseteq Paths
<1> SUFFICES ASSUME NEW m \in DOMAIN archive, IsDirectory(archive[m])
             PROVE  Front(archive[m]) \in Paths
  BY DEF Contents
<1>1. DOMAIN archive[m] = 1..Len(archive[m]) /\ Len(archive[m]) \in Nat
  BY Names
<1>2. Len(archive[m]) - 1 \in 1..Len(archive[m]) /\ PathOf(archive[m]) = SubSeq(archive[m], 1, Len(archive[m]) - 1)
  BY Parents
<1>3. Front(archive[m]) = SubSeq(archive[m], 1, Len(archive[m]) - 1)
  BY <1>2 DEF PathOf
<1> DEFINE parts(k) == {SubSeq(archive[k], 1, i) : i \in DOMAIN archive[k]}
<1>4. Front(archive[m]) \in parts(m)
  BY <1>1, <1>2, <1>3
<1>5. Paths = UNION {parts(k) : k \in DOMAIN archive}
  BY DEF Paths, PathsIn
<1> HIDE DEF parts
<1> QED BY <1>4, <1>5

\* The contents do not change.
LEMMA UpToSame ==
  ASSUME archive' = archive
  PROVE  \A n : UpTo(n)' = UpTo(n)
BY DEF UpTo

\* The end of a request
LEMMA Finished ==
  ASSUME Shapes, NEW t \in Threads, Finish(t)
  PROVE  /\ pc'[t] = "idle" /\ call'[t] = Idle
         /\ \A u \in Threads : u # t => pc'[u] = pc[u] /\ call'[u] = call[u]
<1>1. pc' = [pc EXCEPT ![t] = "idle"] /\ call' = [call EXCEPT ![t] = Idle]
  BY DEF Finish, Goto
<1>2. pc'[t] = "idle" /\ \A u \in Threads : u # t => pc'[u] = pc[u]
  BY <1>1, Thread
<1>3. call'[t] = Idle /\ \A u \in Threads : u # t => call'[u] = call[u]
  BY <1>1, CallTyped, Nothing
<1> QED BY <1>2, <1>3

\* The steps that make no node: a goroutine gets the lock when nothing is read, or gives
\* it back then or when all is.
LEMMA TreeSame ==
  ASSUME Building, UNCHANGED <<archive, tree>>,
         \A r \in Roots : /\ tree[r] # Nil /\ tree[r] # UpTo(Len(archive))
                          => ReadArchiveLock[r] = None \/ ReadArchiveLock'[r] # None,
         \A u \in Threads :
           /\ pc'[u] \in {"open", "register", "append"} => tree[call'[u].root] = Nil
           /\ pc'[u] = "insert" => /\ pc[u] = "insert" /\ call'[u].next = call[u].next
                                   /\ call'[u].root = call[u].root
  PROVE  Building'
<1>1. \A n : UpTo(n)' = UpTo(n)
  BY UpToSame
<1>2. \A r \in Roots : tree'[r] = Nil \/ \E n \in 0..Len(archive') : tree'[r] = UpTo(n)'
  BY <1>1 DEF Building
<1>3. \A r \in Roots : HasBeenRead(r)' => tree'[r] = UpTo(Len(archive))'
  BY <1>1 DEF Building, HasBeenRead
<1>4. \A u \in Threads : pc'[u] = "insert" =>
        /\ call'[u].next \in 1..(Len(archive') + 1)
        /\ tree'[call'[u].root] = UpTo(call[u].next - 1)'
  BY <1>1 DEF Building
<1> QED BY <1>2, <1>3, <1>4 DEF Building

\* The steps of ReadArchive that make no node
LEMMA LockBuilds ==
  ASSUME Inv, Building, NEW t \in Threads,
         (\E r \in Roots : Arrive(t, r)) \/ Lock(t) \/ OpenArchive(t) \/ Register(t)
  PROVE  Building'
<1>0. Shapes /\ UNCHANGED <<archive, tree>>
  BY DEF Inv, Arrive, Lock, OpenArchive, Register, archives
<1>1. ASSUME NEW r \in Roots, Arrive(t, r)
      PROVE  Building'
  <2>1. pc' = [pc EXCEPT ![t] = "lock"] /\ pc'[t] = "lock" /\ \A u \in Threads : u # t => pc'[u] = pc[u]
    BY <1>0, <1>1, Thread DEF Arrive, Goto
  <2>2. ReadArchiveLock' = ReadArchiveLock /\ \A u \in Threads : u # t => call'[u] = call[u]
    BY <1>0, <1>1 DEF Arrive, archives, Shapes
  <2>3. \A u \in Threads : u # t => pc'[u] = pc[u] /\ call'[u] = call[u]
    BY <2>1, <2>2
  <2> QED BY <1>0, <2>1, <2>2, <2>3, TreeSame DEF Building
<1>2. CASE Lock(t)
  <2>1. pc[t] = "lock" /\ call[t].root \in Roots
    BY <1>2 DEF Lock, Inv, Locking
  <2>2. CASE Finish(t) /\ UNCHANGED ReadArchiveLock
    BY <1>0, <2>2, Finished, TreeSame DEF Building
  <2>3. CASE /\ ~ReadMeanwhile(call[t].root)
             /\ ReadArchiveLock' = [ReadArchiveLock EXCEPT ![call[t].root] = t]
             /\ Goto(t, "open") /\ UNCHANGED call
    <3>1. pc'[t] = "open" /\ \A u \in Threads : u # t => pc'[u] = pc[u]
      BY <1>0, <2>3, Thread DEF Goto
    <3>2. tree[call[t].root] = Nil
      BY <2>3 DEF ReadMeanwhile
    <3>3. \A r \in Roots : ReadArchiveLock[r] = None \/ ReadArchiveLock'[r] # None
      BY <1>0, <2>1, <2>3, Nothing DEF Shapes
    <3> QED BY <1>0, <2>3, <3>1, <3>2, <3>3, TreeSame DEF Building
  <2> QED BY <1>2, <2>2, <2>3 DEF Lock
<1>3. CASE OpenArchive(t)
  <2>1. pc[t] = "open" /\ tree[call[t].root] = Nil
    BY <1>3 DEF OpenArchive, Building
  <2>2. CASE Goto(t, "register") /\ UNCHANGED <<ReadArchiveLock, call>>
    <3>1. pc'[t] = "register" /\ \A u \in Threads : u # t => pc'[u] = pc[u]
      BY <1>0, <2>2, Thread DEF Goto
    <3> QED BY <1>0, <2>1, <2>2, <3>1, TreeSame DEF Building
  <2>3. CASE Unlocks(t, call[t].root) /\ Finish(t)
    <3>1. \A r \in Roots : r # call[t].root => ReadArchiveLock'[r] = ReadArchiveLock[r]
      BY <2>1, <2>3, Unlocked DEF InsidePcs
    <3>2. \A r \in Roots : tree[r] # Nil => ReadArchiveLock'[r] = ReadArchiveLock[r]
      BY <2>1, <3>1
    <3> QED BY <1>0, <2>3, <3>2, Finished, TreeSame DEF Building
  <2> QED BY <1>3, <2>2, <2>3 DEF OpenArchive
<1>4. CASE Register(t)
  <2>1. pc[t] = "register" /\ tree[call[t].root] = Nil /\ ReadArchiveLock' = ReadArchiveLock
    BY <1>4 DEF Register, Building, archives
  <2>2. pc'[t] = "append" /\ \A u \in Threads : u # t => pc'[u] = pc[u]
    BY <1>0, <1>4, Thread DEF Register, Goto
  <2>3. call[t] \in Calls /\ call' = [call EXCEPT ![t] = [call[t] EXCEPT !.list = closeOnUnmount]]
    BY <1>0, <1>4 DEF Register, Shapes
  <2>4. call'[t].root = call[t].root /\ \A u \in Threads : u # t => call'[u] = call[u]
    BY <1>0, <2>3 DEF Shapes, Calls
  <2> QED BY <1>0, <2>1, <2>2, <2>4, TreeSame DEF Building
<1> QED BY <1>1, <1>2, <1>3, <1>4

\* The steps that make nodes have nobody else at the same root.
LEMMA NodeBuilds ==
  ASSUME Inv, Building, NEW t \in Threads, pc[t] \in InsidePcs, archive' = archive,
         NEW r, r = call[t].root, NEW n \in 0..Len(archive), Len(archive) \in Nat,
         tree' = [tree EXCEPT ![r] = UpTo(n)], ReadArchiveLock' = ReadArchiveLock,
         pc'[t] = "insert", call'[t].root = r, call'[t].next = n + 1,
         \A u \in Threads : u # t => pc'[u] = pc[u] /\ call'[u] = call[u]
  PROVE  Building'
<1>1. \A k : UpTo(k)' = UpTo(k)
  BY UpToSame
<1>2. /\ r \in Roots /\ ReadArchiveLock[r] # None
      /\ \A u \in Threads : u # t /\ pc[u] \in InsidePcs => call[u].root # r
  BY InsideAlone, Nothing
<1>3. /\ tree'[r] = UpTo(n) /\ \A q : q # r => tree'[q] = tree[q]
  BY <1>2 DEF Inv, Shapes
<1>4. \A q \in Roots : tree'[q] = Nil \/ \E k \in 0..Len(archive') : tree'[q] = UpTo(k)'
  BY <1>1, <1>3 DEF Building
<1>5. \A q \in Roots : HasBeenRead(q)' => tree'[q] = UpTo(Len(archive))'
  BY <1>1, <1>2, <1>3 DEF Building, HasBeenRead
<1>6. ASSUME NEW u \in Threads, pc'[u] \in {"open", "register", "append"}
      PROVE  tree'[call'[u].root] = Nil
  <2>1. u # t /\ pc[u] \in InsidePcs /\ pc'[u] = pc[u] /\ call'[u] = call[u]
    BY <1>6 DEF InsidePcs
  <2> QED BY <1>2, <1>3, <1>6, <2>1 DEF Building
<1>7. ASSUME NEW u \in Threads, pc'[u] = "insert"
      PROVE  /\ call'[u].next \in 1..(Len(archive') + 1)
             /\ tree'[call'[u].root] = UpTo(call[u].next - 1)'
  <2>1. CASE u = t
    <3>1. n + 1 \in 1..(Len(archive) + 1) /\ (n + 1) - 1 = n
      OBVIOUS
    <3> QED BY <1>1, <1>3, <2>1, <3>1
  <2>2. CASE u # t
    <3>1. pc[u] = "insert" /\ pc[u] \in InsidePcs /\ pc'[u] = pc[u] /\ call'[u] = call[u]
      BY <1>7, <2>2 DEF InsidePcs
    <3> QED BY <1>1, <1>2, <1>3, <2>2, <3>1 DEF Building
  <2> QED BY <2>1, <2>2
<1> QED BY <1>4, <1>5, <1>6, <1>7 DEF Building

\* The tree becomes visible without a node, and gets those of one member after the other.
LEMMA InsertBuilds ==
  ASSUME DirectoriesFirst(archive), Inv, Building, NEW t \in Threads, AppendCloser(t) \/ Insert(t)
  PROVE  Building'
<1> DEFINE r == call[t].root
<1>0. /\ Shapes /\ call[t] \in Calls /\ Len(archive) \in Nat /\ UpTo(0) = Empty
      /\ DOMAIN archive = 1..Len(archive) /\ archive' = archive
  BY UpToFacts, LenProperties DEF Inv, Shapes, AppendCloser, Insert, DirectoriesFirst
<1>1. CASE AppendCloser(t)
  <2>1. pc[t] \in InsidePcs /\ tree' = [tree EXCEPT ![r] = UpTo(0)] /\ ReadArchiveLock' = ReadArchiveLock
    <3>1. pc[t] = "append" /\ tree' = [tree EXCEPT ![r] = Empty] /\ ReadArchiveLock' = ReadArchiveLock
      BY <1>1 DEF AppendCloser
    <3> QED BY <1>0, <3>1 DEF InsidePcs
  <2>2. 0 \in 0..Len(archive)
    BY <1>0
  <2>3. pc'[t] = "insert" /\ \A u \in Threads : u # t => pc'[u] = pc[u]
    BY <1>0, <1>1, Thread DEF AppendCloser, Goto
  <2>4. call' = [call EXCEPT ![t] = [call[t] EXCEPT !.list = {}, !.next = 1]]
    BY <1>0, <1>1 DEF AppendCloser, Shapes
  <2>5. call'[t].root = r /\ call'[t].next = 0 + 1 /\ \A u \in Threads : u # t => call'[u] = call[u]
    BY <1>0, <2>4 DEF Shapes, Calls
  <2>6. \A u \in Threads : u # t => pc'[u] = pc[u] /\ call'[u] = call[u]
    BY <2>3, <2>5
  <2> QED BY <1>0, <2>1, <2>3, <2>5, <2>2, <2>6, NodeBuilds
<1>2. CASE Insert(t)
  <2> DEFINE m == call[t].next
  <2>1. /\ pc[t] = "insert" /\ pc[t] \in InsidePcs /\ m \in 1..(Len(archive) + 1)
        /\ tree[r] = UpTo(m - 1) /\ r \in Roots
    BY <1>2, InsideAlone DEF Insert, InsidePcs, Building
  <2>2. CASE /\ m <= Len(archive) /\ tree' = [tree EXCEPT ![r] = Inserted(tree[r], m)]
             /\ call' = [call EXCEPT ![t].next = m + 1] /\ UNCHANGED <<pc, ReadArchiveLock>>
    <3>1. m \in DOMAIN archive /\ m \in 0..Len(archive)
      BY <1>0, <2>1, <2>2
    <3>2. tree' = [tree EXCEPT ![r] = UpTo(m)]
      BY <2>1, <2>2, <3>1, InsertedRight
    <3>3. call' = [call EXCEPT ![t] = [call[t] EXCEPT !.next = m + 1]]
      BY <1>0, <2>2 DEF Shapes
    <3>4. call'[t].root = r /\ call'[t].next = m + 1 /\ \A u \in Threads : u # t => call'[u] = call[u]
      BY <1>0, <3>3 DEF Shapes, Calls
    <3>5. pc'[t] = "insert" /\ \A u \in Threads : u # t => pc'[u] = pc[u] /\ call'[u] = call[u]
      BY <2>1, <2>2, <3>4
    <3>6. ReadArchiveLock' = ReadArchiveLock
      BY <2>2
    <3> HIDE DEF r, m
    <3> QED BY <1>0, <2>1, <3>1, <3>2, <3>4, <3>5, <3>6, NodeBuilds DEF r
  <2>3. CASE ~(m <= Len(archive)) /\ Unlocks(t, r) /\ Finish(t) /\ UNCHANGED tree
    <3>1. m - 1 = Len(archive)
      BY <1>0, <2>1, <2>3
    <3>2. \A q \in Roots : q # r => ReadArchiveLock'[q] = ReadArchiveLock[q]
      BY <2>1, <2>3, Unlocked
    <3>3. \A q \in Roots : /\ tree[q] # Nil /\ tree[q] # UpTo(Len(archive))
                           => ReadArchiveLock[q] = None \/ ReadArchiveLock'[q] # None
      BY <2>1, <3>1, <3>2
    <3>4. \A u \in Threads : u # t => pc'[u] = pc[u] /\ call'[u] = call[u]
      BY <1>0, <2>3, Finished
    <3>5. pc'[t] = "idle"
      BY <1>0, <2>3, Finished
    <3> QED BY <1>0, <2>3, <3>3, <3>4, <3>5, TreeSame DEF Building
  <2> QED BY <1>0, <1>2, <2>2, <2>3 DEF Insert, Shapes
<1> QED BY <1>1, <1>2

\* What reads members and unmounts makes no node.
LEMMA OthersBuild ==
  ASSUME Inv, Building,
         \/ Release \/ \E r \in Roots : OpenMember(r)
         \/ \E t \in Threads : TakeTurn(t) \/ ReadMember(t) \/ \E size \in 1..MaxReadSize : Read(t, size)
         \/ \E a \in Actors : UnmountStart(a) \/ UnmountClear(a) \/ UnmountWalk(a)
         \/ UNCHANGED vars
  PROVE  Building'
<1>1. Shapes /\ UNCHANGED <<archive, tree, ReadArchiveLock>>
  BY DEF Inv, Release, OpenMember, TakeTurn, ReadMember, Read, UnmountStart, UnmountClear,
         UnmountWalk, archives, vars
<1>2. \A u \in Threads : pc'[u] \in InsidePcs => pc'[u] = pc[u] /\ call'[u] = call[u]
  <2>1. ASSUME NEW t \in Threads, TakeTurn(t) \/ ReadMember(t) \/ \E size \in 1..MaxReadSize : Read(t, size)
        PROVE  \A u \in Threads : pc'[u] \in InsidePcs => pc'[u] = pc[u] /\ call'[u] = call[u]
    <3>1. PICK p \in {"read", "idle", "wait"} : pc' = [pc EXCEPT ![t] = p]
      BY <2>1 DEF TakeTurn, ReadMember, ReadFull, Read, Finish, Goto
    <3>2. pc'[t] \notin InsidePcs /\ \A u \in Threads : u # t => pc'[u] = pc[u]
      BY <1>1, <3>1, Thread DEF InsidePcs
    <3>3. \A u \in Threads : u # t => call'[u] = call[u]
      BY <1>1, <2>1 DEF TakeTurn, ReadMember, ReadFull, Read, Finish, Shapes
    <3> QED BY <3>2, <3>3
  <2>2. CASE UNCHANGED <<pc, call>>
    BY <2>2
  <2> QED BY <2>1, <2>2 DEF Release, OpenMember, UnmountStart, UnmountClear, UnmountWalk, threads, vars
<1> QED BY <1>1, <1>2, TreeSame DEF Building, InsidePcs

\* Every step keeps the trees right.
LEMMA BuildingStep ==
  ASSUME DirectoriesFirst(archive), Inv, Building, [Next]_vars
  PROVE  Building'
BY LockBuilds, InsertBuilds, OthersBuild DEF Next, Serve

\* At first, nothing has been read.
LEMMA BuildingInit == Listed /\ Init => Bounded /\ Building
<1> SUFFICES ASSUME Listed, Init
             PROVE  Bounded /\ Building
  OBVIOUS
<1>1. Len(archive) \in Nat
  BY UpToFacts DEF Listed, Init
<1>2. Bounded
  <2>1. 0 \in 0..Length /\ 0 \in 0..(Length + MaxReadSize) /\ 0 \in 0..MaxReadSize /\ 0 \in 0..MaxFaults
        /\ 0 \in 0..0 /\ 0 \in 0..(Len(archive) + 1)
    BY <1>1, BoundsAssumption
  <2>2. \A t \in Threads : call[t] = Idle
    BY DEF Init
  <2>3. Idle.next = 0 /\ Idle.offset = 0 /\ Idle.size = 0 /\ NotOpen.stream = 0
    BY DEF Idle, NotOpen
  <2> QED BY <2>1, <2>2, <2>3 DEF Init, Bounded
<1>3. Building
  BY <1>1 DEF Init, Building, HasBeenRead
<1> QED BY <1>2, <1>3

\* The bounds of what one step leaves alone
LEMMA BoundedStep ==
  ASSUME Listed, Inv, Bounded, Building, [Next]_vars
  PROVE  Bounded'
<1>0. Len(archive) \in Nat /\ Length \in Nat /\ MaxReadSize \in Nat /\ MaxFaults \in Nat
  BY UpToFacts, BoundsAssumption DEF Listed, Bounded
<1>1. archive' = archive
  BY DEF Next, Serve, Arrive, Lock, OpenArchive, Register, AppendCloser, Insert, OpenMember, Release, Read,
         TakeTurn, ReadMember, UnmountStart, UnmountClear, UnmountWalk, archives, vars
<1>2. faults' \in 0..MaxFaults /\ (faults' = faults \/ faults' = faults + 1)
  <2>1. UNCHANGED faults \/ Fails
    BY DEF Next, Serve, Arrive, Lock, OpenArchive, Register, AppendCloser, Insert, OpenMember, Release, Read,
         TakeTurn, ReadMember, UnmountStart, UnmountClear, UnmountWalk, ServeReturns, Succeeds, vars
  <2>2. faults \in 0..MaxFaults
    BY DEF Bounded
  <2> QED BY <1>0, <2>1, <2>2 DEF Fails
<1>3. leaked' \in 0..faults'
  <2>1. leaked' = leaked \/ (leaked' = leaked + 1 /\ faults' = faults + 1)
    <3>1. UNCHANGED leaked \/ \E t \in Threads : OpenArchive(t)
      BY DEF Next, Serve, Arrive, Lock, Register, AppendCloser, Insert, OpenMember, Release, Read,
             TakeTurn, ReadMember, UnmountStart, UnmountClear, UnmountWalk, archives, vars
    <3> QED BY <3>1 DEF OpenArchive, Fails
  <2>2. faults \in 0..MaxFaults /\ leaked \in 0..faults
    BY DEF Bounded
  <2> QED BY <1>0, <1>2, <2>1, <2>2
<1>4. Mounted' \in BOOLEAN /\ exited' \in BOOLEAN /\ troubled' \in BOOLEAN
  <2>1. UNCHANGED mount \/ \E a \in Actors : UnmountStart(a) \/ UnmountClear(a) \/ UnmountWalk(a)
    BY DEF Next, Serve, Arrive, Lock, OpenArchive, Register, AppendCloser, Insert, OpenMember, Release, Read,
           TakeTurn, ReadMember, vars
  <2>2. Mounted' \in BOOLEAN /\ exited' \in BOOLEAN
    BY <2>1 DEF Bounded, UnmountStart, UnmountClear, UnmountWalk, mount
  <2>3. UNCHANGED troubled \/ troubled' \in BOOLEAN
    BY DEF Next, Serve, Arrive, Lock, OpenArchive, Register, AppendCloser, Insert, OpenMember, Release, Read,
           TakeTurn, ReadMember, UnmountStart, UnmountClear, UnmountWalk, member, vars
  <2> QED BY <2>2, <2>3 DEF Bounded
<1>5. closeOnUnmountLock' \in Threads \cup {None}
  BY DEF Bounded, Next, Serve, Arrive, Lock, OpenArchive, Register, AppendCloser, Insert, OpenMember, Release, Read,
         TakeTurn, ReadMember, UnmountStart, UnmountClear, UnmountWalk, closers, vars
<1>6. handle'.stream \in 0..Length /\ sent' \in 0..(Length + MaxReadSize)
  <2>0. handle \in Handles /\ handle.stream \in 0..Length /\ sent \in 0..(Length + MaxReadSize)
    BY DEF Inv, Shapes, Bounded
  <2>1. CASE Release \/ \E r \in Roots : OpenMember(r)
    <3>1. handle' = NotOpen \/ \E r \in Roots : handle' = [handle EXCEPT !.root = r]
      BY <2>1 DEF Release, OpenMember
    <3>2. handle'.stream \in {0, handle.stream} /\ sent' = 0
      BY <2>0, <2>1, <3>1 DEF Release, OpenMember, NotOpen, Handles
    <3> QED BY <1>0, <2>0, <3>2
  <2>2. ASSUME NEW t \in Threads, NEW size \in 1..MaxReadSize, Read(t, size)
        PROVE  handle' = handle /\ sent' \in 0..(Length + MaxReadSize)
    <3>1. handle' = handle /\ sent < Length /\ sent' = sent + size
      BY <2>2 DEF Read
    <3> QED BY <1>0, <2>0, <3>1
  <2>3. ASSUME NEW t \in Threads, TakeTurn(t)
        PROVE  handle'.stream = handle.stream /\ sent' = sent
    BY <2>0, <2>3 DEF TakeTurn, Handles
  <2>4. ASSUME NEW t \in Threads, ReadMember(t)
        PROVE  handle'.stream \in 0..Length /\ sent' = sent
    <3> DEFINE left == Length - handle.stream
               full == IF call[t].size <= left THEN call[t].size ELSE left
    <3>1. call[t].size \in 0..MaxReadSize
      BY DEF Bounded
    <3>2. full \in 0..left /\ left \in Nat
      BY <1>0, <2>0, <3>1
    <3>3. sent' = sent /\ (ReadFull(t, full) \/ \E nr \in 0..full : ReadFull(t, nr))
      BY <2>4 DEF ReadMember, member
    <3>4. PICK nr \in 0..full : ReadFull(t, nr)
      BY <3>2, <3>3
    <3> HIDE DEF full
    <3>5. handle'.stream = handle.stream + nr
      BY <2>0, <3>4 DEF ReadFull, Handles
    <3>6. handle.stream + nr \in 0..Length
      BY <1>0, <2>0, <3>2
    <3> QED BY <3>3, <3>5, <3>6
  <2>5. \/ Release \/ \E r \in Roots : OpenMember(r)
        \/ \E t \in Threads, size \in 1..MaxReadSize : Read(t, size)
        \/ \E t \in Threads : TakeTurn(t) \/ ReadMember(t)
        \/ UNCHANGED <<handle, sent>>
    BY DEF Next, Serve, Arrive, Lock, OpenArchive, Register, AppendCloser, Insert, UnmountStart, UnmountClear,
           UnmountWalk, member, vars
  <2> QED BY <2>0, <2>1, <2>2, <2>3, <2>4, <2>5
<1>7. \A u \in Threads : /\ call'[u].next \in 0..(Len(archive) + 1)
                         /\ call'[u].offset \in 0..(Length + MaxReadSize)
                         /\ call'[u].size \in 0..MaxReadSize
  <2> DEFINE Fits(c) == /\ c.next \in 0..(Len(archive) + 1) /\ c.offset \in 0..(Length + MaxReadSize)
                        /\ c.size \in 0..MaxReadSize
  <2>0. \A u \in Threads : Fits(call[u]) /\ call[u] \in Calls
    BY DEF Bounded, Inv, Shapes
  <2>1. Fits(Idle)
    BY <1>0 DEF Idle
  <2>2. ASSUME NEW t \in Threads, NEW r \in Roots, Arrive(t, r)
        PROVE  call' = [call EXCEPT ![t] = [call[t] EXCEPT !.root = r]] /\ Fits([call[t] EXCEPT !.root = r])
    BY <2>0, <2>2 DEF Arrive, Calls, Inv, Shapes
  <2>3. ASSUME NEW t \in Threads, Register(t)
        PROVE  LET c == [call[t] EXCEPT !.list = closeOnUnmount] IN call' = [call EXCEPT ![t] = c] /\ Fits(c)
    BY <2>0, <2>3 DEF Register, Calls, Inv, Shapes
  <2>4. ASSUME NEW t \in Threads, AppendCloser(t)
        PROVE  LET c == [call[t] EXCEPT !.list = {}, !.next = 1] IN call' = [call EXCEPT ![t] = c] /\ Fits(c)
    <3>1. 1 \in 0..(Len(archive) + 1)
      BY <1>0
    <3> QED BY <2>0, <2>4, <3>1 DEF AppendCloser, Calls, Inv, Shapes
  <2>5. ASSUME NEW t \in Threads, Insert(t), call' # [call EXCEPT ![t] = Idle]
        PROVE  LET c == [call[t] EXCEPT !.next = call[t].next + 1] IN call' = [call EXCEPT ![t] = c] /\ Fits(c)
    <3>1. call[t].next \in 0..(Len(archive) + 1) /\ call[t].next <= Len(archive)
      BY <2>0, <2>5 DEF Insert, Finish
    <3>2. call[t].next + 1 \in 0..(Len(archive) + 1)
      BY <1>0, <3>1
    <3> QED BY <2>0, <2>5, <3>2 DEF Insert, Finish, Calls, Inv, Shapes
  <2>6. ASSUME NEW t \in Threads, NEW size \in 1..MaxReadSize, Read(t, size)
        PROVE  LET c == [call[t] EXCEPT !.offset = sent, !.size = size] IN call' = [call EXCEPT ![t] = c] /\ Fits(c)
    <3>1. size \in 0..MaxReadSize /\ sent \in 0..(Length + MaxReadSize)
      BY <1>0 DEF Bounded
    <3> QED BY <2>0, <2>6, <3>1 DEF Read, Calls, Inv, Shapes
  <2>7. \/ UNCHANGED call
        \/ \E t \in Threads : \/ call' = [call EXCEPT ![t] = Idle]
                              \/ Register(t) \/ AppendCloser(t) \/ Insert(t)
                              \/ \E r \in Roots : Arrive(t, r)
                              \/ \E size \in 1..MaxReadSize : Read(t, size)
    BY DEF Next, Serve, Lock, OpenArchive, OpenMember, Release, TakeTurn, ReadMember, ReadFull, Finish,
           UnmountStart, UnmountClear, UnmountWalk, threads, vars
  <2> HIDE DEF Fits
  <2>8. UNCHANGED call \/ \E t \in Threads : \E c : call' = [call EXCEPT ![t] = c] /\ Fits(c)
    BY <2>1, <2>2, <2>3, <2>4, <2>5, <2>6, <2>7
  <2>9. \A u \in Threads : Fits(call'[u])
    BY <2>0, <2>8 DEF Inv, Shapes
  <2> QED BY <2>9 DEF Fits
<1> QED BY <1>1, <1>2, <1>3, <1>4, <1>5, <1>6, <1>7 DEF Bounded

Right == Inv /\ Bounded /\ Building

\* At first all of it holds ...
LEMMA RightInit == Listed /\ Init => Right
BY InvInit, BuildingInit DEF Right

\* ... and every step keeps it.
LEMMA RightStep == Listed /\ Right /\ [Next]_vars => Right'
<1> SUFFICES ASSUME Listed, Right, [Next]_vars
             PROVE  Right'
  OBVIOUS
<1>1. DirectoriesFirst(archive)
  BY DEF Listed, Right, Bounded
<1> QED BY <1>1, Step, BoundedStep, BuildingStep DEF Right

-----------------------------------------------------------------------------
(* The abstract directory *)

\* What the first n members show
Shown(n) == {[path |-> p, member |-> 0] : p \in UpTo(n).SubDirs} \cup UpTo(n).Files

\* The first members are a tree, and what it shows is each member once.
LEMMA ShownFacts ==
  ASSUME Listed, archive \in Archives
  PROVE  /\ \A n \in 0..Len(archive) : UpTo(n) # Nil /\ Entries(UpTo(n)) = Shown(n)
         /\ Entries(Empty) = {} /\ Entries(Nil) = {} /\ Entries(Contents) = Shown(Len(archive))
<1>1. DirectoriesFirst(archive) /\ Len(archive) \in Nat
  BY UpToFacts DEF Listed
<1>2. ASSUME NEW n \in 0..Len(archive)
      PROVE  UpTo(n) # Nil /\ Entries(UpTo(n)) = Shown(n)
  <2>1. UpTo(n).SubDirs \in SUBSET PathsIn(archive)
    BY <1>1, UpToFacts, DirsPaths DEF Paths
  <2>2. UpTo(n).SubDirs # None
    BY <2>1, NilAssumption
  <2> QED BY <2>2 DEF Nil, Entries, Shown
<1>3. Len(archive) \in 0..Len(archive) /\ UpTo(Len(archive)) = Contents
  BY <1>1, UpToFacts
<1> QED BY <1>2, <1>3 DEF Entries, Empty

\* Each member is one file or directory more.
LEMMA ShownNext ==
  ASSUME DirectoriesFirst(archive), NEW m \in DOMAIN archive
  PROVE  \E e \in Shown(Len(archive)) \ Shown(m - 1) : Shown(m) = Shown(m - 1) \cup {e}
<1> DEFINE old == UpTo(m - 1)
           dir(p) == [path |-> p, member |-> 0]
           e == IF IsDirectory(archive[m]) THEN dir(Front(archive[m])) ELSE File(archive[m], m)
<1>1. /\ m \in Nat /\ m >= 1 /\ m <= Len(archive) /\ Len(archive) \in Nat /\ m \in 0..Len(archive)
  BY Names
<1>2. UpTo(m) = IF IsDirectory(archive[m])
                THEN [SubDirs |-> old.SubDirs \cup {Front(archive[m])}, Files |-> old.Files]
                ELSE [SubDirs |-> old.SubDirs, Files |-> old.Files \cup {File(archive[m], m)}]
  BY <1>1, UpToNext
<1>3. Shown(m) = Shown(m - 1) \cup {e}
  <2> HIDE DEF old
  <2>1. Shown(m - 1) = {dir(p) : p \in old.SubDirs} \cup old.Files
    BY DEF Shown, old
  <2>2. CASE IsDirectory(archive[m])
    BY <1>2, <2>1, <2>2 DEF Shown
  <2>3. CASE ~IsDirectory(archive[m])
    BY <1>2, <2>1, <2>3 DEF Shown
  <2> QED BY <2>2, <2>3
<1>4. /\ PathOf(archive[m]) \notin old.SubDirs
      /\ \A f \in old.Files : f.path # PathOf(archive[m])
  BY Parents
<1>5. e.path = PathOf(archive[m]) /\ (~IsDirectory(archive[m]) => e.member # 0)
  BY <1>1 DEF File, PathOf
<1>6. e \notin Shown(m - 1)
  <2>1. e \notin old.Files
    BY <1>4, <1>5
  <2>2. \A p \in old.SubDirs : e # dir(p)
    BY <1>4, <1>5
  <2> QED BY <2>1, <2>2 DEF Shown
<1>7. Shown(m) \subseteq Shown(Len(archive))
  <2>1. UpTo(m).SubDirs \subseteq UpTo(Len(archive)).SubDirs /\ UpTo(m).Files \subseteq UpTo(Len(archive)).Files
    BY <1>1, UpToFacts
  <2> QED BY <2>1 DEF Shown
<1> HIDE DEF e
<1> QED BY <1>3, <1>6, <1>7

\* A step that changes neither what is found nor whether it is all
LEMMA SameDirectory ==
  ASSUME archive' = archive, \A r \in Roots : /\ Entries(tree[r])' = Entries(tree[r])
                                              /\ HasBeenRead(r)' = HasBeenRead(r)
  PROVE  UNCHANGED Directory!vars
<1>1. Contents' = Contents
  BY DEF Contents
<1>2. Entries(Contents)' = Entries(Contents)
  BY <1>1 DEF Entries
<1>3. [r \in Roots |-> Entries(tree[r])]' = [r \in Roots |-> Entries(tree[r])]
  OBVIOUS
<1>4. [r \in Roots |-> HasBeenRead(r)]' = [r \in Roots |-> HasBeenRead(r)]
  OBVIOUS
<1> QED BY <1>2, <1>3, <1>4 DEF Directory!vars

\* The goroutine that reads an archive makes nodes, one of them at each step.
LEMMA NodeShown ==
  ASSUME Listed, Right, NEW t \in Threads, AppendCloser(t) \/ Insert(t)
  PROVE  [Directory!Next]_(Directory!vars)
<1> DEFINE r == call[t].root
<1>0. /\ Shapes /\ archive \in Archives /\ DirectoriesFirst(archive) /\ Len(archive) \in Nat
      /\ DOMAIN archive = 1..Len(archive) /\ archive' = archive /\ Contents' = Contents
  <2>1. archive' = archive
    BY DEF AppendCloser, Insert
  <2>2. Shapes /\ archive \in Archives
    BY DEF Right, Bounded, Inv
  <2>3. DirectoriesFirst(archive)
    BY <2>2 DEF Listed
  <2>4. archive \in Seq(Seq(STRING))
    BY <2>3 DEF DirectoriesFirst
  <2>5. Contents' = Contents
    BY <2>1 DEF Contents
  <2> QED BY <2>1, <2>2, <2>3, <2>4, <2>5, LenProperties
<1>1. /\ pc[t] \in InsidePcs /\ r \in Roots /\ ReadArchiveLock[r] = t /\ ReadArchiveLock[r] # None
      /\ ~HasBeenRead(r)
  BY InsideAlone, Nothing DEF AppendCloser, Insert, InsidePcs, Right
<1> DEFINE shown == [q \in Roots |-> Entries(tree[q])]
           complete == [q \in Roots |-> HasBeenRead(q)]
<1>2. Entries(Contents)' = Entries(Contents)
  BY <1>0 DEF Entries
<1>3. CASE AppendCloser(t)
  <2>1. tree[r] = Nil /\ tree' = [tree EXCEPT ![r] = Empty] /\ ReadArchiveLock' = ReadArchiveLock
    BY <1>3 DEF AppendCloser, Right, Building
  <2>2. tree'[r] = Empty /\ \A q \in Roots : q # r => tree'[q] = tree[q]
    BY <1>0, <1>1, <2>1 DEF Shapes
  <2>3. Entries(Empty) = Entries(Nil)
    BY <1>0, ShownFacts
  <2>4. \A q \in Roots : Entries(tree'[q]) = Entries(tree[q])
    BY <2>1, <2>2, <2>3
  <2>5. \A q \in Roots : HasBeenRead(q)' = HasBeenRead(q)
    BY <1>1, <2>1, <2>2 DEF HasBeenRead
  <2>6. UNCHANGED Directory!vars
    BY <1>0, <2>4, <2>5, SameDirectory
  <2> QED BY <2>6
<1>4. CASE Insert(t)
  <2> DEFINE m == call[t].next
  <2>1. m \in 1..(Len(archive) + 1) /\ tree[r] = UpTo(m - 1)
    BY <1>4 DEF Insert, Right, Building
  <2>2. CASE m <= Len(archive) /\ tree' = [tree EXCEPT ![r] = Inserted(tree[r], m)] /\ UNCHANGED ReadArchiveLock
    <3>1. m \in DOMAIN archive /\ m \in 0..Len(archive) /\ m - 1 \in 0..Len(archive)
      BY <1>0, <2>1, <2>2
    <3>2. tree'[r] = UpTo(m) /\ \A q \in Roots : q # r => tree'[q] = tree[q]
      BY <1>0, <1>1, <2>1, <2>2, <3>1, InsertedRight DEF Shapes
    <3>3. PICK e \in Shown(Len(archive)) \ Shown(m - 1) : Shown(m) = Shown(m - 1) \cup {e}
      BY <1>0, <3>1, ShownNext
    <3>4. /\ Entries(tree[r]) = Shown(m - 1) /\ Entries(tree'[r]) = Shown(m)
          /\ Entries(Contents) = Shown(Len(archive))
      BY <1>0, <2>1, <3>1, <3>2, ShownFacts
    <3>5. \A q \in Roots : HasBeenRead(q)' = HasBeenRead(q)
      BY <1>1, <2>2, <3>2 DEF HasBeenRead
    <3> HIDE DEF r, m
    <3>6. e \in Entries(Contents) \ shown[r]
      BY <1>1, <3>3, <3>4
    <3>7. [q \in Roots |-> Entries(tree'[q])] = [shown EXCEPT ![r] = @ \cup {e}]
      BY <1>1, <3>2, <3>3, <3>4
    <3>8. [q \in Roots |-> HasBeenRead(q)'] = complete /\ ~complete[r]
      BY <1>1, <3>5
    <3>9. Directory!Reveal(r)
      BY <1>2, <3>6, <3>7, <3>8 DEF Directory!Reveal
    <3> QED BY <1>1, <3>9 DEF Directory!Next
  <2>3. CASE ~(m <= Len(archive)) /\ Unlocks(t, r) /\ UNCHANGED tree
    <3>1. m - 1 = Len(archive) /\ Len(archive) \in 0..Len(archive)
      BY <1>0, <2>1, <2>3
    <3>2. tree[r] # Nil /\ Entries(tree[r]) = Entries(Contents)
      BY <1>0, <2>1, <3>1, ShownFacts
    <3>3. /\ ReadArchiveLock'[r] = None
          /\ \A q \in Roots : q # r => ReadArchiveLock'[q] = ReadArchiveLock[q]
      BY <1>0, <1>1, <2>3 DEF Unlocks, Shapes
    <3> HIDE DEF r, m
    <3>4. \A q \in Roots : HasBeenRead(q)' = IF q = r THEN TRUE ELSE HasBeenRead(q)
      BY <2>3, <3>2, <3>3 DEF HasBeenRead
    <3>5. shown[r] = Entries(Contents) /\ [q \in Roots |-> Entries(tree'[q])] = shown
      BY <1>1, <2>3, <3>2
    <3>6. [q \in Roots |-> HasBeenRead(q)'] = [complete EXCEPT ![r] = TRUE] /\ ~complete[r]
      BY <1>1, <3>4
    <3>7. Directory!Complete(r)
      BY <1>2, <3>5, <3>6 DEF Directory!Complete
    <3> QED BY <1>1, <3>7 DEF Directory!Next
  <2> QED BY <1>4, <2>2, <2>3 DEF Insert
<1> QED BY <1>3, <1>4

\* No other step makes a node, or ends the reading of an archive that had begun.
LEMMA DirectoryStep == Listed /\ Right /\ [Next]_vars => [Directory!Next]_(Directory!vars)
<1> SUFFICES ASSUME Listed, Right, [Next]_vars
             PROVE  [Directory!Next]_(Directory!vars)
  OBVIOUS
<1>1. ASSUME UNCHANGED <<archive, tree>>,
             \A r \in Roots : ReadArchiveLock'[r] = ReadArchiveLock[r] \/ tree[r] = Nil
      PROVE  UNCHANGED Directory!vars
  <2>1. \A r \in Roots : HasBeenRead(r)' = HasBeenRead(r)
    BY <1>1 DEF HasBeenRead
  <2> QED BY <1>1, <2>1, SameDirectory
<1>2. ASSUME NEW t \in Threads, Lock(t) \/ OpenArchive(t)
      PROVE  UNCHANGED Directory!vars
  <2>1. UNCHANGED <<archive, tree>> /\ call[t].root \in Roots /\ Shapes /\ tree[call[t].root] = tree[call[t].root]
    BY <1>2 DEF Lock, OpenArchive, Right, Inv, Locking, InsidePcs
  <2>2. ReadArchiveLock' = ReadArchiveLock \/ (tree[call[t].root] = Nil /\ \E u : ReadArchiveLock' = [ReadArchiveLock EXCEPT ![call[t].root] = u])
    BY <1>2 DEF Lock, OpenArchive, Unlocks, ReadMeanwhile, Right, Building
  <2>3. \A r \in Roots : ReadArchiveLock'[r] = ReadArchiveLock[r] \/ tree[r] = Nil
    BY <2>1, <2>2 DEF Shapes
  <2> QED BY <1>1, <2>1, <2>3
<1>3. \/ UNCHANGED <<archive, tree, ReadArchiveLock>>
      \/ \E t \in Threads : Lock(t) \/ OpenArchive(t) \/ AppendCloser(t) \/ Insert(t)
  BY DEF Next, Serve, Arrive, Register, OpenMember, Release, Read, TakeTurn, ReadMember, UnmountStart,
         UnmountClear, UnmountWalk, archives, vars
<1> QED BY <1>1, <1>2, <1>3, NodeShown

-----------------------------------------------------------------------------
(* The theorems *)

\* The reader of an archive that has been read is known to Unmount, and is not
\* closed while the file system is mounted (FileSystem.go:82-101, :126-130).
THEOREM ReadersRegistered == Spec => []ReadersKnown
<1>1. Inv => ReadersKnown
  BY DEF Inv
<1> QED BY <1>1, InvInit, Step, PTL DEF Spec

\* A goroutine that reads a member finds the stream at the offset it was asked
\* for (ZipFileHandle.go:38-64).
THEOREM MembersReadInOrder == Spec => []MemberInOrder
<1>1. Inv => MemberInOrder
  BY DEF Inv, Turns, MemberInOrder
<1> QED BY <1>1, InvInit, Step, PTL DEF Spec

\* However many goroutines find an archive unread, it is read once
\* (ZipDir.go:42-57).
THEOREM ArchiveReadOnce == Spec => ReadOnce
<1>1. Inv /\ [Next]_vars
      => [\A r \in Roots : HasBeenRead(r) => HasBeenRead(r)' /\ tree'[r] = tree[r]]_vars
  BY Step DEF Once
<1> QED BY <1>1, InvInit, Step, PTL DEF Spec, ReadOnce

\* The variables stay in their types, and a reader leaks only by a failure: the
\* nodes are those of names in the archive, the stream stays in the member, and the
\* goroutine that reads the archive never goes past its end (ZipDir.go:42-124,
\* ZipFileHandle.go:38-64).
THEOREM TypeCorrect ==
  ASSUME Listed
  PROVE  Spec => []TypeOK
<1>1. Right => TypeOK
  <2> SUFFICES ASSUME Right
               PROVE  TypeOK
    OBVIOUS
  <2>1. Shapes /\ Bounded /\ Turns
    BY DEF Right, Inv
  <2>2. \A r \in Roots : tree[r] # Nil => /\ tree[r].SubDirs \subseteq Paths
                                          /\ \A f \in tree[r].Files : f.member \in DOMAIN archive
    BY UpToFacts, DirsPaths DEF Listed, Right, Bounded, Building
  <2>3. handle \in [root : Roots \cup {None}, offset : 0..Length, stream : 0..Length, lock : Threads \cup {None}]
    BY <2>1 DEF Shapes, Handles, Bounded, Turns
  <2>4. call \in [Threads -> [root : Roots \cup {None}, next : 0..(Len(archive) + 1), list : SUBSET Roots,
                              offset : 0..(Length + MaxReadSize), size : 0..MaxReadSize]]
    <3>1. ASSUME NEW t \in Threads
          PROVE  call[t] \in [root : Roots \cup {None}, next : 0..(Len(archive) + 1), list : SUBSET Roots,
                              offset : 0..(Length + MaxReadSize), size : 0..MaxReadSize]
      BY <2>1 DEF Shapes, Calls, Bounded
    <3> QED BY <2>1, <3>1 DEF Shapes
  <2> QED BY <2>1, <2>2, <2>3, <2>4 DEF TypeOK, Shapes, Bounded
<1> QED BY <1>1, RightInit, RightStep, PTL DEF Spec

\* A request finds, at any time, only files and directories that the archive has, in
\* their places, and all of them when it has been read (ZipDir.go:81-124), whatever
\* archive it is of those that list directories before what is in them.
THEOREM TreesRight ==
  ASSUME Listed
  PROVE  Spec => []TreeRight
<1>1. Right => TreeRight
  <2> SUFFICES ASSUME Right, NEW r \in Roots, tree[r] # Nil
               PROVE  /\ tree[r].SubDirs \subseteq Contents.SubDirs /\ tree[r].Files \subseteq Contents.Files
                      /\ HasBeenRead(r) => tree[r] = Contents
    BY DEF TreeRight
  <2>1. DirectoriesFirst(archive) /\ Building
    BY DEF Listed, Right, Bounded
  <2> QED BY <2>1, UpToFacts DEF Building
<1> QED BY <1>1, RightInit, RightStep, PTL DEF Spec

\* The tree of an archive implements the abstract directory: it grows by one member at
\* a time, loses and replaces nothing, has all members when the lock is given back and
\* is immutable from then on (ZipDir.go:41-43, :78-127).
THEOREM TreeIsDirectory ==
  ASSUME Listed
  PROVE  Spec => ImplementsArchiveDirectory
<1>1. Init => Directory!Init
  <2> SUFFICES ASSUME Init
               PROVE  Directory!Init
    OBVIOUS
  <2>1. \A r \in Roots : tree[r] = Nil /\ ~HasBeenRead(r)
    BY DEF Init, HasBeenRead
  <2>2. \A r \in Roots : Entries(tree[r]) = {} /\ HasBeenRead(r) = FALSE
    BY <2>1 DEF Entries
  <2> QED BY <2>2 DEF Directory!Init
<1> QED BY <1>1, RightInit, RightStep, DirectoryStep, PTL
        DEF Spec, ImplementsArchiveDirectory, Directory!Spec
=============================================================================
