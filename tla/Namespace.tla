----------------------------- MODULE Namespace -----------------------------
(***************************************************************************)
(* Directories (Dir.go): the requests that look names up, list, make,      *)
(* create, remove and rename, each of which changes HDFS first and the     *)
(* nodes cached in Dir.Entries afterwards.  The path of a node is made of  *)
(* its Parent and its name, so the nodes decide which HDFS paths later     *)
(* requests work on.                                                       *)
(*                                                                         *)
(* The directories in Dirs stay where they are; what is made, removed and  *)
(* renamed are the files and directories in them, which the properties do  *)
(* not tell apart ("file" below is either).  Operations on HDFS are  *)
(* retried (FaultTolerantHdfsAccessor.go), and an attempt that fails may   *)
(* have taken effect.  Attr, which may change a name too, is in NodeAttrs. *)
(***************************************************************************)
EXTENDS Naturals, Functions

CONSTANTS Threads,     \* goroutines that serve FUSE requests
          Dirs,        \* Dir nodes
          Names,
          Paths,       \* the paths used: <<directory, name>>
          Nodes,       \* File and Dir nodes; one that nothing refers to is used again
          Allowed,     \* the paths that FileSystem.IsPathAllowed lets through
          MaxAttempts, \* RetryPolicy.MaxAttempts
          MaxFaults,   \* bound on failures of HDFS and changes by its other clients
          None         \* nil

ASSUME BoundsAssumption  == MaxAttempts \in Nat \ {0} /\ MaxFaults \in Nat
ASSUME PathsAssumption   == Allowed \subseteq Paths /\ Paths \subseteq Dirs \X Names
ASSUME NoneAssumption    == None \notin Nodes \cup Dirs \cup Names \cup Paths

VARIABLES
  hdfs,     \* the paths at which HDFS has a file or a directory
  faults,   \* failures so far
  node,     \* the nodes: Parent and Attrs.Name
  Entries,  \* the node that its directory has cached for each path
  opened,   \* the node that a process has open, or None
  pc, call, \* the step each goroutine is at, and the request it serves
  (* History, read by the properties only: *)
  at,       \* the path at which the file of each node is now, if it still is
  doubted,  \* paths that others changed, or that a request changed, or tried to
            \* create, and was answered with an error
  moved     \* nodes renamed into another directory

threads == <<pc, call>>
vars    == <<hdfs, faults, node, Entries, opened, threads, at, doubted, moved>>

-----------------------------------------------------------------------------
Unused == [Parent |-> None, Name |-> None]
Node(p) == [Parent |-> p[1], Name |-> p[2]]

\* File.AbsolutePath, Dir.AbsolutePath
AbsolutePath(x) == <<node[x].Parent, node[x].Name>>

\* A request: its paths, the node Create made, the answer of HDFS to Lookup or
\* ReadDirAll, the attempt, and (history) how often HDFS has performed it.
Request(op, p, q) == [op |-> op, path |-> p, to |-> q, node |-> None,
                      reply |-> {}, attempt |-> 1, effects |-> 0]
NoPath == <<None, None>>
Idle == Request("none", NoPath, NoPath)

Init ==
  /\ hdfs \in SUBSET Paths /\ faults = 0
  /\ node = [x \in Nodes |-> Unused]
  /\ Entries = [p \in Paths |-> None]
  /\ opened = None
  /\ pc = [t \in Threads |-> "idle"] /\ call = [t \in Threads |-> Idle]
  /\ at = [x \in Nodes |-> None] /\ doubted = {} /\ moved = {}

-----------------------------------------------------------------------------
Goto(t, p) == pc' = [pc EXCEPT ![t] = p]
Finish(t)  == Goto(t, "idle") /\ call' = [call EXCEPT ![t] = Idle]
Succeeds   == UNCHANGED faults
Fails      == faults < MaxFaults /\ faults' = faults + 1

Referenced == Nodes \cap ({opened} \cup {Entries[p] : p \in Paths} \cup {call[t].node : t \in Threads})

\* The nodes after a step; what nothing refers to any more is garbage.  To be
\* the last conjunct of an action.
NodesAndMoves(nodes, places, moves) ==
  LET kept == Referenced' IN
  /\ node' = [x \in Nodes |-> IF x \in kept THEN nodes[x] ELSE Unused]
  /\ at' = [x \in Nodes |-> IF x \in kept THEN places[x] ELSE None]
  /\ moved' = moves \cap kept
NodesAre(nodes, places) == NodesAndMoves(nodes, places, moved)

\* New nodes for some paths: any that nothing refers to once they are cached.
FreeNodes(paths) == {x \in Nodes : /\ x # opened
                                   /\ \A p \in Paths \ paths : x # Entries[p]
                                   /\ \A t \in Threads : x # call[t].node}
Allocations(paths) == Injection(paths, FreeNodes(paths))
Unmoved(f) == moved \ Range(f)

\* Dir.NodeFromAttrs makes the node f[p] for each path p in DOMAIN f.
Cached(f) == [p \in Paths |-> IF p \in DOMAIN f THEN f[p] ELSE Entries[p]]
WithNodes(f) == [x \in Nodes |-> IF x \in Range(f) THEN Node(AntiFunction(f)[x]) ELSE node[x]]
Placed(f) == [x \in Nodes |-> IF x \notin Range(f) THEN at[x]
                              ELSE IF AntiFunction(f)[x] \in hdfs THEN AntiFunction(f)[x] ELSE None]

-----------------------------------------------------------------------------
(* The kernel: it serializes the requests that change a directory with all     *)
(* others for that directory.  It looks a name up before it asks for its       *)
(* removal or renaming, or, if it is not there, for its making.                *)

DirsOf(c) == {c.path[1], c.to[1]} \ {None}
Shared(op) == op \in {"lookup", "list"}

Admissible(t, c) ==
  /\ pc[t] = "idle"
  /\ \A u \in Threads : DirsOf(call[u]) \cap DirsOf(c) = {} \/ (Shared(c.op) /\ Shared(call[u].op))

Accept(t, c, p) == Admissible(t, c) /\ Goto(t, p) /\ call' = [call EXCEPT ![t] = c]

\* A request that changes p is under way.
PathsOf(c) == {c.path, c.to} \cap Paths
Changing(p) == \E t \in Threads : ~Shared(call[t].op) /\ p \in PathsOf(call[t])

\* A process opens a file it has looked up, or closes it.
Open(p) ==
  /\ ~Changing(p) /\ Entries[p] # None
  /\ opened' = Entries[p]
  /\ UNCHANGED <<hdfs, faults, Entries, threads, doubted>>
  /\ NodesAre(node, at)

Close ==
  /\ opened # None /\ opened' = None
  /\ UNCHANGED <<hdfs, faults, Entries, threads, doubted>>
  /\ NodesAre(node, at)

\* The file at p is gone; that at p is now at q, and that at q is gone.
Vanished(p)   == [x \in Nodes |-> IF at[x] = p THEN None ELSE at[x]]
Shifted(p, q) == [x \in Nodes |-> IF at[x] = p THEN q ELSE IF at[x] = q THEN None ELSE at[x]]

\* Another client of HDFS makes or removes a file.
Remote(p) ==
  /\ Fails
  /\ hdfs' = IF p \in hdfs THEN hdfs \ {p} ELSE hdfs \cup {p}
  /\ doubted' = doubted \cup {p}
  /\ UNCHANGED <<Entries, opened, threads>>
  /\ NodesAre(node, Vanished(p))

-----------------------------------------------------------------------------
(* A request arrives *)

\* Lookup (of a cached node it changes nothing), ReadDirAll, and the requests
\* that change something.
Arrive(t) ==
  /\ \/ \E p \in Allowed : Entries[p] = None /\ Accept(t, Request("lookup", p, NoPath), "query")
     \/ \E d \in Dirs : Accept(t, Request("list", <<d, None>>, NoPath), "query")
     \/ \E p \in Paths : Entries[p] = None /\ Accept(t, Request("mkdir", p, NoPath), "perform")
     \/ \E p \in Paths : Entries[p] # None /\ Accept(t, Request("remove", p, NoPath), "perform")
     \/ \E p, q \in Paths : /\ Entries[p] # None /\ p # q
                            /\ Accept(t, Request("rename", p, q), "perform")
  /\ UNCHANGED <<hdfs, faults, node, Entries, opened, at, doubted, moved>>

\* Dir.Create first makes the node.
Create(t, p) ==
  /\ Entries[p] = None
  /\ \E f \in Allocations({p}) :
       /\ Accept(t, [Request("create", p, NoPath) EXCEPT !.node = f[p]], "createRemove")
       /\ Entries' = Cached(f)
       /\ UNCHANGED <<hdfs, faults, opened, doubted>>
       /\ NodesAndMoves(WithNodes(f), at, Unmoved(f))

-----------------------------------------------------------------------------
(* HdfsAccessor: an operation is performed, and tried again if it fails *)

ShouldRetry(attempt) == attempt < MaxAttempts

\* Mutant: a failed attempt is counted twice.
AgainTwice(c) == [c EXCEPT !.attempt = @ + 2]

Again(c) == [c EXCEPT !.attempt = @ + 1]
Effected(c, n) == [c EXCEPT !.effects = @ + n]

\* HDFS may perform the operation (a file that is in the way of a rename is
\* overwritten if it is of the same kind), or refuse to; the tree afterwards, and
\* where the files of the nodes are.
Possible(c) == IF c.op = "mkdir" THEN c.path \notin hdfs ELSE c.path \in hdfs
Refusable(c) == ~Possible(c) \/ (c.op = "rename" /\ c.to \in hdfs)
TreeAfter(c) ==
  CASE c.op = "mkdir"  -> hdfs \cup {c.path}
    [] c.op = "remove" -> hdfs \ {c.path}
    [] c.op = "rename" -> (hdfs \ {c.path}) \cup {c.to}
FilesAfter(c) ==
  CASE c.op = "mkdir"  -> at
    [] c.op = "remove" -> Vanished(c.path)
    [] c.op = "rename" -> Shifted(c.path, c.to)

\* HDFS performs the operation n times (0 or 1).
Performed(c, n) ==
  /\ hdfs' = IF n = 1 THEN TreeAfter(c) ELSE hdfs
  /\ NodesAre(node, IF n = 1 THEN FilesAfter(c) ELSE at)

\* Mutant: a benign error is a success.
SucceededOrBenign(err) == err \in {"none", "benign"}

\* Dir.Mkdir, Remove and Rename change the nodes only if there was no error.
Succeeded(err) == err = "none"

\* The request is answered with an error, or goes on to change the nodes.
Returns(t, err, c) ==
  IF Succeeded(err)
  THEN /\ Goto(t, "update") /\ call' = [call EXCEPT ![t] = c]
       /\ doubted' = (doubted \ PathsOf(c)) \cup (IF c.path \in doubted THEN {c.to} \cap Paths ELSE {})
  ELSE /\ Finish(t)
       /\ doubted' = IF c.effects = 0 THEN doubted ELSE doubted \cup PathsOf(c)

\* Mkdir, Remove, Rename.  The error of an impossible operation is benign (or
\* becomes so, as EEXIST) and is not retried.
Perform(t) ==
  LET c == call[t] IN
  /\ pc[t] = "perform"
  /\ UNCHANGED <<Entries, opened>>
  /\ \/ Possible(c) /\ Succeeds /\ Returns(t, "none", Effected(c, 1)) /\ Performed(c, 1)
     \/ Refusable(c) /\ Succeeds /\ Returns(t, "benign", c) /\ Performed(c, 0)
     \/ \E n \in {0, 1} :
          /\ n = 1 => Possible(c)
          /\ Fails
          /\ IF ShouldRetry(c.attempt)
             THEN call' = [call EXCEPT ![t] = Again(Effected(c, n))] /\ UNCHANGED <<pc, doubted>>
             ELSE Returns(t, "other", Effected(c, n))
          /\ Performed(c, n)

\* Stat and ReadDir change nothing, so their retries do not matter here.
InDir(p, d) == p[1] = d
Query(t) ==
  LET c == call[t]
      asked == IF c.op = "lookup" THEN {c.path} ELSE {p \in Allowed : InDir(p, c.path[1])} IN
  /\ pc[t] = "query"
  /\ \/ /\ Succeeds /\ asked \cap hdfs # {}
        /\ Goto(t, "update") /\ call' = [call EXCEPT ![t].reply = asked \cap hdfs]
     \/ (Fails \/ (Succeeds /\ asked \cap hdfs = {})) /\ Finish(t)
  /\ UNCHANGED <<hdfs, node, Entries, opened, at, doubted, moved>>

\* Create: NewFileHandleWriter removes the file, ignoring errors, and creates
\* it, which is not retried.  The rest of it is in FileHandle.
CreateRemove(t) ==
  LET p == call[t].path IN
  /\ pc[t] = "createRemove" /\ Goto(t, "createFile")
  /\ UNCHANGED <<Entries, opened, call, doubted>>
  /\ \/ Succeeds /\ hdfs' = hdfs \ {p} /\ NodesAre(node, Vanished(p))
     \/ Fails /\ UNCHANGED hdfs /\ NodesAre(node, at)

CreateFile(t) ==
  LET c == call[t]
      created == hdfs' = hdfs \cup {c.path}
      possible == c.path \notin hdfs IN
  /\ pc[t] = "createFile"
  /\ UNCHANGED <<Entries, opened>>
  /\ \/ /\ possible /\ Succeeds /\ created /\ Finish(t)
        /\ doubted' = doubted \ {c.path}
        /\ NodesAre(node, [at EXCEPT ![c.node] = c.path])
     \/ /\ IF possible THEN Fails ELSE Succeeds
        /\ Finish(t)
        /\ doubted' = doubted \cup {c.path}
        /\ \/ UNCHANGED hdfs /\ NodesAre(node, at)
           \/ possible /\ created /\ NodesAre(node, [at EXCEPT ![c.node] = c.path])

-----------------------------------------------------------------------------
(* The nodes are changed, and the request is answered *)

\* Mutant: the name in the node is not changed.
NotRenamed(x, q) == node[x]

\* What Rename does to the node: its Parent stays.
Renamed(x, q) == [node[x] EXCEPT !.Name = q[2]]

\* Mutant: the entry of a removed node stays.
EntriesKept(p) == Entries

\* Dir.EntriesRemove
EntriesRemove(p) == [Entries EXCEPT ![p] = None]

\* NodeFromAttrs for what is in the reply, or for the directory just made.
UpdateNew(t) ==
  LET c == call[t] IN
  /\ pc[t] = "update" /\ c.op \in {"mkdir", "lookup", "list"}
  /\ \E f \in Allocations(IF c.op = "mkdir" THEN {c.path} ELSE c.reply) :
       /\ Entries' = Cached(f)
       /\ Finish(t)
       /\ UNCHANGED <<hdfs, faults, opened, doubted>>
       /\ NodesAndMoves(WithNodes(f), Placed(f), Unmoved(f))

UpdateRemove(t) ==
  LET p == call[t].path IN
  /\ pc[t] = "update" /\ call[t].op = "remove"
  /\ Entries' = EntriesRemove(p)
  /\ Finish(t)
  /\ UNCHANGED <<hdfs, faults, opened, doubted>>
  /\ NodesAre(node, at)

\* A node that is not cached is not renamed.
UpdateRename(t) ==
  LET p == call[t].path
      q == call[t].to
      x == Entries[p] IN
  /\ pc[t] = "update" /\ call[t].op = "rename"
  /\ Entries' = IF x = None THEN Entries ELSE [EntriesRemove(p) EXCEPT ![q] = x]
  /\ Finish(t)
  /\ UNCHANGED <<hdfs, faults, opened, doubted>>
  /\ NodesAndMoves(IF x = None THEN node ELSE [node EXCEPT ![x] = Renamed(x, q)],
                   at, IF x = None \/ p[1] = q[1] THEN moved ELSE moved \cup {x})

-----------------------------------------------------------------------------
Next ==
  \/ Close \/ \E p \in Paths : Remote(p) \/ Open(p)
  \/ \E t \in Threads :
       \/ Arrive(t) \/ \E p \in Paths : Create(t, p)
       \/ Perform(t) \/ Query(t) \/ CreateRemove(t) \/ CreateFile(t)
       \/ UpdateNew(t) \/ UpdateRemove(t) \/ UpdateRename(t)

Spec == Init /\ [][Next]_vars

-----------------------------------------------------------------------------
(* Properties *)
Requests == [op : {"none", "lookup", "list", "mkdir", "create", "remove", "rename"},
             path : Paths \cup {NoPath} \cup (Dirs \X {None}), to : Paths \cup {NoPath},
             node : Nodes \cup {None}, reply : SUBSET Paths,
             attempt : 1..MaxAttempts, effects : 0..MaxAttempts]

\* The variables stay in their types; the retries stay within MaxAttempts.
TypeOK ==
  /\ hdfs \subseteq Paths /\ faults \in 0..MaxFaults
  /\ node \in [Nodes -> [Parent : Dirs \cup {None}, Name : Names \cup {None}]]
  /\ Entries \in [Paths -> Nodes \cup {None}]
  /\ opened \in Nodes \cup {None}
  /\ pc \in [Threads -> {"idle", "query", "perform", "createRemove", "createFile", "update"}]
  /\ call \in [Threads -> Requests]
  /\ at \in [Nodes -> Paths \cup {None}] /\ doubted \subseteq Paths /\ moved \subseteq Nodes

\* A directory finds a cached node under the name the node has (so that its path
\* is right), and finds it once; renaming into another directory is the exception,
\* as the node's Parent stays (Dir.go:238-246).
EntriesNamed ==
  \A p \in Paths : Entries[p] # None =>
    /\ AbsolutePath(Entries[p])[2] = p[2]
    /\ AbsolutePath(Entries[p])[1] = p[1] \/ Entries[p] \in moved
    /\ \A q \in Paths : Entries[q] = Entries[p] => q = p

\* A node in the cache of its directory is that of the file which HDFS has under
\* its name, whatever requests are retried and fail on the way and whichever nodes
\* a listing replaces, unless someone was told of an error or another client
\* changed the file: a directory does not resurrect what was removed, nor keep
\* what a rename has overwritten (Dir.go:100, :208, :225, :238).
CacheSound == \A p \in Paths :
  Entries[p] # None => at[Entries[p]] = p \/ p \in doubted \/ Changing(p)

\* A Mkdir, Remove or Rename that succeeds was performed, and once, although an
\* attempt that failed may have taken effect: nothing is done twice unless another
\* client has undone it in between (which takes a second fault)
\* (FaultTolerantHdfsAccessor.go:102-141).
SuccessIsReal == \A t \in Threads :
  pc[t] = "update" /\ ~Shared(call[t].op) =>
    \/ call[t].effects = 1
    \/ call[t].effects > 1 /\ faults > 1

\* File.go:33, Dir.go:35: AbsolutePath is the path of a node "in HDFS namespace";
\* for the node of an open file, while no request changes it.
NodePathsRight ==
  opened # None /\ at[opened] # None =>
    AbsolutePath(opened) = at[opened] \/ Changing(at[opened])
=============================================================================
