-------------------------- MODULE NamespaceProofs --------------------------
(***************************************************************************)
(* Theorems about directories, for any number of goroutines, directories,  *)
(* names, paths, nodes, attempts and failures.                             *)
(***************************************************************************)
EXTENDS Namespace, Integers, TLAPS

-----------------------------------------------------------------------------
(* The inductive invariant *)

Changes == {"mkdir", "remove", "rename"}

\* What a request is at each step
Shaped(t) == LET c == call[t] IN
  /\ pc[t] = "idle" => c = Idle
  /\ pc[t] = "query" => Shared(c.op)
  /\ pc[t] = "perform" => c.op \in Changes /\ c.effects < c.attempt
  /\ pc[t] = "update" => c.op \in Changes \/ Shared(c.op)
  /\ pc[t] \in {"createRemove", "createFile"} => c.op = "create"
  /\ c.op \in Changes \cup {"create", "lookup"} => c.path \in Paths
  /\ c.op = "list" => c.path \in Dirs \X {None}
  /\ IF c.op = "rename" THEN c.to \in Paths /\ c.to # c.path ELSE c.to = NoPath
  /\ \A p \in c.reply : p[1] = c.path[1]

\* Requests are for different directories, unless they change nothing.
Exclusive == \A t, u \in Threads : t # u =>
  DirsOf(call[t]) \cap DirsOf(call[u]) = {} \/ (Shared(call[t].op) /\ Shared(call[u].op))

\* What a request has found or done is still so, unless another client has changed it:
\* an operation that has been performed cannot be performed again, what has been
\* listed or made is there, and what is renamed, removed or created is cached.
Doing(t) == LET c == call[t] IN
  /\ pc[t] = "perform" /\ c.effects > 0 =>
       faults > 0 /\ (~Possible(c) \/ (faults > 1 /\ c.path \in doubted))
  /\ pc[t] = "update" /\ c.op \in Changes => c.effects > 0 /\ (c.effects > 1 => faults > 1)
  /\ pc[t] = "update" /\ c.op = "mkdir" => c.path \in hdfs \cup doubted
  /\ pc[t] = "update" /\ Shared(c.op) => c.reply \subseteq hdfs \cup doubted
  /\ c.op = "rename" => Entries[c.path] # None
  /\ pc[t] = "update" /\ c.op = "rename" => at[Entries[c.path]] = c.to \/ c.to \in doubted
  /\ c.op = "create" => Entries[c.path] = c.node /\ c.node # None

\* The node cached for a path is that of the file there, but for changes of others and
\* errors; or a request that has changed something is about to update it.
Sound(p)   == at[Entries[p]] = p \/ p \in doubted
Amid(t, p) == /\ ~Shared(call[t].op) /\ p \in PathsOf(call[t])
              /\ pc[t] # "perform" \/ call[t].effects > 0
Exact      == \A p \in Paths : Entries[p] # None => Sound(p) \/ \E t \in Threads : Amid(t, p)

Inv == TypeOK /\ EntriesNamed /\ Exact /\ Exclusive /\ \A t \in Threads : Shaped(t) /\ Doing(t)

-----------------------------------------------------------------------------
(* Types, and the nodes that are kept *)

NodeTypes == [Parent : Dirs \cup {None}, Name : Names \cup {None}]
StateTyped ==
  /\ hdfs \subseteq Paths /\ faults \in 0..MaxFaults
  /\ Entries \in [Paths -> Nodes \cup {None}]
  /\ opened \in Nodes \cup {None} /\ doubted \subseteq Paths
NodesTyped ==
  /\ node \in [Nodes -> NodeTypes]
  /\ at \in [Nodes -> Paths \cup {None}] /\ moved \subseteq Nodes
Pcs == {"idle", "query", "perform", "createRemove", "createFile", "update"}
ThreadsTyped == pc \in [Threads -> Pcs] /\ call \in [Threads -> Requests]

\* The type invariant is that of the tree, of the nodes and of the goroutines.
LEMMA TypeParts == TypeOK <=> StateTyped /\ NodesTyped /\ ThreadsTyped
BY DEF TypeOK, StateTyped, NodesTyped, ThreadsTyped, NodeTypes, Pcs

\* The same of the next state
LEMMA TypePartsNext == TypeOK' <=> StateTyped' /\ NodesTyped' /\ ThreadsTyped'
BY TypeParts, PTL

\* Paths are of a directory and a name; nil is nothing of all.
LEMMA PathFacts ==
  /\ \A p \in Paths : p[1] \in Dirs /\ p[2] \in Names /\ p = <<p[1], p[2]>> /\ p[1] # None /\ p[2] # None
  /\ None \notin Paths /\ None \notin Nodes /\ None \notin Dirs /\ None \notin Names
  /\ NoPath \notin Paths /\ NoPath[1] = None
  /\ \A d \in Dirs : <<d, None>> \notin Paths
<1>1. \A p \in Paths : p[1] \in Dirs /\ p[2] \in Names /\ p = <<p[1], p[2]>>
  BY PathsAssumption
<1>2. None \notin Paths /\ None \notin Nodes /\ None \notin Dirs /\ None \notin Names
  BY NoneAssumption
<1>3. \A p \in Paths : p[1] # None /\ p[2] # None
  BY <1>1, <1>2
<1>4. NoPath[1] = None /\ NoPath[2] = None /\ \A d \in Dirs : <<d, None>>[2] = None
  BY DEF NoPath
<1>5. NoPath \notin Paths /\ \A d \in Dirs : <<d, None>> \notin Paths
  BY <1>3, <1>4
<1> QED BY <1>1, <1>2, <1>3, <1>4, <1>5

\* The constants, as numbers
LEMMA Constants == MaxAttempts \in Nat /\ MaxAttempts >= 1 /\ MaxFaults \in Nat
BY BoundsAssumption

\* What a request refers to
LEMMA RequestTypes ==
  ASSUME NEW c \in Requests
  PROVE  /\ c.path \in Paths \cup {NoPath} \cup (Dirs \X {None}) /\ c.to \in Paths \cup {NoPath}
         /\ c.node \in Nodes \cup {None} /\ c.reply \subseteq Paths
         /\ c.attempt \in Nat /\ c.attempt \in 1..MaxAttempts
         /\ c.effects \in Nat /\ c.effects \in 0..MaxAttempts
<1>1. /\ c.path \in Paths \cup {NoPath} \cup (Dirs \X {None}) /\ c.to \in Paths \cup {NoPath}
      /\ c.node \in Nodes \cup {None} /\ c.reply \subseteq Paths
      /\ c.attempt \in 1..MaxAttempts /\ c.effects \in 0..MaxAttempts
  BY DEF Requests
<1> QED BY <1>1, Constants

\* The nodes after a step, as it makes them, if something refers to them
LEMMA NodesKept ==
  ASSUME NEW nodes \in [Nodes -> NodeTypes], NEW places \in [Nodes -> Paths \cup {None}],
         NEW moves \in SUBSET Nodes, NodesAndMoves(nodes, places, moves)
  PROVE  /\ NodesTyped'
         /\ \A x \in Referenced' :
              node'[x] = nodes[x] /\ at'[x] = places[x] /\ (x \in moved' <=> x \in moves)
<1> DEFINE kept == Referenced'
<1>1. /\ node' = [x \in Nodes |-> IF x \in kept THEN nodes[x] ELSE Unused]
      /\ at' = [x \in Nodes |-> IF x \in kept THEN places[x] ELSE None]
      /\ moved' = moves \cap kept
  BY DEF NodesAndMoves
<1>2. kept \subseteq Nodes
  BY DEF Referenced
<1>3. Unused \in NodeTypes
  BY DEF Unused, NodeTypes
<1> HIDE DEF kept
<1>4. NodesTyped'
  BY <1>1, <1>2, <1>3 DEF NodesTyped
<1>5. \A x \in kept : node'[x] = nodes[x] /\ at'[x] = places[x] /\ (x \in moved' <=> x \in moves)
  BY <1>1, <1>2
<1> QED BY <1>4, <1>5 DEF kept

\* A cached node is referred to.
LEMMA CachedIsReferenced ==
  ASSUME NEW p \in Paths, Entries'[p] \in Nodes
  PROVE  Entries'[p] \in Referenced'
BY DEF Referenced

\* A goroutine goes on.
LEMMA Going ==
  ASSUME ThreadsTyped, NEW t \in Threads, NEW p \in Pcs, Goto(t, p)
  PROVE  /\ pc' \in [Threads -> Pcs]
         /\ pc'[t] = p /\ \A u \in Threads : u # t => pc'[u] = pc[u]
BY DEF Goto, ThreadsTyped

\* The request of a goroutine changes.
LEMMA Calling ==
  ASSUME ThreadsTyped, NEW t \in Threads, NEW c \in Requests, call' = [call EXCEPT ![t] = c]
  PROVE  /\ call' \in [Threads -> Requests]
         /\ call'[t] = c /\ \A u \in Threads : u # t => call'[u] = call[u]
BY DEF ThreadsTyped

\* A request just made
LEMMA RequestMade ==
  ASSUME NEW op \in {"none", "lookup", "list", "mkdir", "create", "remove", "rename"},
         NEW p \in Paths \cup {NoPath} \cup (Dirs \X {None}), NEW q \in Paths \cup {NoPath}
  PROVE  LET c == Request(op, p, q) IN
         /\ c \in Requests /\ c.op = op /\ c.path = p /\ c.to = q /\ c.node = None
         /\ c.reply = {} /\ c.attempt = 1 /\ c.effects = 0
<1>1. 1 \in 1..MaxAttempts /\ 0 \in 0..MaxAttempts
  BY Constants
<1> QED BY <1>1 DEF Request, Requests

\* No request
LEMMA IdleFacts ==
  /\ Idle \in Requests /\ Idle.op = "none" /\ Idle.path = NoPath /\ Idle.to = NoPath
  /\ Idle.reply = {} /\ Idle.node = None
  /\ DirsOf(Idle) = {} /\ PathsOf(Idle) = {}
<1>1. /\ Idle \in Requests /\ Idle.op = "none" /\ Idle.path = NoPath /\ Idle.to = NoPath
      /\ Idle.reply = {} /\ Idle.node = None
  BY RequestMade DEF Idle
<1>2. DirsOf(Idle) = {} /\ PathsOf(Idle) = {}
  BY <1>1, PathFacts DEF DirsOf, PathsOf
<1> QED BY <1>1, <1>2

\* The directories of a request are those of its paths.
LEMMA DirsOfPaths ==
  ASSUME NEW c \in Requests
  PROVE  \A p \in PathsOf(c) : p \in Paths /\ p[1] \in DirsOf(c)
BY PathFacts DEF PathsOf, DirsOf

-----------------------------------------------------------------------------
(* What a step leaves alone *)

\* Outside of T the cache, the tree and what is doubted stay, but for what another
\* client changes; and the files of the nodes cached stay where they are.
Outside(T) ==
  /\ \A p \in Paths \ T :
       /\ Entries'[p] = Entries[p]
       /\ \/ (p \in hdfs' <=> p \in hdfs) /\ (p \in doubted => p \in doubted')
          \/ p \in doubted' /\ faults' > faults
       /\ Entries[p] # None =>
            \A q \in Paths \ T : at[Entries[p]] = q => at'[Entries[p]] = q \/ q \in doubted'
  /\ faults' \in Nat /\ faults' >= faults

\* What a request has found and done in its directories stays, if a step leaves them
\* alone; a listing minds the tree only.
LEMMA DoingKept ==
  ASSUME Inv, NEW u \in Threads, pc'[u] = pc[u], call'[u] = call[u],
         NEW T \in SUBSET Paths, Outside(T),
         \/ \A p \in T : p[1] \notin DirsOf(call[u])
         \/ Shared(call[u].op) /\ UNCHANGED <<hdfs, doubted>>
  PROVE  Shaped(u)' /\ Doing(u)'
<1> DEFINE c == call[u]
<1>1. Shaped(u) /\ Doing(u) /\ faults \in Nat /\ c \in Requests
  BY TypeParts, Constants DEF Inv, StateTyped, ThreadsTyped
<1>2. Shaped(u)'
  BY <1>1 DEF Shaped
<1>3. CASE Shared(c.op) /\ UNCHANGED <<hdfs, doubted>>
  BY <1>1, <1>3 DEF Doing, Shaped, Shared, Changes
<1>4. CASE \A p \in T : p[1] \notin DirsOf(c)
  <2>1. c.path \in Paths => c.path \in Paths \ T
    BY <1>1, <1>4, DirsOfPaths DEF PathsOf
  <2>2. c.to \in Paths => c.to \in Paths \ T
    BY <1>1, <1>4, DirsOfPaths DEF PathsOf
  <2>3. faults' \in Nat /\ faults' >= faults
    BY DEF Outside
  <2>4. ASSUME pc[u] = "perform", c.effects > 0
        PROVE  faults' > 0 /\ (~Possible(c)' \/ (faults' > 1 /\ c.path \in doubted'))
    <3>1. c.op \in Changes /\ c.path \in Paths \ T
      BY <1>1, <2>1, <2>4 DEF Shaped
    <3>2. faults > 0 /\ (~Possible(c) \/ (faults > 1 /\ c.path \in doubted))
      BY <1>1, <2>4 DEF Doing
    <3>3. CASE (c.path \in hdfs' <=> c.path \in hdfs) /\ (c.path \in doubted => c.path \in doubted')
      <4>1. Possible(c)' <=> Possible(c)
        BY <3>3 DEF Possible
      <4>2. faults' > 0 /\ (faults > 1 => faults' > 1)
        BY <1>1, <2>3, <3>2
      <4> QED BY <3>2, <3>3, <4>1, <4>2
    <3>4. CASE c.path \in doubted' /\ faults' > faults
      <4>1. faults' > 1
        BY <1>1, <2>3, <3>2, <3>4
      <4> QED BY <2>3, <3>4, <4>1
    <3> QED BY <3>1, <3>3, <3>4 DEF Outside
  <2>5. ASSUME pc[u] = "update", c.op \in Changes
        PROVE  c.effects > 0 /\ (c.effects > 1 => faults' > 1)
    BY <1>1, <2>3, <2>5 DEF Doing
  <2>6. ASSUME NEW p \in Paths \ T, p \in hdfs \cup doubted
        PROVE  p \in hdfs' \cup doubted'
    BY <2>6 DEF Outside
  <2>7. pc[u] = "update" /\ c.op = "mkdir" => c.path \in hdfs' \cup doubted'
    BY <1>1, <2>1, <2>6 DEF Doing, Shaped, Changes
  <2>8. ASSUME pc[u] = "update", Shared(c.op)
        PROVE  c.reply \subseteq hdfs' \cup doubted'
    <3> SUFFICES ASSUME NEW p \in c.reply PROVE p \in hdfs' \cup doubted'
      OBVIOUS
    <3>1. p \in hdfs \cup doubted /\ p[1] = c.path[1] /\ p \in Paths
      BY <1>1, <2>8, RequestTypes DEF Doing, Shaped
    <3>2. p[1] \in DirsOf(c)
      BY <3>1, PathFacts DEF DirsOf
    <3>3. p \notin T
      BY <1>4, <3>2
    <3> QED BY <2>6, <3>1, <3>3
  <2>9. ASSUME c.op = "rename"
        PROVE  /\ Entries'[c.path] # None
               /\ pc[u] = "update" => at'[Entries'[c.path]] = c.to \/ c.to \in doubted'
    <3>1. c.path \in Paths \ T /\ c.to \in Paths \ T
      BY <1>1, <2>1, <2>2, <2>9 DEF Shaped, Changes
    <3>2. Entries'[c.path] = Entries[c.path] /\ Entries[c.path] # None
      BY <1>1, <2>9, <3>1 DEF Doing, Outside
    <3>3. ASSUME pc[u] = "update"
          PROVE  at'[Entries[c.path]] = c.to \/ c.to \in doubted'
      <4>1. at[Entries[c.path]] = c.to \/ c.to \in doubted
        BY <1>1, <2>9, <3>3 DEF Doing
      <4>2. c.to \in doubted => c.to \in doubted'
        BY <3>1 DEF Outside
      <4>3. at[Entries[c.path]] = c.to => at'[Entries[c.path]] = c.to \/ c.to \in doubted'
        BY <3>1, <3>2 DEF Outside
      <4> QED BY <4>1, <4>2, <4>3
    <3> QED BY <3>2, <3>3
  <2>10. c.op = "create" => Entries'[c.path] = c.node /\ c.node # None
    BY <1>1, <2>1 DEF Doing, Outside, Shaped
  <2> HIDE DEF c
  <2>11. c' = c /\ call'[u] = c /\ pc'[u] = pc[u]
    BY DEF c
  <2>12. Doing(u)'
    BY <2>4, <2>5, <2>7, <2>8, <2>9, <2>10, <2>11 DEF Doing
  <2> QED BY <1>2, <2>12
<1> QED BY <1>2, <1>3, <1>4

\* So do the nodes that are cached outside of T.
LEMMA ExactOutside ==
  ASSUME Inv, NEW T \in SUBSET Paths, Outside(T),
         \A u \in Threads : \A p \in Paths \ T : Amid(u, p) => Amid(u, p)'
  PROVE  \A p \in Paths \ T : Entries'[p] # None => Sound(p)' \/ \E u \in Threads : Amid(u, p)'
<1> SUFFICES ASSUME NEW p \in Paths \ T, Entries'[p] # None
             PROVE  Sound(p)' \/ \E u \in Threads : Amid(u, p)'
  OBVIOUS
<1>1. Entries'[p] = Entries[p] /\ (p \in doubted => p \in doubted')
  BY DEF Outside
<1>2. Sound(p) \/ \E u \in Threads : Amid(u, p)
  BY <1>1 DEF Inv, Exact
<1>3. CASE Sound(p)
  BY <1>1, <1>3 DEF Sound, Outside
<1>4. CASE \E u \in Threads : Amid(u, p)
  BY <1>4
<1> QED BY <1>2, <1>3, <1>4

Others(t) == \A u \in Threads : u # t => pc'[u] = pc[u] /\ call'[u] = call[u]

\* A step of a goroutine in the directories of its request
LEMMA StepOf ==
  ASSUME Inv, TypeOK', EntriesNamed', Exclusive', NEW t \in Threads, Others(t),
         NEW T \in SUBSET Paths, Outside(T),
         \/ \A p \in T : p[1] \in DirsOf(call[t])
         \/ ~Shared(call'[t].op) /\ \A p \in T : p[1] \in DirsOf(call'[t]),
         ~Shared(call[t].op) \/ UNCHANGED <<hdfs, doubted>>,
         \A p \in Paths \ T : Amid(t, p) => Amid(t, p)',
         \A p \in T : Entries'[p] # None => Sound(p)' \/ Amid(t, p)',
         Shaped(t)', Doing(t)'
  PROVE  Inv'
<1>1. ASSUME NEW u \in Threads, u # t PROVE Shaped(u)' /\ Doing(u)'
  <2>1. pc'[u] = pc[u] /\ call'[u] = call[u]
    BY <1>1 DEF Others
  <2>2. DirsOf(call[t]) \cap DirsOf(call[u]) = {} \/ (Shared(call[t].op) /\ Shared(call[u].op))
    BY <1>1 DEF Inv, Exclusive
  <2>3. DirsOf(call'[t]) \cap DirsOf(call'[u]) = {} \/ (Shared(call'[t].op) /\ Shared(call'[u].op))
    BY <1>1 DEF Exclusive, DirsOf, Shared
  <2>4. \/ \A p \in T : p[1] \notin DirsOf(call[u])
        \/ Shared(call[u].op) /\ UNCHANGED <<hdfs, doubted>>
    BY <2>1, <2>2, <2>3
  <2> QED BY <2>1, <2>4, DoingKept
<1>2. \A u \in Threads : \A p \in Paths \ T : Amid(u, p) => Amid(u, p)'
  BY DEF Others, Amid
<1>3. \A p \in Paths \ T : Entries'[p] # None => Sound(p)' \/ \E u \in Threads : Amid(u, p)'
  BY <1>2, ExactOutside
<1>4. Exact'
  BY <1>3 DEF Exact
<1> QED BY <1>1, <1>4 DEF Inv

\* A step of the kernel or of another client of HDFS
LEMMA StepOfOthers ==
  ASSUME Inv, TypeOK', EntriesNamed', UNCHANGED <<pc, call>>, Outside({})
  PROVE  Inv'
<1>1. ASSUME NEW u \in Threads PROVE Shaped(u)' /\ Doing(u)'
  BY DoingKept
<1>2. \A u \in Threads : \A p \in Paths : Amid(u, p) => Amid(u, p)'
  BY DEF Amid
<1>3. Exact'
  BY <1>2, ExactOutside DEF Exact
<1>4. Exclusive'
  BY DEF Inv, Exclusive
<1> QED BY <1>1, <1>3, <1>4 DEF Inv

\* A request that goes on in its directories, or is answered, gets in nobody's way.
LEMMA ExclusiveKept ==
  ASSUME Inv, NEW t \in Threads, Others(t),
         \/ DirsOf(call'[t]) = {}
         \/ call'[t].op = call[t].op /\ DirsOf(call'[t]) = DirsOf(call[t])
  PROVE  Exclusive'
<1> SUFFICES ASSUME NEW u \in Threads, NEW w \in Threads, u # w
             PROVE  DirsOf(call'[u]) \cap DirsOf(call'[w]) = {} \/ (Shared(call'[u].op) /\ Shared(call'[w].op))
  BY DEF Exclusive, DirsOf, Shared
<1>1. DirsOf(call[u]) \cap DirsOf(call[w]) = {} \/ (Shared(call[u].op) /\ Shared(call[w].op))
  BY DEF Inv, Exclusive
<1>2. \A v \in Threads : v # t => call'[v] = call[v]
  BY DEF Others
<1>3. CASE DirsOf(call'[t]) = {}
  BY <1>1, <1>2, <1>3
<1>4. CASE call'[t].op = call[t].op /\ DirsOf(call'[t]) = DirsOf(call[t])
  BY <1>1, <1>2, <1>4
<1> QED BY <1>3, <1>4

\* A new request is for directories that no other is for.
LEMMA ExclusiveMade ==
  ASSUME Inv, NEW t \in Threads, Others(t), NEW c \in Requests, call'[t] = c, Admissible(t, c)
  PROVE  Exclusive'
<1> SUFFICES ASSUME NEW u \in Threads, NEW w \in Threads, u # w
             PROVE  DirsOf(call'[u]) \cap DirsOf(call'[w]) = {} \/ (Shared(call'[u].op) /\ Shared(call'[w].op))
  BY DEF Exclusive, DirsOf, Shared
<1>1. DirsOf(call[u]) \cap DirsOf(call[w]) = {} \/ (Shared(call[u].op) /\ Shared(call[w].op))
  BY DEF Inv, Exclusive
<1>2. \A v \in Threads : v # t => call'[v] = call[v]
  BY DEF Others
<1>3. \A v \in Threads : DirsOf(call[v]) \cap DirsOf(c) = {} \/ (Shared(c.op) /\ Shared(call[v].op))
  BY DEF Admissible
<1>4. CASE u = t
  BY <1>2, <1>3, <1>4
<1>5. CASE w = t
  BY <1>2, <1>3, <1>5
<1>6. CASE u # t /\ w # t
  BY <1>1, <1>2, <1>6
<1> QED BY <1>4, <1>5, <1>6

\* Nodes that stay as they are keep the names under which they are cached.
LEMMA NamedKept ==
  ASSUME Inv, TypeOK', \A p \in Paths : Entries'[p] \in {Entries[p], None},
         \A x \in Referenced' : node'[x] = node[x] /\ (x \in moved' <=> x \in moved)
  PROVE  EntriesNamed'
<1>1. ASSUME NEW p \in Paths, Entries'[p] # None
      PROVE  /\ Entries'[p] = Entries[p] /\ Entries[p] # None
             /\ node'[Entries'[p]] = node[Entries[p]] /\ (Entries'[p] \in moved' <=> Entries[p] \in moved)
  <2>1. Entries'[p] = Entries[p] /\ Entries'[p] \in Nodes
    BY <1>1, TypePartsNext DEF StateTyped
  <2> QED BY <1>1, <2>1, CachedIsReferenced
<1>2. EntriesNamed
  BY DEF Inv
<1> QED BY <1>1, <1>2 DEF EntriesNamed, AbsolutePath

-----------------------------------------------------------------------------
(* Steps of the kernel and of other clients *)

\* An attempt fails, or not.
LEMMA FaultFacts ==
  ASSUME StateTyped, Succeeds \/ Fails
  PROVE  /\ faults \in Nat /\ faults' \in Nat /\ faults' \in 0..MaxFaults /\ faults' >= faults
         /\ Fails => faults' > faults
BY Constants DEF StateTyped, Succeeds, Fails

\* The files of the nodes, when that at a path is removed, or renamed
LEMMA FilesTyped ==
  ASSUME NodesTyped, NEW p \in Paths, NEW q \in Paths
  PROVE  Vanished(p) \in [Nodes -> Paths \cup {None}] /\ Shifted(p, q) \in [Nodes -> Paths \cup {None}]
BY DEF NodesTyped, Vanished, Shifted

\* Nodes that a step leaves as they are
LEMMA NodesSame ==
  ASSUME Inv, NEW places \in [Nodes -> Paths \cup {None}], NodesAre(node, places)
  PROVE  /\ NodesTyped'
         /\ \A x \in Referenced' :
              node'[x] = node[x] /\ at'[x] = places[x] /\ (x \in moved' <=> x \in moved)
BY NodesKept, TypeParts DEF NodesAre, NodesTyped, Inv

\* A node is cached, or none.
LEMMA EntryTypes ==
  ASSUME StateTyped, NEW p \in Paths, Entries[p] # None
  PROVE  Entries[p] \in Nodes
BY DEF StateTyped

\* A file is opened.
LEMMA OpenStep ==
  ASSUME Inv, NEW p \in Paths, Open(p)
  PROVE  Inv'
<1>1. /\ Entries[p] # None /\ opened' = Entries[p]
      /\ UNCHANGED <<hdfs, faults, Entries, pc, call, doubted>> /\ NodesAre(node, at)
  BY DEF Open, threads
<1>2. StateTyped /\ NodesTyped /\ ThreadsTyped
  BY TypeParts DEF Inv
<1>3. /\ NodesTyped'
      /\ \A x \in Referenced' : node'[x] = node[x] /\ at'[x] = at[x] /\ (x \in moved' <=> x \in moved)
  BY <1>1, <1>2, NodesSame DEF NodesTyped
<1>4. TypeOK'
  BY <1>1, <1>2, <1>3, TypePartsNext DEF StateTyped, ThreadsTyped
<1>5. EntriesNamed'
  BY <1>1, <1>3, <1>4, NamedKept
<1>6. Outside({})
  <2>1. \A q \in Paths : Entries[q] # None => at'[Entries[q]] = at[Entries[q]]
    BY <1>1, <1>2, <1>3, CachedIsReferenced, EntryTypes
  <2>2. faults \in Nat
    BY <1>2, Constants DEF StateTyped
  <2> QED BY <1>1, <2>1, <2>2 DEF Outside
<1> QED BY <1>1, <1>4, <1>5, <1>6, StepOfOthers

\* A file is closed.
LEMMA CloseStep ==
  ASSUME Inv, Close
  PROVE  Inv'
<1>1. opened' = None /\ UNCHANGED <<hdfs, faults, Entries, pc, call, doubted>> /\ NodesAre(node, at)
  BY DEF Close, threads
<1>2. StateTyped /\ NodesTyped /\ ThreadsTyped
  BY TypeParts DEF Inv
<1>3. /\ NodesTyped'
      /\ \A x \in Referenced' : node'[x] = node[x] /\ at'[x] = at[x] /\ (x \in moved' <=> x \in moved)
  BY <1>1, <1>2, NodesSame DEF NodesTyped
<1>4. TypeOK'
  BY <1>1, <1>2, <1>3, TypePartsNext DEF StateTyped, ThreadsTyped
<1>5. EntriesNamed'
  BY <1>1, <1>3, <1>4, NamedKept
<1>6. Outside({})
  <2>1. \A q \in Paths : Entries[q] # None => at'[Entries[q]] = at[Entries[q]]
    BY <1>1, <1>2, <1>3, CachedIsReferenced, EntryTypes
  <2>2. faults \in Nat
    BY <1>2, Constants DEF StateTyped
  <2> QED BY <1>1, <2>1, <2>2 DEF Outside
<1> QED BY <1>1, <1>4, <1>5, <1>6, StepOfOthers

\* Another client makes or removes a file.
LEMMA RemoteStep ==
  ASSUME Inv, NEW p \in Paths, Remote(p)
  PROVE  Inv'
<1>1. /\ Fails /\ doubted' = doubted \cup {p}
      /\ hdfs' \subseteq Paths /\ \A q \in Paths : q # p => (q \in hdfs' <=> q \in hdfs)
      /\ UNCHANGED <<Entries, opened, pc, call>> /\ NodesAre(node, Vanished(p))
  BY TypeParts DEF Remote, threads, Inv, StateTyped
<1>2. StateTyped /\ NodesTyped /\ ThreadsTyped
  BY TypeParts DEF Inv
<1>3. Vanished(p) \in [Nodes -> Paths \cup {None}]
  BY <1>2, FilesTyped
<1>4. /\ NodesTyped'
      /\ \A x \in Referenced' : node'[x] = node[x] /\ at'[x] = Vanished(p)[x] /\ (x \in moved' <=> x \in moved)
  BY <1>1, <1>3, NodesSame
<1>5. faults' \in 0..MaxFaults /\ faults' \in Nat /\ faults \in Nat /\ faults' > faults /\ faults' >= faults
  BY <1>1, <1>2, FaultFacts
<1>6. TypeOK'
  BY <1>1, <1>2, <1>4, <1>5, TypePartsNext DEF StateTyped, ThreadsTyped
<1>7. EntriesNamed'
  BY <1>1, <1>4, <1>6, NamedKept
<1>8. Outside({})
  <2>1. ASSUME NEW q \in Paths, Entries[q] # None, NEW r \in Paths, at[Entries[q]] = r
        PROVE  at'[Entries[q]] = r \/ r \in doubted'
    <3>1. Entries[q] \in Nodes /\ Entries[q] \in Referenced'
      BY <1>1, <1>2, <2>1, CachedIsReferenced, EntryTypes
    <3>2. at'[Entries[q]] = IF at[Entries[q]] = p THEN None ELSE at[Entries[q]]
      BY <1>4, <3>1 DEF Vanished
    <3> QED BY <1>1, <2>1, <3>2
  <2> QED BY <1>1, <1>5, <2>1 DEF Outside
<1> QED BY <1>1, <1>6, <1>7, <1>8, StepOfOthers

-----------------------------------------------------------------------------
(* Requests arrive *)

\* A request that is about to ask or do something has found and done nothing.
LEMMA Arrived ==
  ASSUME Inv, NEW t \in Threads, NEW c \in Requests, NEW p \in {"query", "perform"}, Accept(t, c, p),
         UNCHANGED <<hdfs, faults, node, Entries, opened, at, doubted, moved>>,
         Shaped(t)', c.effects = 0, c.op # "create", c.op = "rename" => Entries[c.path] # None
  PROVE  Inv'
<1>1. Admissible(t, c) /\ pc[t] = "idle" /\ Goto(t, p) /\ call' = [call EXCEPT ![t] = c]
  BY DEF Accept, Admissible
<1>2. StateTyped /\ NodesTyped /\ ThreadsTyped /\ Shaped(t)
  BY TypeParts DEF Inv
<1>3. /\ pc' \in [Threads -> Pcs] /\ pc'[t] = p /\ \A u \in Threads : u # t => pc'[u] = pc[u]
  BY <1>1, <1>2, Going DEF Pcs
<1>4. call' \in [Threads -> Requests] /\ call'[t] = c /\ \A u \in Threads : u # t => call'[u] = call[u]
  BY <1>1, <1>2, Calling
<1>5. TypeOK'
  BY <1>2, <1>3, <1>4, TypePartsNext DEF StateTyped, NodesTyped, ThreadsTyped
<1>6. EntriesNamed'
  BY <1>2, <1>5, NamedKept
<1>7. Outside({})
  <2>1. faults \in Nat
    BY <1>2, Constants DEF StateTyped
  <2> QED BY <2>1 DEF Outside
<1>8. call[t] = Idle
  BY <1>1, <1>2 DEF Shaped
<1>9. \A q \in Paths : ~Amid(t, q)
  BY <1>8, IdleFacts DEF Amid
<1>10. Doing(t)'
  BY <1>3, <1>4 DEF Doing
<1>11. Exclusive' /\ Others(t)
  BY <1>1, <1>3, <1>4, ExclusiveMade DEF Others
<1>12. {} \in SUBSET Paths
  OBVIOUS
<1> QED BY <1>5, <1>6, <1>7, <1>9, <1>10, <1>11, <1>12, StepOf

\* A request arrives.
LEMMA ArriveStep ==
  ASSUME Inv, NEW t \in Threads, Arrive(t)
  PROVE  Inv'
<1> DEFINE New(c, p) ==
             /\ Accept(t, c, p) /\ c.effects = 0 /\ c.attempt = 1 /\ c.reply = {}
             /\ IF p = "query" THEN Shared(c.op) ELSE p = "perform" /\ c.op \in Changes
             /\ IF c.op = "list" THEN c.path \in Dirs \X {None} ELSE c.path \in Paths
             /\ IF c.op = "rename" THEN c.to \in Paths /\ c.to # c.path /\ Entries[c.path] # None ELSE c.to = NoPath
<1>1. UNCHANGED <<hdfs, faults, node, Entries, opened, at, doubted, moved>>
  BY DEF Arrive
<1>2. PICK c \in Requests, p \in {"query", "perform"} : New(c, p)
  <2>1. ASSUME NEW p \in Allowed, Accept(t, Request("lookup", p, NoPath), "query")
        PROVE  \E c \in Requests : New(c, "query")
    <3> DEFINE c == Request("lookup", p, NoPath)
    <3>1. p \in Paths
      BY PathsAssumption
    <3>2. /\ c \in Requests /\ c.op = "lookup" /\ c.path = p /\ c.to = NoPath
          /\ c.reply = {} /\ c.attempt = 1 /\ c.effects = 0
      BY <3>1, RequestMade
    <3>3. Accept(t, c, "query")
      BY <2>1
    <3> HIDE DEF c
    <3> QED BY <3>1, <3>2, <3>3 DEF Shared
  <2>2. ASSUME NEW d \in Dirs, Accept(t, Request("list", <<d, None>>, NoPath), "query")
        PROVE  \E c \in Requests : New(c, "query")
    <3> DEFINE c == Request("list", <<d, None>>, NoPath)
    <3>1. <<d, None>> \in Dirs \X {None}
      OBVIOUS
    <3>2. /\ c \in Requests /\ c.op = "list" /\ c.path = <<d, None>> /\ c.to = NoPath
          /\ c.reply = {} /\ c.attempt = 1 /\ c.effects = 0
      BY <3>1, RequestMade
    <3>3. Accept(t, c, "query")
      BY <2>2
    <3> HIDE DEF c
    <3> QED BY <3>1, <3>2, <3>3 DEF Shared
  <2>3. ASSUME NEW p \in Paths, NEW op \in {"mkdir", "remove"}, Accept(t, Request(op, p, NoPath), "perform")
        PROVE  \E c \in Requests : New(c, "perform")
    <3> DEFINE c == Request(op, p, NoPath)
    <3>1. /\ c \in Requests /\ c.op = op /\ c.path = p /\ c.to = NoPath
          /\ c.reply = {} /\ c.attempt = 1 /\ c.effects = 0
      BY RequestMade
    <3>2. Accept(t, c, "perform")
      BY <2>3
    <3> HIDE DEF c
    <3> QED BY <3>1, <3>2 DEF Changes
  <2>4. ASSUME NEW p \in Paths, NEW q \in Paths, Entries[p] # None, p # q,
               Accept(t, Request("rename", p, q), "perform")
        PROVE  \E c \in Requests : New(c, "perform")
    <3> DEFINE c == Request("rename", p, q)
    <3>1. /\ c \in Requests /\ c.op = "rename" /\ c.path = p /\ c.to = q
          /\ c.reply = {} /\ c.attempt = 1 /\ c.effects = 0
      BY RequestMade
    <3>2. Accept(t, c, "perform")
      BY <2>4
    <3> HIDE DEF c
    <3> QED BY <2>4, <3>1, <3>2 DEF Changes
  <2> HIDE DEF New
  <2> QED BY <2>1, <2>2, <2>3, <2>4 DEF Arrive
<1>3. pc'[t] = p /\ call'[t] = c
  <2>1. Goto(t, p) /\ call' = [call EXCEPT ![t] = c]
    BY <1>2 DEF Accept
  <2> QED BY <2>1, TypeParts DEF Inv, Goto, ThreadsTyped
<1>4. Shaped(t)'
  BY <1>2, <1>3 DEF Shaped, Shared, Changes
<1>5. c.op # "create" /\ (c.op = "rename" => Entries[c.path] # None)
  BY <1>2 DEF Shared, Changes
<1> QED BY <1>1, <1>2, <1>4, <1>5, Arrived

-----------------------------------------------------------------------------
(* New nodes *)

\* The nodes made for paths are one for each, and none that is in use.
LEMMA Allocating ==
  ASSUME Inv, NEW S \in SUBSET Paths, NEW f \in Allocations(S)
  PROVE  /\ f \in [S -> Nodes] /\ \A p, q \in S : f[p] = f[q] => p = q
         /\ \A p \in S : \A q \in Paths \ S : f[p] # Entries[q]
         /\ Range(f) \subseteq Nodes
         /\ \A p \in S : f[p] \in Range(f) /\ AntiFunction(f)[f[p]] = p
         /\ \A x \in Range(f) : \E p \in S : x = f[p]
<1>1. FreeNodes(S) \subseteq Nodes /\ f \in [S -> FreeNodes(S)] /\ \A p, q \in S : f[p] = f[q] => p = q
  BY DEF Allocations, Injection, IsInjective, FreeNodes
<1>2. \A p \in S : \A q \in Paths \ S : f[p] # Entries[q]
  BY <1>1 DEF FreeNodes
<1>3. Range(f) \subseteq Nodes /\ \A x \in Range(f) : \E p \in S : x = f[p]
  BY <1>1 DEF Range
<1>4. ASSUME NEW p \in S PROVE f[p] \in Range(f) /\ AntiFunction(f)[f[p]] = p
  <2>1. f[p] \in Range(f) /\ DOMAIN f = S
    BY <1>1 DEF Range
  <2>2. AntiFunction(f)[f[p]] = CHOOSE s \in S : f[p] \in Range(f) => f[s] = f[p]
    BY <2>1 DEF AntiFunction, Inverse
  <2> DEFINE s == CHOOSE r \in S : f[p] \in Range(f) => f[r] = f[p]
  <2>3. s \in S /\ (f[p] \in Range(f) => f[s] = f[p])
    <3>1. \E r \in S : f[p] \in Range(f) => f[r] = f[p]
      OBVIOUS
    <3> QED BY <3>1, Zenon
  <2>4. AntiFunction(f)[f[p]] = s
    BY <2>2
  <2> HIDE DEF s
  <2>5. s = p
    BY <1>1, <2>1, <2>3
  <2> QED BY <2>1, <2>4, <2>5
<1> QED BY <1>1, <1>2, <1>3, <1>4

\* What the new nodes, the cache and the files of the nodes are
LEMMA Made ==
  ASSUME Inv, NEW S \in SUBSET Paths, NEW f \in Allocations(S)
  PROVE  /\ WithNodes(f) \in [Nodes -> NodeTypes] /\ Placed(f) \in [Nodes -> Paths \cup {None}]
         /\ Unmoved(f) \in SUBSET Nodes /\ Cached(f) \in [Paths -> Nodes \cup {None}]
         /\ \A p \in S : /\ f[p] \in Nodes /\ Cached(f)[p] = f[p] /\ WithNodes(f)[f[p]] = Node(p)
                         /\ Placed(f)[f[p]] = IF p \in hdfs THEN p ELSE None
         /\ \A p \in Paths \ S : /\ Cached(f)[p] = Entries[p]
                                 /\ Entries[p] # None => /\ WithNodes(f)[Entries[p]] = node[Entries[p]]
                                                         /\ Placed(f)[Entries[p]] = at[Entries[p]]
                                                         /\ Entries[p] \in Unmoved(f) <=> Entries[p] \in moved
<1>1. StateTyped /\ NodesTyped
  BY TypeParts DEF Inv
<1>2. /\ f \in [S -> Nodes] /\ DOMAIN f = S
      /\ \A p \in S : \A q \in Paths \ S : f[p] # Entries[q]
      /\ Range(f) \subseteq Nodes
      /\ \A p \in S : f[p] \in Range(f) /\ AntiFunction(f)[f[p]] = p
      /\ \A x \in Range(f) : \E p \in S : x = f[p]
  BY Allocating
<1>3. \A p \in Paths : Node(p) \in NodeTypes
  BY PathFacts DEF Node, NodeTypes
<1>4. \A x \in Range(f) : AntiFunction(f)[x] \in S
  BY <1>2
<1>5. WithNodes(f) \in [Nodes -> NodeTypes]
  BY <1>1, <1>3, <1>4 DEF WithNodes, NodesTyped
<1>6. Placed(f) \in [Nodes -> Paths \cup {None}]
  BY <1>1, <1>4 DEF Placed, NodesTyped
<1>7. Unmoved(f) \in SUBSET Nodes
  BY <1>1 DEF Unmoved, NodesTyped
<1>8. Cached(f) \in [Paths -> Nodes \cup {None}]
  BY <1>1, <1>2 DEF Cached, StateTyped
<1>9. ASSUME NEW p \in S
      PROVE  /\ f[p] \in Nodes /\ Cached(f)[p] = f[p] /\ WithNodes(f)[f[p]] = Node(p)
             /\ Placed(f)[f[p]] = IF p \in hdfs THEN p ELSE None
  <2>1. f[p] \in Nodes /\ Cached(f)[p] = f[p]
    BY <1>2 DEF Cached
  <2>2. WithNodes(f)[f[p]] = Node(p)
    BY <1>2, <2>1 DEF WithNodes
  <2>3. Placed(f)[f[p]] = IF p \in hdfs THEN p ELSE None
    BY <1>2, <2>1 DEF Placed
  <2> QED BY <2>1, <2>2, <2>3
<1>10. ASSUME NEW p \in Paths \ S
       PROVE  /\ Cached(f)[p] = Entries[p]
              /\ Entries[p] # None => /\ WithNodes(f)[Entries[p]] = node[Entries[p]]
                                      /\ Placed(f)[Entries[p]] = at[Entries[p]]
                                      /\ Entries[p] \in Unmoved(f) <=> Entries[p] \in moved
  <2>1. Cached(f)[p] = Entries[p]
    BY <1>2 DEF Cached
  <2>2. Entries[p] \notin Range(f) /\ (Entries[p] # None => Entries[p] \in Nodes)
    BY <1>1, <1>2, EntryTypes
  <2> QED BY <2>1, <2>2 DEF WithNodes, Placed, Unmoved
<1> QED BY <1>5, <1>6, <1>7, <1>8, <1>9, <1>10

\* New nodes have the names under which they are cached, and the others keep theirs.
LEMMA NamedMade ==
  ASSUME Inv, NEW S \in SUBSET Paths, NEW f \in Allocations(S), NEW places \in [Nodes -> Paths \cup {None}],
         NodesAndMoves(WithNodes(f), places, Unmoved(f)), Entries' = Cached(f)
  PROVE  EntriesNamed'
<1>1. /\ WithNodes(f) \in [Nodes -> NodeTypes] /\ Unmoved(f) \in SUBSET Nodes
      /\ Cached(f) \in [Paths -> Nodes \cup {None}]
      /\ \A p \in S : /\ f[p] \in Nodes /\ Cached(f)[p] = f[p] /\ WithNodes(f)[f[p]] = Node(p)
      /\ \A p \in Paths \ S : /\ Cached(f)[p] = Entries[p]
                              /\ Entries[p] # None => /\ WithNodes(f)[Entries[p]] = node[Entries[p]]
                                                      /\ Entries[p] \in Unmoved(f) <=> Entries[p] \in moved
  BY Made
<1>2. \A x \in Referenced' : node'[x] = WithNodes(f)[x] /\ (x \in moved' <=> x \in Unmoved(f))
  BY <1>1, NodesKept
<1>3. \A p \in Paths : Entries'[p] # None => Entries'[p] \in Referenced'
  BY <1>1, CachedIsReferenced
<1>4. EntriesNamed
  BY DEF Inv
<1>5. ASSUME NEW p \in S
      PROVE  node'[Entries'[p]].Name = p[2] /\ node'[Entries'[p]].Parent = p[1]
  <2>1. Entries'[p] = f[p] /\ f[p] # None
    BY <1>1, PathFacts
  <2>2. node'[f[p]] = Node(p)
    BY <1>1, <1>2, <1>3, <2>1
  <2> QED BY <2>1, <2>2 DEF Node
<1>6. ASSUME NEW p \in Paths \ S, Entries'[p] # None
      PROVE  /\ node'[Entries'[p]].Name = p[2]
             /\ node'[Entries'[p]].Parent = p[1] \/ Entries'[p] \in moved'
  <2>1. Entries'[p] = Entries[p] /\ Entries[p] # None
    BY <1>1, <1>6
  <2>2. node'[Entries[p]] = node[Entries[p]] /\ (Entries[p] \in moved' <=> Entries[p] \in moved)
    BY <1>1, <1>2, <1>3, <1>6, <2>1
  <2> QED BY <1>4, <2>1, <2>2 DEF EntriesNamed, AbsolutePath
<1>7. ASSUME NEW p \in Paths, NEW q \in Paths, Entries'[p] # None, Entries'[q] = Entries'[p]
      PROVE  q = p
  <2>1. /\ \A r, x \in S : f[r] = f[x] => r = x
        /\ \A r \in S : \A x \in Paths \ S : f[r] # Entries[x]
    BY Allocating
  <2>2. /\ \A r \in S : Entries'[r] = f[r]
        /\ \A r \in Paths \ S : Entries'[r] = Entries[r]
    BY <1>1
  <2>3. CASE p \in S /\ q \in S
    BY <1>7, <2>1, <2>2, <2>3
  <2>4. CASE p \notin S /\ q \notin S
    BY <1>4, <1>7, <2>2, <2>4 DEF EntriesNamed
  <2>5. CASE p \in S /\ q \notin S
    BY <1>7, <2>1, <2>2, <2>5
  <2>6. CASE p \notin S /\ q \in S
    BY <1>7, <2>1, <2>2, <2>6
  <2> QED BY <2>3, <2>4, <2>5, <2>6
<1>8. \A p \in Paths : Entries'[p] # None =>
        /\ node'[Entries'[p]].Name = p[2]
        /\ node'[Entries'[p]].Parent = p[1] \/ Entries'[p] \in moved'
  BY <1>5, <1>6
<1> QED BY <1>7, <1>8 DEF EntriesNamed, AbsolutePath

\* Dir.Create makes a node, and nobody else gets in its way.
LEMMA CreateStep ==
  ASSUME Inv, NEW t \in Threads, NEW p \in Paths, Create(t, p)
  PROVE  Inv'
<1>1. PICK f \in Allocations({p}) :
        /\ Accept(t, [Request("create", p, NoPath) EXCEPT !.node = f[p]], "createRemove")
        /\ Entries' = Cached(f) /\ UNCHANGED <<hdfs, faults, opened, doubted>>
        /\ NodesAndMoves(WithNodes(f), at, Unmoved(f))
  BY DEF Create
<1>2. StateTyped /\ NodesTyped /\ ThreadsTyped /\ Shaped(t)
  BY TypeParts DEF Inv
<1>3. {p} \in SUBSET Paths
  OBVIOUS
<1>4. /\ WithNodes(f) \in [Nodes -> NodeTypes] /\ Unmoved(f) \in SUBSET Nodes
      /\ Cached(f) \in [Paths -> Nodes \cup {None}]
      /\ f[p] \in Nodes /\ Cached(f)[p] = f[p]
      /\ \A q \in Paths \ {p} : Cached(f)[q] = Entries[q]
  BY <1>3, Made
<1> DEFINE c == [Request("create", p, NoPath) EXCEPT !.node = f[p]]
<1>5. /\ c \in Requests /\ c.op = "create" /\ c.path = p /\ c.to = NoPath /\ c.node = f[p]
      /\ c.reply = {} /\ c.attempt = 1 /\ c.effects = 0
  <2> DEFINE r == Request("create", p, NoPath)
  <2>1. /\ r \in Requests /\ r.op = "create" /\ r.path = p /\ r.to = NoPath
        /\ r.reply = {} /\ r.attempt = 1 /\ r.effects = 0
    BY RequestMade
  <2> HIDE DEF r
  <2>2. c = [r EXCEPT !.node = f[p]]
    BY DEF r
  <2> HIDE DEF c
  <2> QED BY <1>4, <2>1, <2>2 DEF Requests
<1>6. Admissible(t, c) /\ pc[t] = "idle" /\ Goto(t, "createRemove") /\ call' = [call EXCEPT ![t] = c]
  BY <1>1 DEF Accept, Admissible
<1> HIDE DEF c
<1>7. /\ pc' \in [Threads -> Pcs] /\ pc'[t] = "createRemove" /\ \A u \in Threads : u # t => pc'[u] = pc[u]
  BY <1>2, <1>6, Going DEF Pcs
<1>8. call' \in [Threads -> Requests] /\ call'[t] = c /\ \A u \in Threads : u # t => call'[u] = call[u]
  BY <1>2, <1>5, <1>6, Calling
<1>9. at \in [Nodes -> Paths \cup {None}]
  BY <1>2 DEF NodesTyped
<1>10. NodesTyped' /\ \A x \in Referenced' : at'[x] = at[x]
  BY <1>1, <1>4, <1>9, NodesKept
<1>11. TypeOK'
  BY <1>1, <1>2, <1>4, <1>7, <1>8, <1>10, TypePartsNext DEF StateTyped, ThreadsTyped
<1>12. EntriesNamed'
  BY <1>1, <1>3, <1>9, NamedMade
<1>13. Outside({p})
  <2>1. \A q \in Paths \ {p} : Entries'[q] = Entries[q] /\ (Entries[q] # None => at'[Entries[q]] = at[Entries[q]])
    BY <1>1, <1>2, <1>4, <1>10, CachedIsReferenced, EntryTypes
  <2>2. faults \in Nat
    BY <1>2, Constants DEF StateTyped
  <2> QED BY <1>1, <2>1, <2>2 DEF Outside
<1>14. Exclusive' /\ Others(t)
  BY <1>5, <1>6, <1>7, <1>8, ExclusiveMade DEF Others
<1>15. PathsOf(c) = {p} /\ p[1] \in DirsOf(c) /\ ~Shared(c.op)
  BY <1>5, PathFacts DEF PathsOf, DirsOf, Shared
<1>16. Shaped(t)'
  BY <1>5, <1>7, <1>8 DEF Shaped, Changes
<1>17. Doing(t)'
  <2>1. Entries'[p] = f[p] /\ f[p] # None
    BY <1>1, <1>4, PathFacts
  <2> QED BY <1>5, <1>7, <1>8, <2>1 DEF Doing, Changes
<1>18. Amid(t, p)'
  BY <1>7, <1>8, <1>15 DEF Amid
<1>19. call[t] = Idle
  BY <1>2, <1>6 DEF Shaped
<1>20. ~Shared(call[t].op) /\ \A q \in Paths : ~Amid(t, q)
  BY <1>19, IdleFacts DEF Amid, Shared
<1> QED BY <1>3, <1>8, <1>11, <1>12, <1>13, <1>14, <1>15, <1>16, <1>17, <1>18, <1>20, StepOf

-----------------------------------------------------------------------------
(* Requests are served *)

\* A path of a request that changes something is that of no other.
LEMMA OwnPaths ==
  ASSUME Inv, NEW t \in Threads, ~Shared(call[t].op), NEW p \in PathsOf(call[t])
  PROVE  /\ \A u \in Threads : u # t => ~Amid(u, p)
         /\ Entries[p] # None => Sound(p) \/ Amid(t, p)
<1>1. \A u \in Threads : call[u] \in Requests
  BY TypeParts DEF Inv, ThreadsTyped
<1>2. p \in Paths /\ p[1] \in DirsOf(call[t])
  BY <1>1, DirsOfPaths
<1>3. ASSUME NEW u \in Threads, u # t PROVE ~Amid(u, p)
  <2>1. DirsOf(call[t]) \cap DirsOf(call[u]) = {}
    BY <1>3 DEF Inv, Exclusive
  <2>2. p \in PathsOf(call[u]) => p[1] \in DirsOf(call[u])
    BY <1>1, DirsOfPaths
  <2> QED BY <1>2, <2>1, <2>2 DEF Amid
<1> QED BY <1>2, <1>3 DEF Inv, Exact

\* A goroutine finishes.
LEMMA Finishing ==
  ASSUME ThreadsTyped, NEW t \in Threads, Finish(t)
  PROVE  /\ ThreadsTyped' /\ Others(t) /\ pc'[t] = "idle" /\ call'[t] = Idle
         /\ Shaped(t)' /\ Doing(t)' /\ DirsOf(call'[t]) = {}
<1>1. Goto(t, "idle") /\ call' = [call EXCEPT ![t] = Idle]
  BY DEF Finish
<1>2. /\ pc' \in [Threads -> Pcs] /\ pc'[t] = "idle" /\ \A u \in Threads : u # t => pc'[u] = pc[u]
  BY <1>1, Going DEF Pcs
<1>3. call' \in [Threads -> Requests] /\ call'[t] = Idle /\ \A u \in Threads : u # t => call'[u] = call[u]
  BY <1>1, IdleFacts, Calling
<1>4. Shaped(t)' /\ Doing(t)'
  BY <1>2, <1>3, IdleFacts DEF Shaped, Doing, Changes
<1> QED BY <1>2, <1>3, <1>4, IdleFacts DEF ThreadsTyped, Others

\* A lookup or a listing learns what there is, or is answered.
LEMMA QueryStep ==
  ASSUME Inv, NEW t \in Threads, Query(t)
  PROVE  Inv'
<1> DEFINE c == call[t]
           asked == IF c.op = "lookup" THEN {c.path} ELSE {p \in Allowed : InDir(p, c.path[1])}
           d == [c EXCEPT !.reply = asked \cap hdfs]
<1>1. /\ UNCHANGED <<hdfs, node, Entries, opened, at, doubted, moved>> /\ (Succeeds \/ Fails)
      /\ pc[t] = "query"
      /\ Finish(t) \/ (Goto(t, "update") /\ call' = [call EXCEPT ![t].reply = asked \cap hdfs])
  BY DEF Query
<1>2. StateTyped /\ NodesTyped /\ ThreadsTyped /\ Shaped(t) /\ c \in Requests
  BY TypeParts DEF Inv, ThreadsTyped
<1>3. Shared(c.op) /\ (c.op = "lookup" => c.path \in Paths)
  BY <1>1, <1>2 DEF Shaped
<1>4. faults \in Nat /\ faults' \in Nat /\ faults' \in 0..MaxFaults /\ faults' >= faults
  BY <1>1, <1>2, FaultFacts
<1>5. asked \subseteq Paths /\ \A p \in asked : p[1] = c.path[1]
  BY <1>3, PathsAssumption DEF InDir
<1>6. /\ d \in Requests /\ d.op = c.op /\ d.path = c.path /\ d.to = c.to
      /\ d.reply = asked \cap hdfs
  <2> DEFINE r == asked \cap hdfs
  <2>1. r \subseteq Paths
    BY <1>5
  <2> HIDE DEF asked, r
  <2>2. /\ [c EXCEPT !.reply = r] \in Requests /\ [c EXCEPT !.reply = r].op = c.op
        /\ [c EXCEPT !.reply = r].path = c.path /\ [c EXCEPT !.reply = r].to = c.to
        /\ [c EXCEPT !.reply = r].reply = r
    BY <1>2, <2>1 DEF Requests
  <2> QED BY <2>2 DEF r
<1> HIDE DEF asked
<1>7. /\ ThreadsTyped' /\ Others(t) /\ Shaped(t)' /\ Doing(t)' /\ Exclusive'
  <2>1. CASE Finish(t)
    BY <1>2, <2>1, Finishing, ExclusiveKept
  <2>2. CASE Goto(t, "update") /\ call' = [call EXCEPT ![t].reply = asked \cap hdfs]
    <3>1. /\ pc' \in [Threads -> Pcs] /\ pc'[t] = "update" /\ \A u \in Threads : u # t => pc'[u] = pc[u]
      BY <1>2, <2>2, Going DEF Pcs
    <3>2. call' = [call EXCEPT ![t] = d]
      BY <2>2
    <3> HIDE DEF d
    <3>3. call' \in [Threads -> Requests] /\ call'[t] = d /\ \A u \in Threads : u # t => call'[u] = call[u]
      BY <1>2, <1>6, <3>2, Calling
    <3>4. Shaped(t)'
      BY <1>2, <1>3, <1>5, <1>6, <3>1, <3>3 DEF Shaped, Shared, Changes
    <3>5. Doing(t)'
      BY <1>1, <1>3, <1>6, <3>1, <3>3 DEF Doing, Shared, Changes
    <3>6. DirsOf(call'[t]) = DirsOf(call[t]) /\ call'[t].op = call[t].op
      BY <1>6, <3>3 DEF DirsOf
    <3> QED BY <3>1, <3>3, <3>4, <3>5, <3>6, ExclusiveKept DEF Others, ThreadsTyped
  <2> QED BY <1>1, <2>1, <2>2
<1>8. TypeOK'
  BY <1>1, <1>2, <1>4, <1>7, TypePartsNext DEF StateTyped, NodesTyped
<1>9. EntriesNamed'
  BY <1>1, <1>8, NamedKept
<1>10. Outside({}) /\ {} \in SUBSET Paths
  BY <1>1, <1>4 DEF Outside
<1>11. \A p \in Paths : ~Amid(t, p)
  BY <1>3 DEF Amid
<1> QED BY <1>1, <1>7, <1>8, <1>9, <1>10, <1>11, StepOf

\* HDFS performs an operation, or does not: what is at its paths, and where the files of
\* the nodes cached are.
LEMMA Performing ==
  ASSUME Inv, NEW t \in Threads, pc[t] = "perform", NEW n \in {0, 1},
         n = 1 => Possible(call[t]), Performed(call[t], n), UNCHANGED Entries
  PROVE  LET c == call[t] IN
         /\ NodesTyped' /\ hdfs' \subseteq Paths
         /\ \A x \in Referenced' : node'[x] = node[x] /\ (x \in moved' <=> x \in moved)
         /\ \A p \in Paths \ PathsOf(c) : p \in hdfs' <=> p \in hdfs
         /\ \A p \in Paths : Entries[p] # None =>
              \A q \in Paths \ PathsOf(c) : at[Entries[p]] = q => at'[Entries[p]] = q
         /\ n = 0 => hdfs' = hdfs /\ \A p \in Paths : Entries[p] # None => at'[Entries[p]] = at[Entries[p]]
         /\ n = 1 => /\ IF c.op = "mkdir" THEN c.path \in hdfs' ELSE c.path \notin hdfs'
                     /\ c.op = "rename" /\ Entries[c.path] # None /\ at[Entries[c.path]] = c.path =>
                          at'[Entries[c.path]] = c.to
<1> DEFINE c == call[t]
           files == IF n = 1 THEN FilesAfter(c) ELSE at
<1>1. StateTyped /\ NodesTyped /\ Shaped(t) /\ c \in Requests
  BY TypeParts DEF Inv, ThreadsTyped
<1>2. /\ c.op \in Changes /\ c.path \in Paths /\ (c.op = "rename" => c.to \in Paths /\ c.to # c.path)
      /\ PathsOf(c) = {c.path, c.to} \cap Paths
  BY <1>1 DEF Shaped, PathsOf
<1>3. /\ hdfs' = (IF n = 1 THEN TreeAfter(c) ELSE hdfs) /\ NodesAre(node, files)
  BY DEF Performed
<1> HIDE DEF c
<1>4. CASE n = 0
  <2>1. hdfs' = hdfs /\ NodesAre(node, at)
    BY <1>3, <1>4
  <2>2. /\ NodesTyped'
        /\ \A x \in Referenced' : node'[x] = node[x] /\ at'[x] = at[x] /\ (x \in moved' <=> x \in moved)
    BY <1>1, <2>1, NodesSame DEF NodesTyped
  <2>3. \A p \in Paths : Entries[p] # None => at'[Entries[p]] = at[Entries[p]]
    BY <1>1, <2>2, CachedIsReferenced, EntryTypes
  <2> QED BY <1>1, <1>4, <2>1, <2>2, <2>3 DEF StateTyped, c
<1>5. CASE n = 1
  <2>1. hdfs' = TreeAfter(c) /\ NodesAre(node, FilesAfter(c))
    BY <1>3, <1>5
  <2>2. /\ FilesAfter(c) \in [Nodes -> Paths \cup {None}]
        /\ \A x \in Nodes : \A q \in Paths \ PathsOf(c) : at[x] = q => FilesAfter(c)[x] = q
        /\ c.op = "rename" => \A x \in Nodes : at[x] = c.path => FilesAfter(c)[x] = c.to
    <3>1. CASE c.op = "mkdir"
      BY <1>1, <1>2, <3>1 DEF FilesAfter, NodesTyped
    <3>2. CASE c.op = "remove"
      <4>1. FilesAfter(c) = Vanished(c.path)
        BY <3>2 DEF FilesAfter
      <4>2. \A x \in Nodes : Vanished(c.path)[x] = IF at[x] = c.path THEN None ELSE at[x]
        BY DEF Vanished
      <4> QED BY <1>1, <1>2, <3>2, <4>1, <4>2, FilesTyped
    <3>3. CASE c.op = "rename"
      <4>1. FilesAfter(c) = Shifted(c.path, c.to)
        BY <3>3 DEF FilesAfter
      <4>2. \A x \in Nodes : Shifted(c.path, c.to)[x] = IF at[x] = c.path THEN c.to ELSE IF at[x] = c.to THEN None ELSE at[x]
        BY DEF Shifted
      <4> QED BY <1>1, <1>2, <3>3, <4>1, <4>2, FilesTyped
    <3> QED BY <1>2, <3>1, <3>2, <3>3 DEF Changes
  <2>3. /\ NodesTyped'
        /\ \A x \in Referenced' : node'[x] = node[x] /\ at'[x] = FilesAfter(c)[x] /\ (x \in moved' <=> x \in moved)
    BY <2>1, <2>2, NodesSame
  <2>4. \A p \in Paths : Entries[p] # None => Entries[p] \in Nodes /\ at'[Entries[p]] = FilesAfter(c)[Entries[p]]
    BY <1>1, <2>3, CachedIsReferenced, EntryTypes
  <2>5. /\ hdfs' \subseteq Paths
        /\ \A p \in Paths \ PathsOf(c) : p \in hdfs' <=> p \in hdfs
        /\ c.op = "mkdir" => c.path \in hdfs'
        /\ c.op # "mkdir" => c.path \notin hdfs'
    <3>1. CASE c.op = "mkdir"
      BY <1>1, <1>2, <2>1, <3>1 DEF TreeAfter, StateTyped
    <3>2. CASE c.op = "remove"
      BY <1>1, <1>2, <2>1, <3>2 DEF TreeAfter, StateTyped
    <3>3. CASE c.op = "rename"
      BY <1>1, <1>2, <2>1, <3>3 DEF TreeAfter, StateTyped
    <3> QED BY <1>2, <3>1, <3>2, <3>3 DEF Changes
  <2>6. (c.op = "mkdir" => c.path \in hdfs') /\ (c.op # "mkdir" => c.path \notin hdfs')
    BY <2>5
  <2>7. ASSUME c.op = "rename", Entries[c.path] # None, at[Entries[c.path]] = c.path
        PROVE  at'[Entries[c.path]] = c.to
    BY <1>2, <2>2, <2>4, <2>7
  <2>8. \A p \in Paths : Entries[p] # None =>
          \A q \in Paths \ PathsOf(c) : at[Entries[p]] = q => at'[Entries[p]] = q
    BY <2>2, <2>4
  <2> QED BY <1>5, <2>3, <2>5, <2>6, <2>7, <2>8 DEF c
<1> QED BY <1>4, <1>5

\* A request of a goroutine that changes something, at its steps in HDFS
LEMMA ChangeFacts ==
  ASSUME Inv, NEW t \in Threads, pc[t] = "perform"
  PROVE  LET c == call[t] IN
         /\ StateTyped /\ NodesTyped /\ ThreadsTyped /\ Shaped(t) /\ Doing(t) /\ c \in Requests
         /\ c.op \in Changes /\ ~Shared(c.op) /\ c.path \in Paths /\ c.path \in PathsOf(c)
         /\ c.op = "rename" => c.to \in PathsOf(c)
         /\ PathsOf(c) \in SUBSET Paths /\ \A p \in PathsOf(c) : p[1] \in DirsOf(c)
         /\ \A p \in PathsOf(c) : Entries[p] # None => Sound(p) \/ c.effects > 0
         /\ c.effects \in Nat /\ c.attempt \in Nat /\ c.effects < c.attempt /\ c.attempt <= MaxAttempts
<1> DEFINE c == call[t]
<1>1. StateTyped /\ NodesTyped /\ ThreadsTyped /\ Shaped(t) /\ Doing(t) /\ c \in Requests
  BY TypeParts DEF Inv, ThreadsTyped
<1>2. /\ c.op \in Changes /\ ~Shared(c.op) /\ c.path \in Paths /\ (c.op = "rename" => c.to \in Paths)
      /\ c.effects < c.attempt
  BY <1>1 DEF Shaped, Shared, Changes
<1>3. /\ c.path \in PathsOf(c) /\ (c.op = "rename" => c.to \in PathsOf(c))
      /\ PathsOf(c) \in SUBSET Paths
  BY <1>2 DEF PathsOf
<1>4. \A p \in PathsOf(c) : p[1] \in DirsOf(c)
  BY <1>1, DirsOfPaths
<1>5. \A p \in PathsOf(c) : Entries[p] # None => Sound(p) \/ c.effects > 0
  BY <1>2, OwnPaths DEF Amid
<1>6. c.effects \in Nat /\ c.attempt \in Nat /\ c.attempt <= MaxAttempts
  BY <1>1, RequestTypes, Constants
<1> QED BY <1>1, <1>2, <1>3, <1>4, <1>5, <1>6

\* An attempt that has taken effect, and the next one
LEMMA AttemptFacts ==
  ASSUME NEW c \in Requests, c.effects < c.attempt, NEW n \in {0, 1}
  PROVE  LET d == Effected(c, n)
             e == Again(d) IN
         /\ d \in Requests /\ d.op = c.op /\ d.path = c.path /\ d.to = c.to /\ d.reply = c.reply
         /\ d.effects = c.effects + n /\ PathsOf(d) = PathsOf(c) /\ DirsOf(d) = DirsOf(c)
         /\ e.op = c.op /\ e.path = c.path /\ e.to = c.to /\ e.reply = c.reply
         /\ e.effects = c.effects + n /\ e.attempt = c.attempt + 1
         /\ PathsOf(e) = PathsOf(c) /\ DirsOf(e) = DirsOf(c)
         /\ ShouldRetry(c.attempt) => e \in Requests
<1> DEFINE d == Effected(c, n)
           e == Again(d)
<1>1. c.effects \in Nat /\ c.attempt \in Nat /\ c.attempt \in 1..MaxAttempts /\ MaxAttempts \in Nat
  BY RequestTypes, Constants
<1>2. c.effects + n \in 0..MaxAttempts
  BY <1>1
<1>3. d = [c EXCEPT !.effects = c.effects + n]
  BY DEF Effected, Requests
<1>4. /\ d \in Requests /\ d.op = c.op /\ d.path = c.path /\ d.to = c.to /\ d.reply = c.reply
      /\ d.attempt = c.attempt /\ d.effects = c.effects + n
  <2> HIDE DEF d
  <2> QED BY <1>2, <1>3 DEF Requests
<1> HIDE DEF d
<1>5. e = [d EXCEPT !.attempt = d.attempt + 1]
  BY <1>4 DEF Again, Requests
<1>6. /\ e.op = d.op /\ e.path = d.path /\ e.to = d.to /\ e.reply = d.reply
      /\ e.effects = d.effects /\ e.attempt = d.attempt + 1
      /\ d.attempt + 1 \in 1..MaxAttempts => e \in Requests
  <2> HIDE DEF e
  <2> QED BY <1>4, <1>5 DEF Requests
<1>7. ShouldRetry(c.attempt) => c.attempt + 1 \in 1..MaxAttempts
  BY <1>1 DEF ShouldRetry
<1> HIDE DEF e
<1>8. PathsOf(d) = PathsOf(c) /\ DirsOf(d) = DirsOf(c) /\ PathsOf(e) = PathsOf(c) /\ DirsOf(e) = DirsOf(c)
  BY <1>4, <1>6 DEF PathsOf, DirsOf
<1> QED BY <1>4, <1>6, <1>7, <1>8 DEF d, e

\* A request is answered when the nodes cached for its paths are those of the files
\* there, or somebody was told of an error.
LEMMA Answered ==
  ASSUME Inv, TypeOK', EntriesNamed', NEW t \in Threads, Finish(t),
         NEW T \in SUBSET Paths, Outside(T),
         Shared(call[t].op) \/ PathsOf(call[t]) \subseteq T,
         \A p \in T : p[1] \in DirsOf(call[t]),
         ~Shared(call[t].op) \/ UNCHANGED <<hdfs, doubted>>,
         \A p \in T : Entries'[p] # None => Sound(p)'
  PROVE  Inv'
<1>1. Others(t) /\ Shaped(t)' /\ Doing(t)' /\ DirsOf(call'[t]) = {}
  BY TypeParts, Finishing DEF Inv
<1>2. Exclusive'
  BY <1>1, ExclusiveKept
<1>3. \A p \in Paths \ T : ~Amid(t, p)
  BY DEF Amid
<1> QED BY <1>1, <1>2, <1>3, StepOf

\* An operation fails: what it may have changed is doubted.
LEMMA PerformFails ==
  ASSUME Inv, NEW t \in Threads, pc[t] = "perform", NEW n \in {0, 1}, n = 1 => Possible(call[t]),
         Performed(call[t], n), UNCHANGED <<Entries, opened>>, Succeeds \/ Fails, Finish(t),
         doubted' = IF call[t].effects + n = 0 THEN doubted ELSE doubted \cup PathsOf(call[t])
  PROVE  Inv'
<1> DEFINE c == call[t]
           T == PathsOf(c)
<1>1. /\ StateTyped /\ NodesTyped /\ ThreadsTyped /\ ~Shared(c.op) /\ c.effects \in Nat
      /\ T \in SUBSET Paths /\ \A p \in T : p[1] \in DirsOf(c)
      /\ \A p \in T : Entries[p] # None => Sound(p) \/ c.effects > 0
  BY ChangeFacts
<1>2. /\ NodesTyped' /\ hdfs' \subseteq Paths
      /\ \A x \in Referenced' : node'[x] = node[x] /\ (x \in moved' <=> x \in moved)
      /\ \A p \in Paths \ T : p \in hdfs' <=> p \in hdfs
      /\ \A p \in Paths : Entries[p] # None => \A q \in Paths \ T : at[Entries[p]] = q => at'[Entries[p]] = q
      /\ n = 0 => \A p \in Paths : Entries[p] # None => at'[Entries[p]] = at[Entries[p]]
  BY Performing
<1>3. faults' \in Nat /\ faults' \in 0..MaxFaults /\ faults' >= faults
  BY <1>1, FaultFacts
<1>4. doubted' = (IF c.effects + n = 0 THEN doubted ELSE doubted \cup T)
  OBVIOUS
<1>5. ThreadsTyped'
  BY <1>1, Finishing
<1> HIDE DEF c, T
<1>6. doubted' \subseteq Paths
  BY <1>1, <1>4 DEF StateTyped
<1>7. TypeOK'
  BY <1>1, <1>2, <1>3, <1>5, <1>6, TypePartsNext DEF StateTyped
<1>8. EntriesNamed'
  BY <1>2, <1>7, NamedKept
<1>9. Outside(T)
  <2>1. \A p \in Paths : p \in doubted => p \in doubted'
    BY <1>4
  <2> QED BY <1>2, <1>3, <2>1 DEF Outside
<1>10. ASSUME NEW p \in T, Entries'[p] # None PROVE Sound(p)'
  <2>1. CASE c.effects + n = 0
    <3>1. n = 0 /\ ~(c.effects > 0)
      BY <1>1, <2>1
    <3> QED BY <1>1, <1>2, <1>4, <1>10, <2>1, <3>1 DEF Sound
  <2>2. CASE c.effects + n # 0
    BY <1>4, <2>2 DEF Sound
  <2> QED BY <2>1, <2>2
<1> QED BY <1>1, <1>7, <1>8, <1>9, <1>10, Answered DEF c, T

\* An attempt fails, and is made again: it may have taken effect.
LEMMA PerformAgain ==
  ASSUME Inv, NEW t \in Threads, pc[t] = "perform", NEW n \in {0, 1}, n = 1 => Possible(call[t]),
         Performed(call[t], n), UNCHANGED <<Entries, opened, pc, doubted>>, Fails,
         ShouldRetry(call[t].attempt), call' = [call EXCEPT ![t] = Again(Effected(call[t], n))]
  PROVE  Inv'
<1> DEFINE c == call[t]
           T == PathsOf(c)
           d == Again(Effected(c, n))
<1>1. /\ StateTyped /\ NodesTyped /\ ThreadsTyped /\ ~Shared(c.op) /\ c.effects \in Nat /\ c.attempt \in Nat
      /\ T \in SUBSET Paths /\ \A p \in T : p[1] \in DirsOf(c)
      /\ \A p \in T : Entries[p] # None => Sound(p) \/ c.effects > 0
      /\ c.op \in Changes /\ c.path \in Paths /\ c.effects < c.attempt
      /\ Shaped(t) /\ Doing(t) /\ c \in Requests
  BY ChangeFacts
<1>2. /\ NodesTyped' /\ hdfs' \subseteq Paths
      /\ \A x \in Referenced' : node'[x] = node[x] /\ (x \in moved' <=> x \in moved)
      /\ \A p \in Paths \ T : p \in hdfs' <=> p \in hdfs
      /\ \A p \in Paths : Entries[p] # None => \A q \in Paths \ T : at[Entries[p]] = q => at'[Entries[p]] = q
      /\ n = 0 => hdfs' = hdfs /\ \A p \in Paths : Entries[p] # None => at'[Entries[p]] = at[Entries[p]]
      /\ n = 1 => IF c.op = "mkdir" THEN c.path \in hdfs' ELSE c.path \notin hdfs'
  BY Performing
<1>3. faults \in Nat /\ faults' \in Nat /\ faults' \in 0..MaxFaults /\ faults' >= faults /\ faults' > faults
  BY <1>1, FaultFacts
<1>4. /\ d \in Requests /\ d.op = c.op /\ d.path = c.path /\ d.to = c.to /\ d.reply = c.reply
      /\ d.effects = c.effects + n /\ d.attempt = c.attempt + 1 /\ PathsOf(d) = T /\ DirsOf(d) = DirsOf(c)
  BY <1>1, AttemptFacts
<1>5. call' = [call EXCEPT ![t] = d] /\ (n = 1 => Possible(c))
  OBVIOUS
<1> HIDE DEF c, T, d
<1>6. call' \in [Threads -> Requests] /\ call'[t] = d /\ \A u \in Threads : u # t => call'[u] = call[u]
  BY <1>1, <1>4, <1>5, Calling
<1>7. TypeOK'
  BY <1>1, <1>2, <1>3, <1>6, TypePartsNext DEF StateTyped, ThreadsTyped
<1>8. EntriesNamed'
  BY <1>2, <1>7, NamedKept
<1>9. Outside(T)
  BY <1>2, <1>3 DEF Outside
<1>10. Others(t) /\ Exclusive'
  <2>1. Others(t)
    BY <1>6 DEF Others
  <2> QED BY <1>4, <1>6, <2>1, ExclusiveKept DEF c
<1>11. Shaped(t)'
  <2>1. d.effects < d.attempt
    BY <1>1, <1>4
  <2> QED BY <1>1, <1>4, <1>6, <2>1 DEF Shaped, Changes, c
<1>12. ASSUME d.effects > 0
       PROVE  /\ faults' > 0
              /\ \/ IF d.op = "mkdir" THEN d.path \in hdfs' ELSE d.path \notin hdfs'
                 \/ faults' > 1 /\ d.path \in doubted'
  <2>1. faults' > 0
    BY <1>3
  <2>2. CASE n = 1
    BY <1>2, <1>4, <2>1, <2>2
  <2>3. CASE n = 0
    <3>1. c.effects > 0
      BY <1>1, <1>4, <1>12, <2>3
    <3>2. ~Possible(c) \/ (faults > 1 /\ c.path \in doubted)
      BY <1>1, <3>1 DEF Doing, c
    <3>3. CASE faults > 1 /\ c.path \in doubted
      <4>1. faults' > 1
        BY <1>3, <3>3
      <4> QED BY <1>4, <2>1, <3>3, <4>1
    <3>4. CASE ~Possible(c)
      BY <1>2, <1>4, <2>1, <2>3, <3>4 DEF Possible
    <3> QED BY <3>2, <3>3, <3>4
  <2> QED BY <2>2, <2>3
<1>13. Doing(t)'
  <2>1. pc'[t] = "perform" /\ d.op \in Changes /\ d.path = c.path
    BY <1>1, <1>4
  <2>2. d.op = "rename" => Entries'[d.path] # None
    BY <1>1, <2>1, <1>4 DEF Doing, c
  <2> QED BY <1>6, <1>12, <2>1, <2>2 DEF Doing, Possible, Changes
<1>14. \A p \in Paths \ T : ~Amid(t, p)
  BY DEF Amid, T, c
<1>15. ASSUME NEW p \in T, Entries'[p] # None PROVE Sound(p)' \/ Amid(t, p)'
  <2>1. CASE c.effects + n = 0
    <3>1. n = 0 /\ ~(c.effects > 0)
      BY <1>1, <2>1
    <3> QED BY <1>1, <1>2, <1>15, <2>1, <3>1 DEF Sound
  <2>2. CASE c.effects + n > 0
    BY <1>1, <1>4, <1>6, <2>2 DEF Amid
  <2>3. c.effects + n \in Nat
    BY <1>1
  <2> QED BY <2>1, <2>2, <2>3
<1> QED BY <1>1, <1>7, <1>8, <1>9, <1>10, <1>11, <1>13, <1>14, <1>15, StepOf DEF c, T

\* An operation is performed: the nodes are changed next.
LEMMA PerformSucceeds ==
  ASSUME Inv, NEW t \in Threads, pc[t] = "perform", Possible(call[t]), Succeeds,
         Performed(call[t], 1), UNCHANGED <<Entries, opened>>, Goto(t, "update"),
         call' = [call EXCEPT ![t] = Effected(call[t], 1)],
         doubted' = (doubted \ PathsOf(call[t]))
                      \cup (IF call[t].path \in doubted THEN {call[t].to} \cap Paths ELSE {})
  PROVE  Inv'
<1> DEFINE c == call[t]
           T == PathsOf(c)
           d == Effected(c, 1)
<1>1. /\ StateTyped /\ NodesTyped /\ ThreadsTyped /\ ~Shared(c.op) /\ c.effects \in Nat
      /\ T \in SUBSET Paths /\ \A p \in T : p[1] \in DirsOf(c)
      /\ \A p \in T : Entries[p] # None => Sound(p) \/ c.effects > 0
      /\ c.op \in Changes /\ c.path \in Paths /\ c.path \in T /\ c.effects < c.attempt
      /\ Shaped(t) /\ Doing(t) /\ c \in Requests
  BY ChangeFacts
<1>2. /\ NodesTyped' /\ hdfs' \subseteq Paths
      /\ \A x \in Referenced' : node'[x] = node[x] /\ (x \in moved' <=> x \in moved)
      /\ \A p \in Paths \ T : p \in hdfs' <=> p \in hdfs
      /\ \A p \in Paths : Entries[p] # None => \A q \in Paths \ T : at[Entries[p]] = q => at'[Entries[p]] = q
      /\ IF c.op = "mkdir" THEN c.path \in hdfs' ELSE c.path \notin hdfs'
      /\ c.op = "rename" /\ Entries[c.path] # None /\ at[Entries[c.path]] = c.path =>
           at'[Entries[c.path]] = c.to
  BY Performing
<1>3. faults' = faults /\ faults \in Nat /\ faults \in 0..MaxFaults /\ faults' >= faults
  BY <1>1, FaultFacts DEF Succeeds, StateTyped
<1>4. /\ d \in Requests /\ d.op = c.op /\ d.path = c.path /\ d.to = c.to /\ d.reply = c.reply
      /\ d.effects = c.effects + 1 /\ PathsOf(d) = T /\ DirsOf(d) = DirsOf(c)
  BY <1>1, AttemptFacts
<1>5. /\ call' = [call EXCEPT ![t] = d] /\ Possible(c)
      /\ doubted' = (doubted \ T) \cup (IF c.path \in doubted THEN {c.to} \cap Paths ELSE {})
  OBVIOUS
<1> HIDE DEF c, T, d
<1>6. call' \in [Threads -> Requests] /\ call'[t] = d /\ \A u \in Threads : u # t => call'[u] = call[u]
  BY <1>1, <1>4, <1>5, Calling
<1>7. pc' \in [Threads -> Pcs] /\ pc'[t] = "update" /\ \A u \in Threads : u # t => pc'[u] = pc[u]
  BY <1>1, Going DEF Pcs
<1>8. doubted' \subseteq Paths
  BY <1>1, <1>5 DEF StateTyped
<1>9. TypeOK'
  BY <1>1, <1>2, <1>3, <1>6, <1>7, <1>8, TypePartsNext DEF StateTyped, ThreadsTyped
<1>10. EntriesNamed'
  BY <1>2, <1>9, NamedKept
<1>11. Outside(T)
  <2>1. \A p \in Paths \ T : p \in doubted => p \in doubted'
    BY <1>5
  <2> QED BY <1>2, <1>3, <2>1 DEF Outside
<1>12. Others(t) /\ Exclusive'
  <2>1. Others(t)
    BY <1>6, <1>7 DEF Others
  <2> QED BY <1>4, <1>6, <2>1, ExclusiveKept DEF c
<1>13. Shaped(t)'
  BY <1>1, <1>4, <1>6, <1>7 DEF Shaped, Changes, Shared, c
<1>14. d.effects > 0 /\ (d.effects > 1 => faults' > 1)
  <2>1. d.effects > 1 => c.effects > 0
    BY <1>1, <1>4
  <2>2. c.effects > 0 => faults > 1
    BY <1>1, <1>5 DEF Doing, c
  <2>3. d.effects > 0
    BY <1>1, <1>4
  <2> QED BY <1>3, <2>1, <2>2, <2>3
<1>15. ASSUME c.op = "rename"
       PROVE  /\ Entries'[c.path] # None
              /\ at'[Entries'[c.path]] = c.to \/ c.to \in doubted'
  <2>1. Entries'[c.path] = Entries[c.path] /\ Entries[c.path] # None
    BY <1>1, <1>15 DEF Doing, c
  <2>2. c.to \in Paths
    BY <1>1, <1>15 DEF Shaped, c
  <2>3. CASE c.path \in doubted
    <3>1. doubted' = (doubted \ T) \cup ({c.to} \cap Paths)
      BY <1>5, <2>3
    <3>2. c.to \in doubted'
      BY <2>2, <3>1
    <3> QED BY <2>1, <3>2
  <2>4. CASE c.path \notin doubted
    <3>1. ~(c.effects > 0)
      BY <1>1, <1>5, <2>4 DEF Doing, c
    <3>2. at[Entries[c.path]] = c.path
      BY <1>1, <2>1, <2>4, <3>1 DEF Sound
    <3> QED BY <1>2, <1>15, <2>1, <3>2
  <2> QED BY <2>1, <2>3, <2>4
<1>16. Doing(t)'
  <2>1. c.op = "mkdir" => c.path \in hdfs' \cup doubted'
    BY <1>2
  <2> QED BY <1>1, <1>4, <1>6, <1>7, <1>14, <1>15, <2>1 DEF Doing, Changes, Shared
<1>17. \A p \in Paths \ T : ~Amid(t, p)
  BY DEF Amid, T, c
<1>18. \A p \in T : Amid(t, p)'
  BY <1>1, <1>4, <1>6, <1>7 DEF Amid
<1> QED BY <1>1, <1>9, <1>10, <1>11, <1>12, <1>13, <1>16, <1>17, <1>18, StepOf DEF c, T

\* An attempt of Mkdir, Remove or Rename
LEMMA PerformStep ==
  ASSUME Inv, NEW t \in Threads, Perform(t)
  PROVE  Inv'
<1> DEFINE c == call[t]
<1>1. pc[t] = "perform" /\ UNCHANGED <<Entries, opened>>
  BY DEF Perform
<1>2. c \in Requests /\ c.effects < c.attempt /\ c.effects \in Nat
  BY <1>1, ChangeFacts
<1>3. CASE Possible(c) /\ Succeeds /\ Returns(t, "none", Effected(c, 1)) /\ Performed(c, 1)
  <2>1. PathsOf(Effected(c, 1)) = PathsOf(c) /\ Effected(c, 1).path = c.path /\ Effected(c, 1).to = c.to
    BY <1>2, AttemptFacts
  <2>2. /\ Goto(t, "update") /\ call' = [call EXCEPT ![t] = Effected(c, 1)]
        /\ doubted' = (doubted \ PathsOf(c)) \cup (IF c.path \in doubted THEN {c.to} \cap Paths ELSE {})
    BY <1>3, <2>1 DEF Returns, Succeeded
  <2> QED BY <1>1, <1>3, <2>2, PerformSucceeds
<1>4. CASE Refusable(c) /\ Succeeds /\ Returns(t, "benign", c) /\ Performed(c, 0)
  <2>1. Finish(t) /\ doubted' = (IF c.effects = 0 THEN doubted ELSE doubted \cup PathsOf(c))
    BY <1>4 DEF Returns, Succeeded
  <2>2. doubted' = IF c.effects + 0 = 0 THEN doubted ELSE doubted \cup PathsOf(c)
    BY <1>2, <2>1
  <2> HIDE DEF c
  <2>3. 0 \in {0, 1} /\ ~(0 = 1)
    OBVIOUS
  <2> QED BY <1>1, <1>4, <2>1, <2>2, <2>3, PerformFails DEF c
<1>5. ASSUME NEW n \in {0, 1}, n = 1 => Possible(c), Fails, Performed(c, n),
             IF ShouldRetry(c.attempt)
             THEN call' = [call EXCEPT ![t] = Again(Effected(c, n))] /\ UNCHANGED <<pc, doubted>>
             ELSE Returns(t, "other", Effected(c, n))
      PROVE  Inv'
  <2>1. CASE ShouldRetry(c.attempt)
    <3>1. /\ call' = [call EXCEPT ![t] = Again(Effected(c, n))]
          /\ UNCHANGED <<Entries, opened, pc, doubted>>
      BY <1>1, <1>5, <2>1
    <3> QED BY <1>1, <1>5, <2>1, <3>1, PerformAgain
  <2>2. CASE ~ShouldRetry(c.attempt)
    <3>1. PathsOf(Effected(c, n)) = PathsOf(c) /\ Effected(c, n).effects = c.effects + n
      BY <1>2, AttemptFacts
    <3>2. /\ Finish(t)
          /\ doubted' = IF c.effects + n = 0 THEN doubted ELSE doubted \cup PathsOf(c)
      BY <1>5, <2>2, <3>1 DEF Returns, Succeeded
    <3> QED BY <1>1, <1>5, <3>2, PerformFails
  <2> QED BY <2>1, <2>2
<1> QED BY <1>3, <1>4, <1>5 DEF Perform

\* A request that creates a file
LEMMA CreateFacts ==
  ASSUME Inv, NEW t \in Threads, pc[t] \in {"createRemove", "createFile"}
  PROVE  LET c == call[t] IN
         /\ StateTyped /\ NodesTyped /\ ThreadsTyped /\ Shaped(t) /\ Doing(t) /\ c \in Requests
         /\ c.op = "create" /\ ~Shared(c.op) /\ c.path \in Paths /\ PathsOf(c) = {c.path}
         /\ {c.path} \in SUBSET Paths /\ \A p \in {c.path} : p[1] \in DirsOf(c)
         /\ Entries[c.path] = c.node /\ c.node \in Nodes /\ c.node # None
<1> DEFINE c == call[t]
<1>1. StateTyped /\ NodesTyped /\ ThreadsTyped /\ Shaped(t) /\ Doing(t) /\ c \in Requests
  BY TypeParts DEF Inv, ThreadsTyped
<1>2. c.op = "create" /\ ~Shared(c.op) /\ c.path \in Paths /\ c.to = NoPath
  BY <1>1 DEF Shaped, Shared
<1>3. Entries[c.path] = c.node /\ c.node # None
  BY <1>1, <1>2 DEF Doing
<1>4. c.node \in Nodes
  BY <1>1, <1>3, RequestTypes
<1>5. PathsOf(c) = {c.path}
  BY <1>2, PathFacts DEF PathsOf
<1>6. \A p \in {c.path} : p[1] \in DirsOf(c)
  BY <1>1, <1>5, DirsOfPaths
<1> QED BY <1>1, <1>2, <1>3, <1>4, <1>5, <1>6

\* Create removes the file that is in the way, or fails to.
LEMMA CreateRemoveStep ==
  ASSUME Inv, NEW t \in Threads, CreateRemove(t)
  PROVE  Inv'
<1> DEFINE c == call[t]
           T == {c.path}
<1>1. pc[t] = "createRemove" /\ Goto(t, "createFile") /\ UNCHANGED <<Entries, opened, call, doubted>>
  BY DEF CreateRemove
<1>2. /\ StateTyped /\ NodesTyped /\ ThreadsTyped /\ Shaped(t) /\ Doing(t) /\ c \in Requests
      /\ c.op = "create" /\ ~Shared(c.op) /\ c.path \in Paths /\ PathsOf(c) = T
      /\ T \in SUBSET Paths /\ \A p \in T : p[1] \in DirsOf(c)
  BY <1>1, CreateFacts
<1>3. PICK places \in {at, Vanished(c.path)} :
        /\ Succeeds \/ Fails
        /\ hdfs' \in {hdfs, hdfs \ T} /\ NodesAre(node, places)
  BY DEF CreateRemove
<1> HIDE DEF c, T
<1>4. /\ places \in [Nodes -> Paths \cup {None}]
      /\ \A x \in Nodes : \A q \in Paths \ {c.path} : at[x] = q => places[x] = q
  <2>1. \A x \in Nodes : Vanished(c.path)[x] = IF at[x] = c.path THEN None ELSE at[x]
    BY DEF Vanished
  <2>2. at \in [Nodes -> Paths \cup {None}] /\ Vanished(c.path) \in [Nodes -> Paths \cup {None}]
    BY <1>2, FilesTyped DEF NodesTyped
  <2>3. CASE places = at
    BY <2>2, <2>3
  <2>4. CASE places = Vanished(c.path)
    BY <2>1, <2>2, <2>4
  <2> QED BY <1>3, <2>3, <2>4
<1>5. /\ NodesTyped'
      /\ \A x \in Referenced' : node'[x] = node[x] /\ at'[x] = places[x] /\ (x \in moved' <=> x \in moved)
  BY <1>3, <1>4, NodesSame
<1>6. faults \in Nat /\ faults' \in Nat /\ faults' \in 0..MaxFaults /\ faults' >= faults
  BY <1>2, <1>3, FaultFacts
<1>7. /\ pc' \in [Threads -> Pcs] /\ pc'[t] = "createFile" /\ \A u \in Threads : u # t => pc'[u] = pc[u]
  BY <1>1, <1>2, Going DEF Pcs
<1>8. TypeOK'
  BY <1>1, <1>2, <1>3, <1>5, <1>6, <1>7, TypePartsNext DEF StateTyped, ThreadsTyped
<1>9. EntriesNamed'
  BY <1>1, <1>5, <1>8, NamedKept
<1>10. Outside(T)
  <2>1. \A q \in Paths \ T : q \in hdfs' <=> q \in hdfs
    BY <1>3
  <2>2. \A p \in Paths : Entries[p] # None => Entries[p] \in Nodes /\ at'[Entries[p]] = places[Entries[p]]
    BY <1>1, <1>2, <1>5, CachedIsReferenced, EntryTypes
  <2> QED BY <1>1, <1>4, <1>6, <2>1, <2>2 DEF Outside, T
<1>11. Others(t) /\ call'[t] = c
  BY <1>1, <1>7 DEF Others, c
<1>12. Exclusive'
  BY <1>11, ExclusiveKept DEF c
<1>13. Shaped(t)' /\ Doing(t)'
  <2>1. Shaped(t)'
    BY <1>2, <1>7, <1>11 DEF Shaped, Changes, c
  <2>2. Doing(t)'
    BY <1>1, <1>2, <1>7, <1>11 DEF Doing, Changes, Shared, c
  <2> QED BY <2>1, <2>2
<1>14. \A p \in Paths \ T : ~Amid(t, p)
  BY <1>2 DEF Amid, c
<1>15. \A p \in T : Amid(t, p)'
  BY <1>2, <1>7, <1>11 DEF Amid
<1> QED BY <1>2, <1>8, <1>9, <1>10, <1>11, <1>12, <1>13, <1>14, <1>15, StepOf DEF c, T

\* Create makes the file, or fails to, and is answered.
LEMMA CreateFileStep ==
  ASSUME Inv, NEW t \in Threads, CreateFile(t)
  PROVE  Inv'
<1> DEFINE c == call[t]
           T == {c.path}
           placed == [at EXCEPT ![c.node] = c.path]
<1>1. pc[t] = "createFile" /\ Finish(t) /\ UNCHANGED <<Entries, opened>> /\ (Succeeds \/ Fails)
  BY DEF CreateFile
<1>2. /\ StateTyped /\ NodesTyped /\ ThreadsTyped /\ ~Shared(c.op)
      /\ c.path \in Paths /\ PathsOf(c) = T
      /\ T \in SUBSET Paths /\ \A p \in T : p[1] \in DirsOf(c)
      /\ Entries[c.path] = c.node /\ c.node \in Nodes /\ c.node # None
  BY <1>1, CreateFacts
<1>3. PICK places \in {at, placed} :
        /\ hdfs' \in {hdfs, hdfs \cup T} /\ NodesAre(node, places)
        /\ doubted' = doubted \cup T \/ (doubted' = doubted \ T /\ places = placed)
  BY DEF CreateFile
<1> HIDE DEF c, T
<1>4. /\ placed \in [Nodes -> Paths \cup {None}] /\ at \in [Nodes -> Paths \cup {None}]
      /\ placed[c.node] = c.path /\ \A x \in Nodes : x # c.node => placed[x] = at[x]
  BY <1>2 DEF NodesTyped
<1> HIDE DEF placed
<1>5. /\ NodesTyped'
      /\ \A x \in Referenced' : node'[x] = node[x] /\ at'[x] = places[x] /\ (x \in moved' <=> x \in moved)
  <2>1. places \in [Nodes -> Paths \cup {None}]
    BY <1>3, <1>4
  <2> QED BY <1>3, <2>1, NodesSame
<1>6. faults \in Nat /\ faults' \in Nat /\ faults' \in 0..MaxFaults /\ faults' >= faults
  BY <1>1, <1>2, FaultFacts
<1>7. ThreadsTyped'
  BY <1>1, <1>2, Finishing
<1>8. hdfs' \subseteq Paths /\ doubted' \subseteq Paths
  BY <1>2, <1>3 DEF StateTyped
<1>9. TypeOK'
  BY <1>1, <1>2, <1>5, <1>6, <1>7, <1>8, TypePartsNext DEF StateTyped
<1>10. EntriesNamed'
  BY <1>1, <1>5, <1>9, NamedKept
<1>11. \A p \in Paths : Entries[p] # None => Entries[p] \in Nodes /\ at'[Entries[p]] = places[Entries[p]]
  BY <1>1, <1>2, <1>5, CachedIsReferenced, EntryTypes
<1>12. Outside(T)
  <2>1. \A p \in Paths \ T : (p \in hdfs' <=> p \in hdfs) /\ (p \in doubted => p \in doubted')
    BY <1>3
  <2>2. \A p \in Paths \ T : Entries[p] # None => Entries[p] # c.node
    BY <1>2 DEF Inv, EntriesNamed, T
  <2>3. \A p \in Paths \ T : Entries[p] # None => at'[Entries[p]] = at[Entries[p]]
    BY <1>3, <1>4, <1>11, <2>2
  <2> QED BY <1>1, <1>6, <2>1, <2>3 DEF Outside
<1>13. ASSUME NEW p \in T, Entries'[p] # None PROVE Sound(p)'
  <2>1. p = c.path
    BY DEF T
  <2>2. CASE doubted' = doubted \cup T
    BY <2>2 DEF Sound
  <2>3. CASE places = placed
    BY <1>1, <1>2, <1>4, <1>11, <2>1, <2>3 DEF Sound
  <2> QED BY <1>3, <2>2, <2>3
<1>14. Shared(call[t].op) \/ PathsOf(call[t]) \subseteq T
  BY <1>2 DEF c
<1> QED BY <1>1, <1>2, <1>9, <1>10, <1>12, <1>13, <1>14, Answered DEF c, T

-----------------------------------------------------------------------------
(* The nodes are changed *)

\* A request that is about to change the nodes
LEMMA UpdateFacts ==
  ASSUME Inv, NEW t \in Threads, pc[t] = "update"
  PROVE  LET c == call[t] IN
         /\ StateTyped /\ NodesTyped /\ ThreadsTyped /\ Shaped(t) /\ Doing(t) /\ c \in Requests
         /\ PathsOf(c) \in SUBSET Paths /\ \A p \in PathsOf(c) : p[1] \in DirsOf(c)
         /\ c.op \in Changes => c.path \in Paths /\ ~Shared(c.op)
         /\ c.op \in {"mkdir", "remove"} => PathsOf(c) = {c.path}
         /\ c.op = "rename" => c.to \in Paths /\ c.to # c.path /\ PathsOf(c) = {c.path, c.to}
<1> DEFINE c == call[t]
<1>1. StateTyped /\ NodesTyped /\ ThreadsTyped /\ Shaped(t) /\ Doing(t) /\ c \in Requests
  BY TypeParts DEF Inv, ThreadsTyped
<1>2. c.op \in Changes => c.path \in Paths /\ ~Shared(c.op)
  BY <1>1 DEF Shaped, Shared, Changes
<1>3. c.op \in {"mkdir", "remove"} => c.to = NoPath
  BY <1>1 DEF Shaped
<1>4. c.op \in {"mkdir", "remove"} => PathsOf(c) = {c.path}
  BY <1>2, <1>3, PathFacts DEF PathsOf, Changes
<1>5. c.op = "rename" => c.to \in Paths /\ c.to # c.path
  BY <1>1 DEF Shaped
<1>6. c.op = "rename" => PathsOf(c) = {c.path, c.to}
  BY <1>2, <1>5 DEF PathsOf, Changes
<1>7. PathsOf(c) \in SUBSET Paths /\ \A p \in PathsOf(c) : p[1] \in DirsOf(c)
  BY <1>1, DirsOfPaths DEF PathsOf
<1> QED BY <1>1, <1>2, <1>4, <1>5, <1>6, <1>7

\* Nodes are made for what was listed, looked up or made.
LEMMA UpdateNewStep ==
  ASSUME Inv, NEW t \in Threads, UpdateNew(t)
  PROVE  Inv'
<1> DEFINE c == call[t]
           S == IF c.op = "mkdir" THEN {c.path} ELSE c.reply
<1>1. /\ pc[t] = "update" /\ c.op \in {"mkdir", "lookup", "list"} /\ Finish(t)
      /\ UNCHANGED <<hdfs, faults, opened, doubted>>
  BY DEF UpdateNew
<1>2. PICK f \in Allocations(S) : Entries' = Cached(f) /\ NodesAndMoves(WithNodes(f), Placed(f), Unmoved(f))
  BY DEF UpdateNew
<1>3. /\ StateTyped /\ NodesTyped /\ ThreadsTyped /\ Shaped(t) /\ Doing(t) /\ c \in Requests
      /\ c.op \in Changes => c.path \in Paths
      /\ c.op \in {"mkdir", "remove"} => PathsOf(c) = {c.path}
      /\ \A p \in PathsOf(c) : p[1] \in DirsOf(c)
  BY <1>1, UpdateFacts
<1>4. /\ S \in SUBSET Paths /\ \A p \in S : p[1] \in DirsOf(c) /\ p \in hdfs \cup doubted
      /\ Shared(c.op) \/ PathsOf(c) \subseteq S
  <2>1. CASE c.op = "mkdir"
    <3>1. PathsOf(c) = S /\ c.path \in Paths
      BY <1>3, <2>1 DEF Changes
    <3>2. c.path \in hdfs \cup doubted
      BY <1>1, <1>3, <2>1 DEF Doing
    <3> QED BY <1>3, <2>1, <3>1, <3>2
  <2>2. CASE c.op \in {"lookup", "list"}
    <3>1. S = c.reply /\ Shared(c.op)
      BY <2>2 DEF Shared
    <3>2. c.reply \subseteq Paths
      BY <1>3, RequestTypes
    <3>3. c.reply \subseteq hdfs \cup doubted /\ \A p \in c.reply : p[1] = c.path[1]
      BY <1>1, <1>3, <3>1 DEF Doing, Shaped
    <3>4. \A p \in c.reply : p[1] \in DirsOf(c)
      BY <3>2, <3>3, PathFacts DEF DirsOf
    <3> QED BY <3>1, <3>2, <3>3, <3>4
  <2> QED BY <1>1, <2>1, <2>2
<1> HIDE DEF c, S
<1>5. /\ WithNodes(f) \in [Nodes -> NodeTypes] /\ Placed(f) \in [Nodes -> Paths \cup {None}]
      /\ Unmoved(f) \in SUBSET Nodes /\ Cached(f) \in [Paths -> Nodes \cup {None}]
      /\ \A p \in S : /\ f[p] \in Nodes /\ Cached(f)[p] = f[p]
                      /\ Placed(f)[f[p]] = IF p \in hdfs THEN p ELSE None
      /\ \A p \in Paths \ S : /\ Cached(f)[p] = Entries[p]
                              /\ Entries[p] # None => Placed(f)[Entries[p]] = at[Entries[p]]
  BY <1>4, Made
<1>6. NodesTyped' /\ \A x \in Referenced' : at'[x] = Placed(f)[x]
  BY <1>2, <1>5, NodesKept
<1>7. ThreadsTyped'
  BY <1>1, <1>3, Finishing
<1>8. TypeOK'
  BY <1>1, <1>2, <1>3, <1>5, <1>6, <1>7, TypePartsNext DEF StateTyped
<1>9. EntriesNamed'
  BY <1>2, <1>4, <1>5, NamedMade
<1>10. \A p \in Paths : Entries'[p] # None => at'[Entries'[p]] = Placed(f)[Entries'[p]]
  BY <1>2, <1>5, <1>6, CachedIsReferenced
<1>11. Outside(S)
  <2>1. \A q \in Paths \ S : Entries'[q] = Entries[q] /\ (Entries[q] # None => at'[Entries[q]] = at[Entries[q]])
    BY <1>2, <1>5, <1>10
  <2>2. faults \in Nat
    BY <1>3, Constants DEF StateTyped
  <2> QED BY <1>1, <2>1, <2>2 DEF Outside
<1>12. ASSUME NEW p \in S, Entries'[p] # None PROVE Sound(p)'
  <2>1. Entries'[p] = f[p] /\ p \in Paths
    BY <1>2, <1>4, <1>5
  <2>2. at'[Entries'[p]] = IF p \in hdfs THEN p ELSE None
    BY <1>5, <1>10, <1>12, <2>1
  <2>3. p \in hdfs \cup doubted
    BY <1>4
  <2> QED BY <1>1, <2>2, <2>3 DEF Sound
<1> QED BY <1>1, <1>4, <1>8, <1>9, <1>11, <1>12, Answered DEF c

\* The entry of what was removed is removed.
LEMMA UpdateRemoveStep ==
  ASSUME Inv, NEW t \in Threads, UpdateRemove(t)
  PROVE  Inv'
<1> DEFINE c == call[t]
           T == {c.path}
<1>1. /\ pc[t] = "update" /\ c.op = "remove" /\ Finish(t) /\ Entries' = [Entries EXCEPT ![c.path] = None]
      /\ UNCHANGED <<hdfs, faults, opened, doubted>> /\ NodesAre(node, at)
  BY DEF UpdateRemove, EntriesRemove
<1>2. /\ StateTyped /\ NodesTyped /\ ThreadsTyped
      /\ c.path \in Paths /\ ~Shared(c.op) /\ PathsOf(c) = T
      /\ T \in SUBSET Paths /\ \A p \in T : p[1] \in DirsOf(c)
  BY <1>1, UpdateFacts DEF Changes
<1> HIDE DEF c, T
<1>3. /\ Entries' \in [Paths -> Nodes \cup {None}] /\ Entries'[c.path] = None
      /\ \A p \in Paths : p # c.path => Entries'[p] = Entries[p]
  BY <1>1, <1>2 DEF StateTyped
<1>4. NodesTyped' /\ \A x \in Referenced' : node'[x] = node[x] /\ at'[x] = at[x] /\ (x \in moved' <=> x \in moved)
  BY <1>1, <1>2, NodesSame DEF NodesTyped
<1>5. ThreadsTyped'
  BY <1>1, <1>2, Finishing
<1>6. TypeOK'
  BY <1>1, <1>2, <1>3, <1>4, <1>5, TypePartsNext DEF StateTyped
<1>7. EntriesNamed'
  <2>1. \A p \in Paths : Entries'[p] \in {Entries[p], None}
    BY <1>3
  <2> QED BY <1>4, <1>6, <2>1, NamedKept
<1>8. Outside(T)
  <2>1. ASSUME NEW p \in Paths \ T
        PROVE  Entries'[p] = Entries[p] /\ (Entries[p] # None => at'[Entries[p]] = at[Entries[p]])
    <3>1. Entries'[p] = Entries[p]
      BY <1>3 DEF T
    <3> QED BY <1>2, <1>4, <3>1, CachedIsReferenced, EntryTypes
  <2>2. faults \in Nat
    BY <1>2, Constants DEF StateTyped
  <2> QED BY <1>1, <2>1, <2>2 DEF Outside
<1>9. \A p \in T : Entries'[p] = None
  BY <1>3 DEF T
<1>10. Shared(call[t].op) \/ PathsOf(call[t]) \subseteq T
  BY <1>2 DEF c
<1> QED BY <1>1, <1>2, <1>6, <1>7, <1>8, <1>9, <1>10, Answered DEF c

\* The entry of what was renamed is moved, and the name in the node changed.
LEMMA UpdateRenameStep ==
  ASSUME Inv, NEW t \in Threads, UpdateRename(t)
  PROVE  Inv'
<1> DEFINE c == call[t]
           T == {c.path, c.to}
           x == Entries[c.path]
           renamed == [node EXCEPT ![x] = Renamed(x, c.to)]
           moves == IF c.path[1] = c.to[1] THEN moved ELSE moved \cup {x}
<1>1. /\ pc[t] = "update" /\ c.op = "rename" /\ Finish(t)
      /\ UNCHANGED <<hdfs, faults, opened, doubted>>
  BY DEF UpdateRename
<1>2. /\ StateTyped /\ NodesTyped /\ ThreadsTyped /\ Doing(t)
      /\ c.path \in Paths /\ c.to \in Paths /\ c.to # c.path /\ ~Shared(c.op) /\ PathsOf(c) = T
      /\ T \in SUBSET Paths /\ \A p \in T : p[1] \in DirsOf(c)
  BY <1>1, UpdateFacts DEF Changes
<1>3. x # None /\ x \in Nodes
  BY <1>1, <1>2, EntryTypes DEF Doing
<1>4. Entries' = [EntriesRemove(c.path) EXCEPT ![c.to] = x] /\ NodesAndMoves(renamed, at, moves)
  BY <1>3 DEF UpdateRename
<1>5. at[x] = c.to \/ c.to \in doubted
  BY <1>1, <1>2 DEF Doing
<1>6. /\ x = Entries[c.path]
      /\ c.path[1] # c.to[1] => x \in moves
      /\ \A y \in Nodes : y \in moved => y \in moves
      /\ \A y \in Nodes : y \in moves => y \in moved \/ y = x
  OBVIOUS
<1>7. /\ renamed \in [Nodes -> NodeTypes] /\ moves \in SUBSET Nodes /\ at \in [Nodes -> Paths \cup {None}]
      /\ renamed[x].Name = c.to[2] /\ renamed[x].Parent = node[x].Parent
      /\ \A y \in Nodes : y # x => renamed[y] = node[y]
  <2>1. node[x] \in NodeTypes /\ c.to[2] \in Names
    BY <1>2, <1>3, PathFacts DEF NodesTyped
  <2>2. Renamed(x, c.to) \in NodeTypes /\ Renamed(x, c.to).Name = c.to[2] /\ Renamed(x, c.to).Parent = node[x].Parent
    <3> HIDE DEF c, x
    <3> QED BY <2>1 DEF Renamed, NodeTypes
  <2>3. moves \in SUBSET Nodes
    BY <1>2, <1>3 DEF NodesTyped
  <2> QED BY <1>2, <1>3, <2>2, <2>3 DEF NodesTyped
<1> HIDE DEF c, T, x, renamed, moves
<1>8. /\ Entries' \in [Paths -> Nodes \cup {None}] /\ Entries'[c.path] = None /\ Entries'[c.to] = x
      /\ \A p \in Paths : p # c.path /\ p # c.to => Entries'[p] = Entries[p]
  BY <1>2, <1>3, <1>4 DEF StateTyped, EntriesRemove
<1>9. /\ NodesTyped'
      /\ \A y \in Referenced' : node'[y] = renamed[y] /\ at'[y] = at[y] /\ (y \in moved' <=> y \in moves)
  BY <1>4, <1>7, NodesKept
<1>10. ThreadsTyped'
  BY <1>1, <1>2, Finishing
<1>11. TypeOK'
  BY <1>1, <1>2, <1>8, <1>9, <1>10, TypePartsNext DEF StateTyped
<1>12. \A p \in Paths : Entries'[p] # None =>
         /\ Entries'[p] \in Nodes /\ node'[Entries'[p]] = renamed[Entries'[p]]
         /\ at'[Entries'[p]] = at[Entries'[p]] /\ (Entries'[p] \in moved' <=> Entries'[p] \in moves)
  BY <1>8, <1>9, CachedIsReferenced
<1>13. \A p \in Paths : Entries[p] # None =>
         /\ node[Entries[p]].Name = p[2]
         /\ node[Entries[p]].Parent = p[1] \/ Entries[p] \in moved
         /\ \A q \in Paths : Entries[q] = Entries[p] => q = p
  BY DEF Inv, EntriesNamed, AbsolutePath
<1>14. \A p \in Paths \ T : Entries[p] # x
  BY <1>2, <1>3, <1>6, <1>13 DEF T
<1>15. ASSUME NEW p \in Paths, Entries'[p] # None
       PROVE  /\ node'[Entries'[p]].Name = p[2]
              /\ node'[Entries'[p]].Parent = p[1] \/ Entries'[p] \in moved'
  <2>1. p # c.path
    BY <1>8, <1>15
  <2>2. CASE p = c.to
    <3>1. Entries'[p] = x /\ node'[x] = renamed[x] /\ (x \in moved' <=> x \in moves)
      BY <1>8, <1>12, <1>15, <2>2
    <3>2. node[x].Parent = c.path[1] \/ x \in moved
      BY <1>2, <1>3, <1>6, <1>13
    <3> QED BY <1>3, <1>6, <1>7, <2>2, <3>1, <3>2
  <2>3. CASE p # c.to
    <3>1. Entries'[p] = Entries[p] /\ p \notin T
      BY <1>8, <2>1, <2>3 DEF T
    <3>2. Entries[p] # x /\ Entries[p] \in Nodes
      BY <1>12, <1>14, <1>15, <3>1
    <3>3. node'[Entries[p]] = node[Entries[p]] /\ (Entries[p] \in moved => Entries[p] \in moved')
      BY <1>6, <1>7, <1>12, <1>15, <3>1, <3>2
    <3> QED BY <1>13, <1>15, <3>1, <3>3
  <2> QED BY <2>2, <2>3
<1>16. ASSUME NEW p \in Paths, Entries'[p] # None, NEW q \in Paths, Entries'[q] = Entries'[p]
       PROVE  q = p
  <2>1. p # c.path /\ q # c.path
    BY <1>8, <1>16
  <2>2. \A r \in Paths : r # c.path /\ r # c.to => Entries'[r] = Entries[r] /\ Entries'[r] # x
    BY <1>8, <1>14 DEF T
  <2>3. CASE p = c.to
    BY <1>8, <1>16, <2>1, <2>2, <2>3
  <2>4. CASE p # c.to
    <3>1. q # c.to
      BY <1>8, <1>16, <2>1, <2>2, <2>4
    <3> QED BY <1>13, <1>16, <2>1, <2>2, <2>4, <3>1
  <2> QED BY <2>3, <2>4
<1>17. EntriesNamed'
  BY <1>15, <1>16 DEF EntriesNamed, AbsolutePath
<1>18. Outside(T)
  <2>1. ASSUME NEW p \in Paths \ T
        PROVE  Entries'[p] = Entries[p] /\ (Entries[p] # None => at'[Entries[p]] = at[Entries[p]])
    <3>1. Entries'[p] = Entries[p]
      BY <1>8 DEF T
    <3> QED BY <1>12, <3>1
  <2>2. faults \in Nat
    BY <1>2, Constants DEF StateTyped
  <2> QED BY <1>1, <2>1, <2>2 DEF Outside
<1>19. ASSUME NEW p \in T, Entries'[p] # None PROVE Sound(p)'
  <2>1. p = c.to
    BY <1>8, <1>19 DEF T
  <2>2. at'[Entries'[p]] = at[x]
    BY <1>2, <1>8, <1>12, <1>19, <2>1
  <2> QED BY <1>1, <1>5, <2>1, <2>2 DEF Sound
<1>20. Shared(call[t].op) \/ PathsOf(call[t]) \subseteq T
  BY <1>2 DEF c
<1> QED BY <1>1, <1>2, <1>11, <1>17, <1>18, <1>19, <1>20, Answered DEF c

-----------------------------------------------------------------------------
(* The invariant *)

\* Init: nothing is cached, and nobody serves a request.
LEMMA InvInit == Init => Inv
<1> SUFFICES ASSUME Init PROVE Inv
  OBVIOUS
<1>1. \A t \in Threads : pc[t] = "idle" /\ call[t] = Idle
  BY DEF Init
<1>2. \A p \in Paths : Entries[p] = None
  BY DEF Init
<1>3. StateTyped
  BY Constants DEF Init, StateTyped
<1>4. NodesTyped
  <2>1. Unused \in NodeTypes
    BY DEF Unused, NodeTypes
  <2> QED BY <2>1 DEF Init, NodesTyped
<1>5. ThreadsTyped
  BY IdleFacts DEF Init, ThreadsTyped, Pcs
<1>6. TypeOK
  BY <1>3, <1>4, <1>5, TypeParts
<1>7. EntriesNamed /\ Exact
  BY <1>2 DEF EntriesNamed, Exact
<1>8. Exclusive
  BY <1>1, IdleFacts DEF Exclusive
<1>9. \A t \in Threads : Shaped(t) /\ Doing(t)
  BY <1>1, IdleFacts DEF Shaped, Doing, Changes, Shared
<1> QED BY <1>6, <1>7, <1>8, <1>9 DEF Inv

\* Every step keeps the invariant.
LEMMA InvNext == Inv /\ [Next]_vars => Inv'
<1> SUFFICES ASSUME Inv, [Next]_vars PROVE Inv'
  OBVIOUS
<1>1. CASE UNCHANGED vars
  <2>1. /\ UNCHANGED <<pc, call>>
        /\ UNCHANGED <<hdfs, faults, node, Entries, opened, at, doubted, moved>>
    BY <1>1 DEF vars, threads
  <2>2. StateTyped /\ NodesTyped /\ ThreadsTyped /\ TypeOK /\ EntriesNamed
    BY TypeParts DEF Inv
  <2>3. TypeOK'
    BY <2>1, <2>2 DEF TypeOK
  <2>4. EntriesNamed'
    BY <2>1, <2>2 DEF EntriesNamed, AbsolutePath
  <2>5. faults \in Nat
    BY <2>2, Constants DEF StateTyped
  <2>6. Outside({})
    BY <2>1, <2>5 DEF Outside
  <2> QED BY <2>1, <2>3, <2>4, <2>6, StepOfOthers
<1>2. CASE Close
  BY <1>2, CloseStep
<1>3. ASSUME NEW p \in Paths, Remote(p) \/ Open(p) PROVE Inv'
  BY <1>3, RemoteStep, OpenStep
<1>4. ASSUME NEW t \in Threads,
             \/ Arrive(t) \/ \E p \in Paths : Create(t, p)
             \/ Perform(t) \/ Query(t) \/ CreateRemove(t) \/ CreateFile(t)
             \/ UpdateNew(t) \/ UpdateRemove(t) \/ UpdateRename(t)
      PROVE  Inv'
  BY <1>4, ArriveStep, CreateStep, PerformStep, QueryStep, CreateRemoveStep, CreateFileStep,
     UpdateNewStep, UpdateRemoveStep, UpdateRenameStep
<1> QED BY <1>1, <1>2, <1>3, <1>4 DEF Next

\* The invariant holds of every execution.
LEMMA InvAlways == Spec => []Inv
<1>1. Init => Inv
  BY InvInit
<1>2. Inv /\ [Next]_vars => Inv'
  BY InvNext
<1> QED BY <1>1, <1>2, PTL DEF Spec

-----------------------------------------------------------------------------
(* The theorems *)

\* The variables stay in their types, and no request is tried more than MaxAttempts
\* times (RetryPolicy.go).
THEOREM TypeCorrect == Spec => []TypeOK
<1>1. Inv => TypeOK
  BY DEF Inv
<1> QED BY <1>1, InvAlways, PTL

\* A node that a directory has cached has the name, and (unless it was renamed into
\* another directory) the parent, that lead to the path it is cached for; and it is
\* cached once (Dir.go:225-252, File.go:33).
THEOREM NodesAreNamed == Spec => []EntriesNamed
<1>1. Inv => EntriesNamed
  BY DEF Inv
<1> QED BY <1>1, InvAlways, PTL

\* The node that a directory has cached for a path is that of the file which HDFS has
\* there, but for errors somebody was told of, changes of other clients, and requests
\* that are under way (Dir.go:96-252).
THEOREM CacheIsSound == Spec => []CacheSound
<1>1. Inv => CacheSound
  BY DEF Inv, Exact, Sound, Amid, CacheSound, Changing
<1> QED BY <1>1, InvAlways, PTL

\* A Mkdir, Remove or Rename that succeeds was performed, and once if no two faults
\* occurred, however often it was tried (FaultTolerantHdfsAccessor.go:102-141).
THEOREM SuccessIsOnce == Spec => []SuccessIsReal
<1>1. Inv => SuccessIsReal
  <2> SUFFICES ASSUME Inv, NEW t \in Threads, pc[t] = "update", ~Shared(call[t].op)
               PROVE  call[t].effects = 1 \/ (call[t].effects > 1 /\ faults > 1)
    BY DEF SuccessIsReal
  <2>1. Shaped(t) /\ Doing(t) /\ call[t] \in Requests
    BY TypeParts DEF Inv, ThreadsTyped
  <2>2. call[t].op \in Changes
    BY <2>1 DEF Shaped
  <2>3. call[t].effects > 0 /\ (call[t].effects > 1 => faults > 1)
    BY <2>1, <2>2 DEF Doing
  <2>4. call[t].effects \in Nat
    BY <2>1, RequestTypes
  <2>5. call[t].effects = 1 \/ call[t].effects > 1
    BY <2>3, <2>4
  <2> QED BY <2>3, <2>5
<1> QED BY <1>1, InvAlways, PTL
=============================================================================
