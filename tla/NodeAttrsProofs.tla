--------------------------- MODULE NodeAttrsProofs ---------------------------
(***************************************************************************)
(* Theorems about the attribute cache, for any number of goroutines,       *)
(* lifetime of the attributes, versions of the file and failures.          *)
(***************************************************************************)
EXTENDS NodeAttrs, Integers, FiniteSetTheorems, TLAPS

-----------------------------------------------------------------------------
(* The inductive invariant *)

\* A flush under way is going to make two versions, or one.
Creators == {t \in Threads : pc[t] \in {"flushRemove", "flushCreate"}}
Writers  == {t \in Threads : pc[t] \in {"flushRemove", "flushCreate", "flushClose"}}
Budget   == last + Cardinality(Writers) + Cardinality(Creators) <= MaxVersion

\* A goroutine works with what it was called with.
Called(t) ==
  /\ pc[t] \in {"idle", "flushRemove", "flushCreate"} => call[t] = NoCall
  /\ pc[t] \in SetattrPcs => call[t].mode \in Modes

\* No two files have the same version; a version that a file has, or none has had
\* yet, is not outdated.
IsFile(p) == tree[p].kind = "file"
Versions ==
  /\ \A p \in Paths : IsFile(p) => tree[p].version <= last /\ outdated[tree[p].version] = 0
  /\ \A p, q \in Paths : IsFile(p) /\ IsFile(q) /\ tree[p].version = tree[q].version => p = q
  /\ \A v \in 0..MaxVersion : outdated[v] <= now /\ (v > last => outdated[v] = 0)

\* Attributes that carry the node's name are those of the file at its own path:
\* they have its mode, and the one granted, if one is.
ModeRight(a) == a.name = "f" => a.mode \in Modes /\ (granted # NoMode => a.mode = granted)
ModeKnown(t) ==
  /\ pc[t] = "store" => ModeRight(call[t].reply)
  /\ granted # NoMode => pc[t] \notin SetattrPcs

\* The version of the file that attributes show
Shows(a, v) == a.name = "f" /\ a.entry = FileWith(v)

\* What is cached, unless it has expired, is going to before it is outdated for longer
\* than a lifetime (an invalidation may postpone what has expired); what is about
\* to be stored is new, and what is about to be answered is not too old.
Fresh ==
  /\ attrs.expires <= now + Lifetime
  /\ \A v \in 0..MaxVersion :
       Shows(attrs, v) /\ outdated[v] # 0 /\ ~Expired(attrs.expires) =>
         attrs.expires <= outdated[v] + Lifetime
FreshTo(t) == \A v \in 0..MaxVersion :
  /\ pc[t] = "store" /\ Shows(call[t].reply, v) => outdated[v] \in {0, now}
  /\ pc[t] = "answer" /\ Shows(attrs, v) => outdated[v] = 0 \/ now <= outdated[v] + Lifetime

\* What was promised is in the file, or something newer, and in the cache, unless
\* that has expired; a goroutine amid an Attr was promised what is promised now.
Visible ==
  /\ IsFile(Own) => tree[Own].version >= promised
  /\ promised <= last
  /\ \A v \in 0..MaxVersion : Shows(attrs, v) /\ ~Expired(attrs.expires) => v >= promised
VisibleTo(t) ==
  /\ pc[t] \in AttrPcs => since[t] = promised
  /\ pc[t] = "invalidate" /\ call[t].path = Own =>
       /\ call[t].version <= last
       /\ IsFile(Own) => tree[Own].version >= call[t].version
  /\ \A v \in 0..MaxVersion :
       /\ pc[t] = "store" /\ Shows(call[t].reply, v) => v >= promised
       /\ pc[t] = "answer" /\ Shows(attrs, v) => v >= promised

NodeRight      == Versions /\ ModeRight(attrs) /\ ModeKept /\ Fresh /\ Visible
ThreadRight(t) == Called(t) /\ ModeKnown(t) /\ FreshTo(t) /\ VisibleTo(t)
ThreadsRight   == \A t \in Threads : ThreadRight(t)

Inv == TypeOK /\ Budget /\ NodeRight /\ ThreadsRight

-----------------------------------------------------------------------------
(* The types *)

CallsOf == [path : Paths, reply : AllAttributes, version : 0..MaxVersion, mode : Modes \cup {NoMode}]
NodeTyped ==
  /\ tree \in [Paths -> Entries] /\ last \in 0..MaxVersion /\ faults \in 0..MaxFaults
  /\ mode \in Modes \cup {NoMode} /\ (mode = NoMode <=> tree[Own].kind = "none")
  /\ now \in 1..MaxTime /\ attrs \in AllAttributes
  /\ outdated \in [0..MaxVersion -> 0..MaxTime]
  /\ promised \in 0..MaxVersion /\ granted \in Modes \cup {NoMode}
ThreadsTyped ==
  /\ pc \in [Threads -> {"idle"} \cup AttrPcs \cup FlushPcs \cup SetattrPcs]
  /\ call \in [Threads -> CallsOf]
  /\ since \in [Threads -> 0..MaxVersion]

\* The type invariant is that of the node and that of the goroutines.
LEMMA TypeParts == TypeOK <=> NodeTyped /\ ThreadsTyped
BY DEF TypeOK, NodeTyped, ThreadsTyped, CallsOf

\* The same of the next state
LEMMA TypePartsNext == TypeOK' <=> NodeTyped' /\ ThreadsTyped'
BY TypeParts, PTL

\* The paths of names, and the names of paths
LEMMA PathFacts ==
  /\ \A n \in {"", "f", "dir"} : Joined(n) \in Paths /\ (Joined(n) = Own <=> n = "f")
  /\ \A p \in Paths : Base(p) \in {"", "f", "dir"} /\ (Base(p) = "f" <=> p = Own)
  /\ Own \in Paths
  /\ \A p \in Paths : Below(p) \subseteq Paths /\ p \in Below(p)
BY DEF Joined, Paths, Own, Base, Below

\* The constants, as numbers
LEMMA Constants ==
  /\ Lifetime \in Nat /\ MaxTime \in Nat \ {0} /\ MaxVersion \in Nat /\ MaxFaults \in Nat
  /\ \A v \in 0..MaxVersion : v \in Nat /\ v <= MaxVersion
  /\ 0 \in 0..MaxVersion /\ 0 \in 0..MaxTime /\ 0 \in 0..(MaxTime + Lifetime)
BY BoundsAssumption

\* The modes of files are numbers, and not that of nothing.
LEMMA ModeFacts == Modes \subseteq Nat /\ NoMode \notin Modes
BY DEF Modes, NoMode

\* What there may be at a path
LEMMA EntryFacts ==
  /\ Nothing \in Entries /\ Nothing.kind = "none"
  /\ Directory \in Entries /\ Directory.kind = "dir"
  /\ \A v \in 0..MaxVersion : FileWith(v) \in Entries
  /\ \A v : FileWith(v).kind = "file" /\ FileWith(v).version = v
  /\ \A e \in Entries : \A v : e = FileWith(v) <=> e.kind = "file" /\ e.version = v
  /\ \A e \in Entries : e.version \in 0..MaxVersion /\ e.kind \in {"none", "dir", "file"}
<1>1. Nothing \in Entries /\ Nothing.kind = "none" /\ Directory \in Entries /\ Directory.kind = "dir"
  BY Constants DEF Nothing, Directory, Entries
<1>2. \A v \in 0..MaxVersion : FileWith(v) \in Entries
  BY DEF FileWith, Entries
<1>3. \A v : FileWith(v).kind = "file" /\ FileWith(v).version = v
  BY DEF FileWith
<1>4. \A e \in Entries : \A v : e = FileWith(v) <=> e.kind = "file" /\ e.version = v
  BY DEF FileWith, Entries
<1>5. \A e \in Entries : e.version \in 0..MaxVersion /\ e.kind \in {"none", "dir", "file"}
  BY DEF Entries
<1> QED BY <1>1, <1>2, <1>3, <1>4, <1>5

\* What attributes hold
LEMMA AttributeTypes ==
  ASSUME NEW a \in AllAttributes
  PROVE  /\ a.name \in {"", "f", "dir"} /\ a.entry \in Entries /\ a.mode \in Modes \cup {NoMode}
         /\ a.expires \in 0..(MaxTime + Lifetime) /\ a.expires \in Nat
<1>1. a.name \in {"", "f", "dir"} /\ a.entry \in Entries /\ a.mode \in Modes \cup {NoMode}
  BY DEF AllAttributes
<1>2. a.expires \in 0..(MaxTime + Lifetime)
  BY DEF AllAttributes
<1>3. a.expires \in Nat
  BY <1>2, Constants
<1> QED BY <1>1, <1>2, <1>3

\* Attributes that are given another expiration
LEMMA Expiring ==
  ASSUME NEW a \in AllAttributes, NEW x \in 0..(MaxTime + Lifetime)
  PROVE  LET b == [a EXCEPT !.expires = x] IN
         b \in AllAttributes /\ b.name = a.name /\ b.entry = a.entry /\ b.mode = a.mode /\ b.expires = x
BY DEF AllAttributes

\* Attributes that are given another mode
LEMMA Moding ==
  ASSUME NEW a \in AllAttributes, NEW m \in Modes
  PROVE  LET b == [a EXCEPT !.mode = m] IN
         b \in AllAttributes /\ b.name = a.name /\ b.entry = a.entry /\ b.mode = m /\ b.expires = a.expires
BY DEF AllAttributes

\* No attributes, and no call
LEMMA NothingFacts ==
  /\ NoAttributes \in AllAttributes /\ NoAttributes.name = "" /\ NoAttributes.expires = 0
  /\ NoCall \in CallsOf /\ NoCall.path = Own /\ NoCall.version = 0
<1>1. NoAttributes \in AllAttributes /\ NoAttributes.name = "" /\ NoAttributes.expires = 0
  BY Constants, EntryFacts DEF NoAttributes, Attributes, AllAttributes
<1>2. NoCall \in CallsOf /\ NoCall.path = Own /\ NoCall.version = 0
  BY <1>1, Constants, PathFacts DEF NoCall, CallsOf
<1> QED BY <1>1, <1>2

\* The node's variables, as numbers, and its path
LEMMA NodeFacts ==
  ASSUME NodeTyped
  PROVE  /\ now \in Nat /\ last \in Nat /\ promised \in Nat /\ Lifetime \in Nat
         /\ attrs.expires \in Nat /\ Joined(attrs.name) \in Paths /\ (Joined(attrs.name) = Own <=> attrs.name = "f")
         /\ \A v \in 0..MaxVersion : outdated[v] \in Nat
         /\ \A p \in Paths : tree[p] \in Entries /\ tree[p].version \in 0..MaxVersion /\ tree[p].version \in Nat
<1>1. now \in Nat /\ last \in Nat /\ promised \in Nat /\ Lifetime \in Nat
  BY Constants DEF NodeTyped
<1>2. attrs \in AllAttributes
  BY DEF NodeTyped
<1>3. attrs.expires \in Nat /\ attrs.name \in {"", "f", "dir"}
  BY <1>2, AttributeTypes
<1>4. Joined(attrs.name) \in Paths /\ (Joined(attrs.name) = Own <=> attrs.name = "f")
  BY <1>3, PathFacts
<1>5. \A v \in 0..MaxVersion : outdated[v] \in Nat
  BY Constants DEF NodeTyped
<1>6. \A p \in Paths : tree[p] \in Entries
  BY DEF NodeTyped
<1>7. \A p \in Paths : tree[p].version \in 0..MaxVersion /\ tree[p].version \in Nat
  BY <1>6, EntryFacts, Constants
<1> QED BY <1>1, <1>3, <1>4, <1>5, <1>6, <1>7

\* A goroutine goes on.
LEMMA Going ==
  ASSUME ThreadsTyped, NEW t \in Threads, NEW p \in {"idle"} \cup AttrPcs \cup FlushPcs \cup SetattrPcs, Goto(t, p)
  PROVE  /\ pc' \in [Threads -> {"idle"} \cup AttrPcs \cup FlushPcs \cup SetattrPcs]
         /\ pc'[t] = p /\ \A u \in Threads : u # t => pc'[u] = pc[u]
BY DEF Goto, ThreadsTyped

\* What a goroutine works with changes.
LEMMA CallingFor ==
  ASSUME ThreadsTyped, NEW t \in Threads, NEW c \in CallsOf, call' = [call EXCEPT ![t] = c]
  PROVE  /\ call' \in [Threads -> CallsOf]
         /\ call'[t] = c /\ \A u \in Threads : u # t => call'[u] = call[u]
BY DEF ThreadsTyped

\* What a goroutine works with
LEMMA CallTypes ==
  ASSUME NEW c \in CallsOf
  PROVE  /\ c.path \in Paths /\ c.reply \in AllAttributes
         /\ c.version \in 0..MaxVersion /\ c.mode \in Modes \cup {NoMode}
BY DEF CallsOf

-----------------------------------------------------------------------------
(* The versions are enough for the flushes under way. *)

\* The flushes that are going to make versions are finitely many, and among those
\* that Claimed counts.
LEMMA Counts ==
  /\ IsFiniteSet(Writers) /\ IsFiniteSet(Creators)
  /\ Cardinality(Writers) \in Nat /\ Cardinality(Creators) \in Nat
  /\ \E k \in Nat : /\ Claimed = last + 2 * k
                    /\ Cardinality(Writers) <= k /\ Cardinality(Creators) <= k
<1> DEFINE Flushing == {t \in Threads : pc[t] \in FlushPcs}
<1>1. Flushing \subseteq Threads /\ Writers \subseteq Flushing /\ Creators \subseteq Flushing
  BY DEF Writers, Creators, FlushPcs
<1>2. IsFiniteSet(Flushing) /\ IsFiniteSet(Writers) /\ IsFiniteSet(Creators)
  BY <1>1, ThreadsAssumption, FS_Subset
<1>3. Cardinality(Flushing) \in Nat /\ Cardinality(Writers) \in Nat /\ Cardinality(Creators) \in Nat
  BY <1>2, FS_CardinalityType
<1>4. Cardinality(Writers) <= Cardinality(Flushing) /\ Cardinality(Creators) <= Cardinality(Flushing)
  BY <1>1, <1>2, FS_Subset
<1>5. Claimed = last + 2 * Cardinality(Flushing)
  BY DEF Claimed
<1> HIDE DEF Flushing
<1> QED BY <1>2, <1>3, <1>4, <1>5

\* Steps that make no version, and begin no flush
LEMMA SameBudget ==
  ASSUME TypeOK, Budget, UNCHANGED last, Writers' \subseteq Writers, Creators' \subseteq Creators
  PROVE  Budget'
<1>1. /\ Cardinality(Writers') <= Cardinality(Writers) /\ Cardinality(Creators') <= Cardinality(Creators)
      /\ Cardinality(Writers') \in Nat /\ Cardinality(Creators') \in Nat
      /\ Cardinality(Writers) \in Nat /\ Cardinality(Creators) \in Nat
  BY Counts, FS_Subset, FS_CardinalityType
<1>2. last \in Nat /\ MaxVersion \in Nat
  BY Constants DEF TypeOK
<1>3. Budget' <=> last + Cardinality(Writers') + Cardinality(Creators') <= MaxVersion
  BY DEF Budget
<1> QED BY <1>1, <1>2, <1>3 DEF Budget

\* A version is made by a flush that was going to.
LEMMA Spent ==
  ASSUME TypeOK, Budget, NEW t \in Threads, last' = last + 1,
         \/ t \in Creators /\ Writers' = Writers /\ Creators' = Creators \ {t}
         \/ t \in Writers /\ Writers' = Writers \ {t} /\ Creators' = Creators
  PROVE  Budget' /\ last + 1 \in 0..MaxVersion
<1>1. /\ Cardinality(Writers) \in Nat /\ Cardinality(Creators) \in Nat
      /\ IsFiniteSet(Writers) /\ IsFiniteSet(Creators)
      /\ last \in Nat /\ MaxVersion \in Nat
  BY Counts, Constants DEF TypeOK
<1>2. Budget' <=> last' + Cardinality(Writers') + Cardinality(Creators') <= MaxVersion
  BY DEF Budget
<1>3. CASE t \in Creators /\ Writers' = Writers /\ Creators' = Creators \ {t}
  <2>1. Cardinality(Creators') = Cardinality(Creators) - 1 /\ Cardinality(Creators') \in Nat
    BY <1>1, <1>3, FS_RemoveElement, FS_CardinalityType
  <2> QED BY <1>1, <1>2, <1>3, <2>1 DEF Budget
<1>4. CASE t \in Writers /\ Writers' = Writers \ {t} /\ Creators' = Creators
  <2>1. Cardinality(Writers') = Cardinality(Writers) - 1 /\ Cardinality(Writers') \in Nat
    BY <1>1, <1>4, FS_RemoveElement, FS_CardinalityType
  <2> QED BY <1>1, <1>2, <1>4, <2>1 DEF Budget
<1> QED BY <1>3, <1>4

\* A flush begins.
LEMMA Spending ==
  ASSUME TypeOK, NEW t \in Threads, UNCHANGED last, Claimed + 2 <= MaxVersion,
         Writers' = Writers \cup {t}, Creators' = Creators \cup {t}
  PROVE  Budget'
<1>1. PICK k \in Nat : /\ Claimed = last + 2 * k
                       /\ Cardinality(Writers) <= k /\ Cardinality(Creators) <= k
  BY Counts
<1>2. /\ Cardinality(Writers) \in Nat /\ Cardinality(Creators) \in Nat
      /\ IsFiniteSet(Writers) /\ IsFiniteSet(Creators)
      /\ last \in Nat /\ MaxVersion \in Nat
  BY Counts, Constants DEF TypeOK
<1> DEFINE W == Writers
           C == Creators
<1>3. Cardinality(W \cup {t}) \in Nat /\ Cardinality(W \cup {t}) <= Cardinality(W) + 1
  <2> HIDE DEF W
  <2>1. IsFiniteSet(W) /\ Cardinality(W) \in Nat
    BY <1>2 DEF W
  <2>2. Cardinality(W \cup {t}) = IF t \in W THEN Cardinality(W) ELSE Cardinality(W) + 1
    BY <2>1, FS_AddElement
  <2> QED BY <2>1, <2>2
<1>4. Cardinality(C \cup {t}) \in Nat /\ Cardinality(C \cup {t}) <= Cardinality(C) + 1
  <2> HIDE DEF C
  <2>1. IsFiniteSet(C) /\ Cardinality(C) \in Nat
    BY <1>2 DEF C
  <2>2. Cardinality(C \cup {t}) = IF t \in C THEN Cardinality(C) ELSE Cardinality(C) + 1
    BY <2>1, FS_AddElement
  <2> QED BY <2>1, <2>2
<1>5. Budget' <=> last + Cardinality(W \cup {t}) + Cardinality(C \cup {t}) <= MaxVersion
  BY DEF Budget
<1> HIDE DEF W, C
<1>6. Cardinality(W) \in Nat /\ Cardinality(W) <= k /\ Cardinality(C) \in Nat /\ Cardinality(C) <= k
  BY <1>1, <1>2 DEF W, C
<1> QED BY <1>1, <1>2, <1>3, <1>4, <1>5, <1>6

\* Another client makes a version only if the flushes leave one.
LEMMA Spared ==
  ASSUME TypeOK, last' = last + 1, Claimed < MaxVersion, UNCHANGED pc
  PROVE  Budget' /\ last + 1 \in 0..MaxVersion
<1>1. PICK k \in Nat : /\ Claimed = last + 2 * k
                       /\ Cardinality(Writers) <= k /\ Cardinality(Creators) <= k
  BY Counts
<1>2. /\ Cardinality(Writers) \in Nat /\ Cardinality(Creators) \in Nat
      /\ last \in Nat /\ MaxVersion \in Nat
  BY Counts, Constants DEF TypeOK
<1>3. Writers' = Writers /\ Creators' = Creators
  BY DEF Writers, Creators
<1>4. Budget' <=> last + 1 + Cardinality(Writers) + Cardinality(Creators) <= MaxVersion
  BY <1>3 DEF Budget
<1> QED BY <1>1, <1>2, <1>4

-----------------------------------------------------------------------------
(* Steps of one goroutine that leave the node and its file alone *)

Others(t) == \A u \in Threads : u # t => pc'[u] = pc[u] /\ call'[u] = call[u] /\ since'[u] = since[u]

\* What the node and its file are does not depend on the goroutines.
LEMMA NodeKept ==
  ASSUME Inv, UNCHANGED <<tree, mode, last, now, attrs, outdated, promised>>, granted' \in {granted, NoMode}
  PROVE  NodeRight'
<1>1. NodeRight
  BY DEF Inv
<1>2. Versions'
  BY <1>1 DEF NodeRight, Versions, IsFile
<1>3. ModeRight(attrs)'
  BY <1>1 DEF NodeRight, ModeRight
<1>4. ModeKept'
  BY <1>1 DEF NodeRight, ModeKept
<1>5. Fresh'
  BY <1>1 DEF NodeRight, Fresh, Shows, Expired
<1>6. Visible'
  BY <1>1 DEF NodeRight, Visible, IsFile, Shows, Expired
<1> QED BY <1>2, <1>3, <1>4, <1>5, <1>6 DEF NodeRight

\* Nor does what the other goroutines do.
LEMMA OthersKept ==
  ASSUME Inv, NEW t, Others(t),
         UNCHANGED <<tree, last, now, attrs, outdated, promised>>, granted' \in {granted, NoMode}
  PROVE  \A u \in Threads : u # t => ThreadRight(u)'
<1> SUFFICES ASSUME NEW u \in Threads, u # t PROVE ThreadRight(u)'
  OBVIOUS
<1>1. ThreadRight(u) /\ pc'[u] = pc[u] /\ call'[u] = call[u] /\ since'[u] = since[u]
  BY DEF Inv, ThreadsRight, Others
<1>2. Called(u)'
  BY <1>1 DEF ThreadRight, Called
<1>3. ModeKnown(u)'
  BY <1>1 DEF ThreadRight, ModeKnown, ModeRight
<1>4. FreshTo(u)'
  BY <1>1 DEF ThreadRight, FreshTo, Shows
<1>5. VisibleTo(u)'
  BY <1>1 DEF ThreadRight, VisibleTo, IsFile, Shows
<1> QED BY <1>2, <1>3, <1>4, <1>5 DEF ThreadRight

\* A goroutine that is idle, or is going to write, has nothing to account for but
\* that it has not asked for anything yet.
LEMMA NothingToShow ==
  ASSUME NEW t \in Threads,
         \/ pc'[t] \in {"idle", "flushRemove", "flushCreate"} /\ call'[t] = NoCall
         \/ pc'[t] = "flushClose"
         \/ pc'[t] = "invalidate" /\ call'[t] = NoCall /\ 0 <= last' /\ (IsFile(Own)' => tree'[Own].version >= 0)
  PROVE  ThreadRight(t)'
<1>1. Called(t)'
  BY DEF Called, SetattrPcs
<1>2. ModeKnown(t)'
  BY DEF ModeKnown, SetattrPcs
<1>3. FreshTo(t)'
  BY DEF FreshTo
<1>4. VisibleTo(t)'
  BY DEF VisibleTo, AttrPcs, NoCall
<1> QED BY <1>1, <1>2, <1>3, <1>4 DEF ThreadRight

\* File.Attr asks HDFS, or answers with what is cached and has not expired.
LEMMA AttrStep ==
  ASSUME Inv, NEW t \in Threads, Attr(t)
  PROVE  Inv'
<1>1. /\ UNCHANGED <<tree, mode, last, faults, now, attrs, outdated, promised, granted>>
      /\ pc[t] = "idle" /\ since' = [since EXCEPT ![t] = promised]
      /\ \/ Goto(t, "stat") /\ call' = [call EXCEPT ![t].path = Joined(attrs.name)]
         \/ ~Expired(attrs.expires) /\ Goto(t, "answer") /\ call' = call
  BY DEF Attr, hdfs
<1>2. NodeTyped /\ ThreadsTyped /\ Budget /\ NodeRight /\ ThreadRight(t) /\ ThreadsTyped
  BY TypeParts DEF Inv, ThreadsRight
<1>3. attrs \in AllAttributes /\ call[t] \in CallsOf /\ promised \in 0..MaxVersion
  BY <1>2 DEF NodeTyped, ThreadsTyped
<1>4. /\ pc' \in [Threads -> {"idle"} \cup AttrPcs \cup FlushPcs \cup SetattrPcs]
      /\ pc'[t] \in {"stat", "answer"} /\ \A u \in Threads : u # t => pc'[u] = pc[u]
      /\ pc'[t] = "answer" => ~Expired(attrs.expires)
  BY <1>1, <1>2, Going DEF AttrPcs
<1>5. call' \in [Threads -> CallsOf] /\ \A u \in Threads : u # t => call'[u] = call[u]
  <2>1. CASE call' = call
    BY <2>1, <1>2 DEF ThreadsTyped
  <2>2. CASE call' = [call EXCEPT ![t].path = Joined(attrs.name)]
    <3>1. Joined(attrs.name) \in Paths
      BY <1>2, NodeFacts
    <3>2. [call[t] EXCEPT !.path = Joined(attrs.name)] \in CallsOf
      BY <1>3, <3>1 DEF CallsOf
    <3>3. call' = [call EXCEPT ![t] = [call[t] EXCEPT !.path = Joined(attrs.name)]]
      BY <2>2
    <3> QED BY <1>2, <3>2, <3>3, CallingFor
  <2> QED BY <1>1, <2>1, <2>2
<1>6. since' \in [Threads -> 0..MaxVersion] /\ since'[t] = promised /\ \A u \in Threads : u # t => since'[u] = since[u]
  BY <1>1, <1>2, <1>3 DEF ThreadsTyped
<1>7. TypeOK'
  BY <1>1, <1>2, <1>4, <1>5, <1>6, TypePartsNext DEF NodeTyped, ThreadsTyped
<1>8. Budget'
  <2>1. Writers' \subseteq Writers /\ Creators' \subseteq Creators
    BY <1>4 DEF Writers, Creators
  <2> QED BY <1>1, <2>1, SameBudget DEF Inv
<1>9. NodeRight' /\ \A u \in Threads : u # t => ThreadRight(u)'
  BY <1>1, <1>4, <1>5, <1>6, NodeKept, OthersKept DEF Others
<1>10. Called(t)' /\ ModeKnown(t)'
  BY <1>4 DEF Called, ModeKnown, SetattrPcs
<1>11. FreshTo(t)'
  <2> SUFFICES ASSUME NEW v \in 0..MaxVersion, pc'[t] = "answer", Shows(attrs, v), outdated[v] # 0
               PROVE  now <= outdated[v] + Lifetime
    BY <1>1, <1>4 DEF FreshTo, Shows
  <2>1. attrs.expires <= outdated[v] + Lifetime
    BY <1>2, <1>4 DEF NodeRight, Fresh
  <2>2. now <= attrs.expires
    <3>1. ~(now > attrs.expires) /\ now \in Nat /\ attrs.expires \in Nat
      BY <1>2, <1>4, NodeFacts DEF Expired
    <3> QED BY <3>1
  <2>3. now \in Nat /\ attrs.expires \in Nat /\ outdated[v] \in Nat /\ Lifetime \in Nat
    BY <1>2, NodeFacts
  <2> QED BY <2>1, <2>2, <2>3
<1>12. VisibleTo(t)'
  BY <1>1, <1>2, <1>4, <1>6 DEF VisibleTo, NodeRight, Visible, Shows
<1> QED BY <1>7, <1>8, <1>9, <1>10, <1>11, <1>12 DEF Inv, ThreadsRight, ThreadRight

\* HdfsAccessor.Stat answers with what the file is at the time, or with no attributes.
LEMMA StatStep ==
  ASSUME Inv, NEW t \in Threads, Stat(t)
  PROVE  Inv'
<1> DEFINE path == call[t].path
           reply == call'[t].reply
<1>1. /\ UNCHANGED <<tree, mode, last, now, attrs, outdated, promised, granted, since>>
      /\ pc[t] = "stat" /\ Goto(t, "store") /\ (Succeeds \/ Fails)
      /\ \/ /\ tree[path].kind # "none"
            /\ call' = [call EXCEPT ![t].reply = Attributes(Base(path), tree[path], ModeAt(path), 0)]
         \/ call' = [call EXCEPT ![t].reply = NoAttributes]
  BY DEF Stat, ghosts
<1>2. NodeTyped /\ ThreadsTyped /\ Budget /\ NodeRight /\ ThreadRight(t)
  BY TypeParts DEF Inv, ThreadsRight
<1>3. call[t] \in CallsOf /\ path \in Paths /\ tree[path] \in Entries
  <2>1. call[t] \in CallsOf
    BY <1>2 DEF ThreadsTyped
  <2>2. path \in Paths
    BY <2>1, CallTypes
  <2> QED BY <1>2, <2>1, <2>2, NodeFacts
<1>4. /\ pc' \in [Threads -> {"idle"} \cup AttrPcs \cup FlushPcs \cup SetattrPcs]
      /\ pc'[t] = "store" /\ \A u \in Threads : u # t => pc'[u] = pc[u]
  BY <1>1, <1>2, Going DEF AttrPcs
<1>5. PICK r \in AllAttributes :
        /\ call' = [call EXCEPT ![t].reply = r]
        /\ r.name = "f" => path = Own /\ tree[Own].kind # "none" /\ r.entry = tree[Own] /\ r.mode = mode
  <2>1. CASE call' = [call EXCEPT ![t].reply = NoAttributes]
    BY <2>1, NothingFacts
  <2>2. CASE /\ tree[path].kind # "none"
             /\ call' = [call EXCEPT ![t].reply = Attributes(Base(path), tree[path], ModeAt(path), 0)]
    <3> DEFINE r == Attributes(Base(path), tree[path], ModeAt(path), 0)
    <3>1. ModeAt(path) \in Modes \cup {NoMode} /\ (path = Own => ModeAt(path) = mode)
      BY <1>2 DEF ModeAt, NodeTyped
    <3>2. Base(path) \in {"", "f", "dir"} /\ (Base(path) = "f" => path = Own)
      BY <1>3, PathFacts
    <3>3. r \in AllAttributes /\ r.name = Base(path) /\ r.entry = tree[path] /\ r.mode = ModeAt(path)
      <4>1. 0 \in 0..(MaxTime + Lifetime)
        BY Constants
      <4> QED BY <1>3, <3>1, <3>2, <4>1 DEF Attributes, AllAttributes
    <3> QED BY <2>2, <3>1, <3>2, <3>3
  <2> QED BY <1>1, <2>1, <2>2
<1>6. /\ call' \in [Threads -> CallsOf] /\ reply = r
      /\ \A u \in Threads : u # t => call'[u] = call[u]
  <2>1. [call[t] EXCEPT !.reply = r] \in CallsOf /\ [call[t] EXCEPT !.reply = r].reply = r
    BY <1>3 DEF CallsOf
  <2>2. call' = [call EXCEPT ![t] = [call[t] EXCEPT !.reply = r]]
    BY <1>5
  <2> QED BY <1>2, <2>1, <2>2, CallingFor
<1>7. faults' \in 0..MaxFaults
  BY <1>1, <1>2, Constants DEF NodeTyped, Succeeds, Fails
<1>8. TypeOK'
  BY <1>1, <1>2, <1>4, <1>6, <1>7, TypePartsNext DEF NodeTyped, ThreadsTyped
<1>9. Budget'
  <2>1. Writers' \subseteq Writers /\ Creators' \subseteq Creators
    BY <1>4 DEF Writers, Creators
  <2> QED BY <1>1, <2>1, SameBudget DEF Inv
<1>10. NodeRight' /\ \A u \in Threads : u # t => ThreadRight(u)'
  BY <1>1, <1>4, <1>6, NodeKept, OthersKept DEF Others
<1>11. Called(t)'
  BY <1>4 DEF Called, SetattrPcs
<1>12. ModeKnown(t)'
  <2>1. r.name = "f" => r.mode \in Modes /\ (granted # NoMode => r.mode = granted)
    BY <1>2, <1>5 DEF NodeTyped, NodeRight, ModeKept
  <2> QED BY <1>1, <1>4, <1>6, <2>1 DEF ModeKnown, ModeRight, SetattrPcs
<1>13. \A v \in 0..MaxVersion : Shows(r, v) => IsFile(Own) /\ tree[Own].version = v
  BY <1>5, EntryFacts DEF Shows, IsFile
<1>14. FreshTo(t)'
  <2> SUFFICES ASSUME NEW v \in 0..MaxVersion, Shows(r, v)
               PROVE  outdated[v] = 0
    BY <1>1, <1>4, <1>6 DEF FreshTo, Shows
  <2> QED BY <1>2, <1>13, PathFacts DEF NodeRight, Versions
<1>15. VisibleTo(t)'
  <2>1. since'[t] = promised
    BY <1>1, <1>2 DEF ThreadRight, VisibleTo, AttrPcs
  <2>2. \A v \in 0..MaxVersion : Shows(r, v) => v >= promised
    BY <1>2, <1>13 DEF NodeRight, Visible
  <2> QED BY <1>1, <1>4, <1>6, <2>1, <2>2 DEF VisibleTo, Shows
<1> QED BY <1>8, <1>9, <1>10, <1>11, <1>12, <1>14, <1>15 DEF Inv, ThreadsRight, ThreadRight

\* A goroutine that has answered, or begins a flush, works with nothing.
LEMMA AnswerStep ==
  ASSUME Inv, NEW t \in Threads, Answer(t)
  PROVE  Inv'
<1>1. /\ UNCHANGED <<tree, mode, last, faults, now, attrs, outdated, promised, granted>>
      /\ Goto(t, "idle") /\ call' = [call EXCEPT ![t] = NoCall] /\ since' = [since EXCEPT ![t] = 0]
  BY DEF Answer, hdfs, Finish
<1>2. NodeTyped /\ ThreadsTyped
  BY TypeParts DEF Inv
<1>3. /\ pc' \in [Threads -> {"idle"} \cup AttrPcs \cup FlushPcs \cup SetattrPcs]
      /\ pc'[t] = "idle" /\ \A u \in Threads : u # t => pc'[u] = pc[u]
  BY <1>1, <1>2, Going
<1>4. call' \in [Threads -> CallsOf] /\ call'[t] = NoCall /\ \A u \in Threads : u # t => call'[u] = call[u]
  BY <1>1, <1>2, CallingFor, NothingFacts
<1>5. since' \in [Threads -> 0..MaxVersion] /\ \A u \in Threads : u # t => since'[u] = since[u]
  BY <1>1, <1>2, Constants DEF ThreadsTyped
<1>6. TypeOK'
  BY <1>1, <1>2, <1>3, <1>4, <1>5, TypePartsNext DEF NodeTyped, ThreadsTyped
<1>7. Budget'
  <2>1. Writers' \subseteq Writers /\ Creators' \subseteq Creators
    BY <1>3 DEF Writers, Creators
  <2> QED BY <1>1, <2>1, SameBudget DEF Inv
<1>8. NodeRight' /\ \A u \in Threads : u # t => ThreadRight(u)'
  BY <1>1, <1>3, <1>4, <1>5, NodeKept, OthersKept DEF Others
<1>9. ThreadRight(t)'
  BY <1>3, <1>4, NothingToShow
<1> QED BY <1>6, <1>7, <1>8, <1>9 DEF Inv, ThreadsRight

\* A flush begins when there are versions left for it.
LEMMA FlushStartStep ==
  ASSUME Inv, NEW t \in Threads, FlushStart(t)
  PROVE  Inv'
<1>1. /\ UNCHANGED <<tree, mode, last, faults, now, attrs, outdated, promised, granted, call, since>>
      /\ pc[t] = "idle" /\ Goto(t, "flushRemove") /\ Claimed + 2 <= MaxVersion
  BY DEF FlushStart, hdfs, ghosts
<1>2. NodeTyped /\ ThreadsTyped /\ ThreadRight(t)
  BY TypeParts DEF Inv, ThreadsRight
<1>3. /\ pc' \in [Threads -> {"idle"} \cup AttrPcs \cup FlushPcs \cup SetattrPcs]
      /\ pc'[t] = "flushRemove" /\ \A u \in Threads : u # t => pc'[u] = pc[u]
  BY <1>1, <1>2, Going DEF FlushPcs
<1>4. TypeOK'
  BY <1>1, <1>2, <1>3, TypePartsNext DEF NodeTyped, ThreadsTyped
<1>5. Budget'
  <2>1. Writers' = Writers \cup {t} /\ Creators' = Creators \cup {t}
    BY <1>3 DEF Writers, Creators
  <2> QED BY <1>1, <2>1, Spending DEF Inv
<1>6. NodeRight' /\ \A u \in Threads : u # t => ThreadRight(u)'
  BY <1>1, <1>3, NodeKept, OthersKept DEF Others
<1>7. ThreadRight(t)'
  <2>1. call'[t] = NoCall
    BY <1>1, <1>2 DEF ThreadRight, Called
  <2> QED BY <1>3, <2>1, NothingToShow
<1> QED BY <1>4, <1>5, <1>6, <1>7 DEF Inv, ThreadsRight

\* A Setattr under way takes back what an earlier one has granted.
LEMMA SetattrStep ==
  ASSUME Inv, NEW t \in Threads, NEW m \in Modes, Setattr(t, m)
  PROVE  Inv'
<1>1. /\ UNCHANGED <<tree, mode, last, faults, now, attrs, outdated, promised, since>>
      /\ granted' = NoMode /\ Goto(t, "chmod")
      /\ call' = [call EXCEPT ![t].path = Joined(attrs.name), ![t].mode = m]
  BY DEF Setattr, hdfs
<1>2. NodeTyped /\ ThreadsTyped
  BY TypeParts DEF Inv
<1>3. /\ pc' \in [Threads -> {"idle"} \cup AttrPcs \cup FlushPcs \cup SetattrPcs]
      /\ pc'[t] = "chmod" /\ \A u \in Threads : u # t => pc'[u] = pc[u]
  BY <1>1, <1>2, Going DEF SetattrPcs
<1>4. call' \in [Threads -> CallsOf] /\ call'[t].mode = m /\ \A u \in Threads : u # t => call'[u] = call[u]
  <2>1. Joined(attrs.name) \in Paths
    BY <1>2, NodeFacts
  <2>2. call[t] \in CallsOf
    BY <1>2 DEF ThreadsTyped
  <2> DEFINE c == [call[t] EXCEPT !.path = Joined(attrs.name), !.mode = m]
  <2>3. c \in CallsOf /\ c.mode = m
    BY <2>1, <2>2 DEF CallsOf
  <2>4. call' = [call EXCEPT ![t] = c]
    BY <1>1, <1>2 DEF ThreadsTyped
  <2> HIDE DEF c
  <2> QED BY <1>2, <2>3, <2>4, CallingFor
<1>5. TypeOK'
  BY <1>1, <1>2, <1>3, <1>4, TypePartsNext DEF NodeTyped, ThreadsTyped
<1>6. Budget'
  <2>1. Writers' \subseteq Writers /\ Creators' \subseteq Creators
    BY <1>3 DEF Writers, Creators
  <2> QED BY <1>1, <2>1, SameBudget DEF Inv
<1>7. NodeRight' /\ \A u \in Threads : u # t => ThreadRight(u)'
  BY <1>1, <1>3, <1>4, NodeKept, OthersKept DEF Others
<1>8. ThreadRight(t)'
  BY <1>1, <1>3, <1>4 DEF ThreadRight, Called, ModeKnown, FreshTo, VisibleTo, AttrPcs
<1> QED BY <1>5, <1>6, <1>7, <1>8 DEF Inv, ThreadsRight

-----------------------------------------------------------------------------
(* Steps that change the cache *)

\* A goroutine about to answer shows what the cache has got meanwhile: what it had
\* before, or what somebody has just been told.
LEMMA OthersCached ==
  ASSUME Inv, NEW t, Others(t), UNCHANGED <<tree, last, now, outdated>>,
         \A v \in 0..MaxVersion : Shows(attrs', v) => Shows(attrs, v) \/ (outdated[v] \in {0, now} /\ v >= promised),
         promised' = promised \/ \A u \in Threads : pc[u] \notin AttrPcs,
         granted' \in {granted, NoMode} \/ \A u \in Threads \ {t} : pc[u] \notin AttrPcs \cup SetattrPcs
  PROVE  \A u \in Threads : u # t => ThreadRight(u)'
<1> SUFFICES ASSUME NEW u \in Threads, u # t PROVE ThreadRight(u)'
  OBVIOUS
<1>1. ThreadRight(u) /\ pc'[u] = pc[u] /\ call'[u] = call[u] /\ since'[u] = since[u]
  BY DEF Inv, ThreadsRight, Others
<1>2. Called(u)'
  BY <1>1 DEF ThreadRight, Called
<1>3. ModeKnown(u)'
  BY <1>1 DEF ThreadRight, ModeKnown, ModeRight, AttrPcs
<1>4. now \in Nat /\ Lifetime \in Nat
  BY TypeParts, NodeFacts DEF Inv
<1>5. FreshTo(u)'
  <2>1. \A v \in 0..MaxVersion : pc'[u] = "store" /\ Shows(call'[u].reply, v) => outdated'[v] \in {0, now'}
    BY <1>1 DEF ThreadRight, FreshTo, Shows
  <2>2. ASSUME NEW v \in 0..MaxVersion, pc'[u] = "answer", Shows(attrs', v)
        PROVE  outdated'[v] = 0 \/ now' <= outdated'[v] + Lifetime
    <3>1. CASE Shows(attrs, v)
      BY <1>1, <2>2, <3>1 DEF ThreadRight, FreshTo
    <3>2. CASE outdated[v] \in {0, now}
      BY <1>4, <3>2
    <3> QED BY <2>2, <3>1, <3>2
  <2> QED BY <2>1, <2>2 DEF FreshTo, Shows
<1>6. VisibleTo(u)'
  <2>1. CASE promised' = promised
    <3>1. ASSUME NEW v \in 0..MaxVersion, pc'[u] = "answer", Shows(attrs', v)
          PROVE  v >= promised'
      BY <1>1, <2>1, <3>1 DEF ThreadRight, VisibleTo
    <3> QED BY <1>1, <2>1, <3>1 DEF ThreadRight, VisibleTo, IsFile, Shows
  <2>2. CASE \A w \in Threads : pc[w] \notin AttrPcs
    BY <1>1, <2>2 DEF ThreadRight, VisibleTo, IsFile, AttrPcs
  <2> QED BY <2>1, <2>2
<1> QED BY <1>2, <1>3, <1>5, <1>6 DEF ThreadRight

\* An answer of HDFS is stored, or the lack of one.
LEMMA StoreStep ==
  ASSUME Inv, NEW t \in Threads, Store(t)
  PROVE  Inv'
<1> DEFINE reply == call[t].reply
<1>1. /\ UNCHANGED <<tree, mode, last, faults, now, outdated, promised, granted>>
      /\ pc[t] = "store"
      /\ \/ /\ attrs' = NoAttributes
            /\ Goto(t, "idle") /\ call' = [call EXCEPT ![t] = NoCall] /\ since' = [since EXCEPT ![t] = 0]
         \/ attrs' = [reply EXCEPT !.expires = now + Lifetime] /\ Goto(t, "answer") /\ UNCHANGED <<call, since>>
  BY DEF Store, Finish, hdfs
<1>2. NodeTyped /\ ThreadsTyped /\ Budget /\ NodeRight /\ ThreadRight(t)
  BY TypeParts DEF Inv, ThreadsRight
<1>3. now \in Nat /\ Lifetime \in Nat /\ now + Lifetime \in 0..(MaxTime + Lifetime)
  BY <1>2, Constants DEF NodeTyped
<1>4. reply \in AllAttributes
  BY <1>2, CallTypes DEF ThreadsTyped
<1>5. /\ attrs' \in AllAttributes
      /\ \/ attrs'.name = "" /\ attrs'.expires = 0 /\ pc'[t] = "idle" /\ call'[t] = NoCall
         \/ /\ attrs'.name = reply.name /\ attrs'.entry = reply.entry /\ attrs'.mode = reply.mode
            /\ attrs'.expires = now + Lifetime
            /\ pc'[t] = "answer" /\ since'[t] = since[t]
      /\ pc' \in [Threads -> {"idle"} \cup AttrPcs \cup FlushPcs \cup SetattrPcs]
      /\ call' \in [Threads -> CallsOf] /\ since' \in [Threads -> 0..MaxVersion]
      /\ Others(t)
  <2>1. CASE /\ attrs' = NoAttributes
             /\ Goto(t, "idle") /\ call' = [call EXCEPT ![t] = NoCall] /\ since' = [since EXCEPT ![t] = 0]
    <3>1. /\ pc' \in [Threads -> {"idle"} \cup AttrPcs \cup FlushPcs \cup SetattrPcs]
          /\ pc'[t] = "idle" /\ \A u \in Threads : u # t => pc'[u] = pc[u]
      BY <1>2, <2>1, Going
    <3>2. call' \in [Threads -> CallsOf] /\ call'[t] = NoCall /\ \A u \in Threads : u # t => call'[u] = call[u]
      BY <1>2, <2>1, CallingFor, NothingFacts
    <3>3. since' \in [Threads -> 0..MaxVersion] /\ \A u \in Threads : u # t => since'[u] = since[u]
      BY <1>2, <2>1, Constants DEF ThreadsTyped
    <3> QED BY <2>1, <3>1, <3>2, <3>3, NothingFacts DEF Others
  <2>2. CASE attrs' = [reply EXCEPT !.expires = now + Lifetime] /\ Goto(t, "answer") /\ UNCHANGED <<call, since>>
    <3>1. /\ pc' \in [Threads -> {"idle"} \cup AttrPcs \cup FlushPcs \cup SetattrPcs]
          /\ pc'[t] = "answer" /\ \A u \in Threads : u # t => pc'[u] = pc[u]
      BY <1>2, <2>2, Going DEF AttrPcs
    <3>2. LET b == [reply EXCEPT !.expires = now + Lifetime] IN
          /\ b \in AllAttributes /\ b.name = reply.name /\ b.entry = reply.entry
          /\ b.mode = reply.mode /\ b.expires = now + Lifetime
      BY <1>3, <1>4, Expiring
    <3> HIDE DEF reply
    <3> QED BY <1>2, <2>2, <3>1, <3>2 DEF Others, ThreadsTyped
  <2> QED BY <1>1, <2>1, <2>2
<1>6. TypeOK'
  BY <1>1, <1>2, <1>5, TypePartsNext DEF NodeTyped, ThreadsTyped
<1>7. Budget'
  <2>1. Writers' \subseteq Writers /\ Creators' \subseteq Creators
    BY <1>5 DEF Writers, Creators, Others
  <2> QED BY <1>1, <2>1, SameBudget DEF Inv
<1>8. \A v \in 0..MaxVersion : Shows(attrs', v) =>
        /\ attrs'.expires = now + Lifetime /\ pc'[t] = "answer"
        /\ outdated[v] \in {0, now} /\ v >= promised
  BY <1>1, <1>2, <1>5 DEF Shows, ThreadRight, FreshTo, VisibleTo
<1>9. \A u \in Threads : u # t => ThreadRight(u)'
  BY <1>1, <1>5, <1>8, OthersCached
<1>10. ThreadRight(t)'
  <2>1. CASE pc'[t] = "idle" /\ call'[t] = NoCall
    BY <2>1, NothingToShow
  <2>2. CASE pc'[t] = "answer" /\ since'[t] = since[t]
    <3>1. Called(t)' /\ ModeKnown(t)'
      BY <2>2 DEF Called, ModeKnown, SetattrPcs
    <3>2. FreshTo(t)'
      <4>1. \A v \in 0..MaxVersion : Shows(attrs', v) => outdated'[v] = 0 \/ now' <= outdated'[v] + Lifetime
        BY <1>1, <1>3, <1>8
      <4> QED BY <2>2, <4>1 DEF FreshTo, Shows
    <3>3. VisibleTo(t)'
      BY <1>1, <1>2, <1>8, <2>2 DEF VisibleTo, ThreadRight, Shows, AttrPcs
    <3> QED BY <3>1, <3>2, <3>3 DEF ThreadRight
  <2> QED BY <1>5, <2>1, <2>2
<1>11. NodeRight'
  <2>1. Versions' /\ ModeKept'
    BY <1>1, <1>2 DEF NodeRight, Versions, IsFile, ModeKept
  <2>2. ModeRight(attrs)'
    BY <1>1, <1>2, <1>5 DEF ModeRight, ThreadRight, ModeKnown
  <2>3. Fresh'
    <3>1. attrs'.expires <= now' + Lifetime
      <4>1. attrs'.expires = 0 \/ attrs'.expires = now + Lifetime
        BY <1>5
      <4>2. now' = now
        BY <1>1
      <4> QED BY <1>3, <4>1, <4>2
    <3>2. \A v \in 0..MaxVersion : Shows(attrs', v) /\ outdated'[v] # 0 => attrs'.expires <= outdated'[v] + Lifetime
      BY <1>1, <1>3, <1>8
    <3> QED BY <3>1, <3>2 DEF Fresh, Shows
  <2>4. Visible'
    BY <1>1, <1>2, <1>8 DEF NodeRight, Visible, IsFile, Shows
  <2> QED BY <2>1, <2>2, <2>3, <2>4 DEF NodeRight
<1> QED BY <1>6, <1>7, <1>9, <1>10, <1>11 DEF Inv, ThreadsRight

\* What is invalidated has expired.
LEMMA Invalidating ==
  ASSUME NodeTyped, attrs' = [attrs EXCEPT !.expires = Invalidated(now)]
  PROVE  /\ attrs' \in AllAttributes
         /\ attrs'.name = attrs.name /\ attrs'.entry = attrs.entry /\ attrs'.mode = attrs.mode
         /\ now > attrs'.expires /\ attrs'.expires <= now + Lifetime
<1>1. now \in 1..MaxTime /\ Lifetime \in Nat /\ MaxTime \in Nat /\ attrs \in AllAttributes
  BY Constants DEF NodeTyped
<1>2. Invalidated(now) \in 0..(MaxTime + Lifetime) /\ now > Invalidated(now) /\ Invalidated(now) <= now + Lifetime
  BY <1>1 DEF Invalidated
<1>3. LET b == [attrs EXCEPT !.expires = Invalidated(now)] IN
      b \in AllAttributes /\ b.name = attrs.name /\ b.entry = attrs.entry /\ b.mode = attrs.mode /\ b.expires = Invalidated(now)
  BY <1>1, <1>2, Expiring
<1> QED BY <1>2, <1>3

\* An invalidated node is as it should be, whatever is promised that the file has.
LEMMA InvalidatedRight ==
  ASSUME Inv, attrs' = [attrs EXCEPT !.expires = Invalidated(now)],
         UNCHANGED <<tree, mode, last, now, outdated, granted>>,
         promised' <= last, IsFile(Own) => tree[Own].version >= promised'
  PROVE  NodeRight'
<1>1. NodeRight /\ NodeTyped
  BY TypeParts DEF Inv
<1>2. /\ attrs'.name = attrs.name /\ attrs'.entry = attrs.entry /\ attrs'.mode = attrs.mode
      /\ now > attrs'.expires /\ attrs'.expires <= now + Lifetime
  BY <1>1, Invalidating
<1>3. Versions' /\ ModeKept'
  BY <1>1 DEF NodeRight, Versions, IsFile, ModeKept
<1>4. ModeRight(attrs)'
  BY <1>1, <1>2 DEF NodeRight, ModeRight
<1>5. Fresh'
  BY <1>2 DEF Fresh, Expired
<1>6. Visible'
  BY <1>2 DEF Visible, Expired, IsFile
<1> QED BY <1>3, <1>4, <1>5, <1>6 DEF NodeRight

\* The release of a handle invalidates the cache.
LEMMA ReleaseStep ==
  ASSUME Inv, Release
  PROVE  Inv'
<1>1. /\ UNCHANGED <<tree, mode, last, faults, now, outdated, promised, granted, pc, call, since>>
      /\ attrs' = [attrs EXCEPT !.expires = Invalidated(now)]
  BY DEF Release, hdfs, threads, ghosts
<1>2. NodeTyped /\ ThreadsTyped /\ NodeRight
  BY TypeParts DEF Inv
<1>3. attrs' \in AllAttributes /\ attrs'.name = attrs.name /\ attrs'.entry = attrs.entry
  BY <1>1, <1>2, Invalidating
<1>4. TypeOK'
  BY <1>1, <1>2, <1>3, TypePartsNext DEF NodeTyped, ThreadsTyped
<1>5. Budget'
  <2>1. Writers' \subseteq Writers /\ Creators' \subseteq Creators
    BY <1>1 DEF Writers, Creators
  <2> QED BY <1>1, <2>1, SameBudget DEF Inv
<1>6. NodeRight'
  BY <1>1, <1>2, InvalidatedRight DEF NodeRight, Visible
<1>7. ThreadsRight'
  <2> SUFFICES ASSUME NEW u \in Threads PROVE ThreadRight(u)'
    BY DEF ThreadsRight
  <2>1. ThreadRight(u)
    BY DEF Inv, ThreadsRight
  <2>2. Called(u)' /\ ModeKnown(u)'
    BY <1>1, <2>1 DEF ThreadRight, Called, ModeKnown, ModeRight
  <2>3. FreshTo(u)'
    BY <1>1, <1>3, <2>1 DEF ThreadRight, FreshTo, Shows
  <2>4. VisibleTo(u)'
    BY <1>1, <1>3, <2>1 DEF ThreadRight, VisibleTo, IsFile, Shows
  <2> QED BY <2>2, <2>3, <2>4 DEF ThreadRight
<1> QED BY <1>4, <1>5, <1>6, <1>7 DEF Inv

\* A flush invalidates the cache, and promises what it has stored if it has.
LEMMA InvalidateStep ==
  ASSUME Inv, NEW t \in Threads, Invalidate(t)
  PROVE  Inv'
<1> DEFINE v == IF call[t].path = Own THEN call[t].version ELSE 0
<1>1. /\ UNCHANGED <<tree, mode, last, faults, now, outdated, granted, since>>
      /\ pc[t] = "invalidate" /\ attrs' = [attrs EXCEPT !.expires = Invalidated(now)]
      /\ Goto(t, "idle") /\ call' = [call EXCEPT ![t] = NoCall]
      /\ promised' = IF v > promised /\ \A u \in Threads : pc[u] \notin AttrPcs THEN v ELSE promised
  BY DEF Invalidate, Finish, Promise, hdfs
<1>2. NodeTyped /\ ThreadsTyped /\ NodeRight /\ ThreadRight(t)
  BY TypeParts DEF Inv, ThreadsRight
<1>3. attrs' \in AllAttributes /\ attrs'.name = attrs.name /\ attrs'.entry = attrs.entry
  BY <1>1, <1>2, Invalidating
<1>4. /\ pc' \in [Threads -> {"idle"} \cup AttrPcs \cup FlushPcs \cup SetattrPcs]
      /\ pc'[t] = "idle" /\ \A u \in Threads : u # t => pc'[u] = pc[u]
  BY <1>1, <1>2, Going
<1>5. call' \in [Threads -> CallsOf] /\ call'[t] = NoCall /\ \A u \in Threads : u # t => call'[u] = call[u]
  BY <1>1, <1>2, CallingFor, NothingFacts
<1>6. v \in 0..MaxVersion
  BY <1>2, CallTypes, Constants DEF ThreadsTyped
<1>7. v <= last /\ (IsFile(Own) => tree[Own].version >= v)
  <2>1. CASE call[t].path = Own
    BY <1>1, <1>2, <2>1 DEF ThreadRight, VisibleTo
  <2>2. CASE call[t].path # Own
    <3>1. last \in Nat /\ tree[Own].version \in Nat
      BY <1>2, NodeFacts, PathFacts
    <3>2. v = 0
      BY <2>2
    <3> HIDE DEF v
    <3> QED BY <3>1, <3>2
  <2> QED BY <2>1, <2>2
<1> HIDE DEF v
<1>8. promised' \in 0..MaxVersion /\ promised' <= last /\ (IsFile(Own) => tree[Own].version >= promised')
  BY <1>1, <1>2, <1>6, <1>7 DEF NodeRight, Visible, NodeTyped
<1>9. TypeOK'
  BY <1>1, <1>2, <1>3, <1>4, <1>5, <1>8, TypePartsNext DEF NodeTyped, ThreadsTyped
<1>10. Budget'
  <2>1. Writers' \subseteq Writers /\ Creators' \subseteq Creators
    BY <1>4 DEF Writers, Creators
  <2> QED BY <1>1, <2>1, SameBudget DEF Inv
<1>11. NodeRight'
  BY <1>1, <1>8, InvalidatedRight
<1>12. \A u \in Threads : u # t => ThreadRight(u)'
  <2>1. \A x \in 0..MaxVersion : Shows(attrs', x) => Shows(attrs, x) \/ (outdated[x] \in {0, now} /\ x >= promised)
    <3>1. \A x \in 0..MaxVersion : Shows(attrs', x) => Shows(attrs, x)
      BY <1>3 DEF Shows
    <3> QED BY <3>1
  <2>2. Others(t)
    BY <1>1, <1>4, <1>5 DEF Others
  <2>3. promised' = promised \/ \A u \in Threads : pc[u] \notin AttrPcs
    BY <1>1
  <2>4. granted' \in {granted, NoMode} /\ UNCHANGED <<tree, last, now, outdated>>
    BY <1>1
  <2> QED BY <2>1, <2>2, <2>3, <2>4, OthersCached
<1>13. ThreadRight(t)'
  BY <1>4, <1>5, NothingToShow
<1> QED BY <1>9, <1>10, <1>11, <1>12, <1>13 DEF Inv, ThreadsRight

\* Setattr stores the mode that it has given the file.
LEMMA SetModeStep ==
  ASSUME Inv, NEW t \in Threads, SetMode(t)
  PROVE  Inv'
<1> DEFINE m == call[t].mode
<1>1. /\ UNCHANGED <<tree, mode, last, faults, now, outdated, promised, since>>
      /\ pc[t] = "setMode" /\ attrs' = [attrs EXCEPT !.mode = m]
      /\ Goto(t, "idle") /\ call' = [call EXCEPT ![t] = NoCall]
      /\ \/ granted' = NoMode
         \/ granted' = m /\ mode = m /\ \A u \in Threads \ {t} : pc[u] \notin AttrPcs \cup SetattrPcs
  BY DEF SetMode, Finish, WithMode, hdfs
<1>2. NodeTyped /\ ThreadsTyped /\ NodeRight /\ ThreadRight(t)
  BY TypeParts DEF Inv, ThreadsRight
<1>3. m \in Modes
  BY <1>1, <1>2 DEF ThreadRight, Called, SetattrPcs
<1>4. LET b == [attrs EXCEPT !.mode = m] IN
      b \in AllAttributes /\ b.name = attrs.name /\ b.entry = attrs.entry /\ b.mode = m /\ b.expires = attrs.expires
  BY <1>2, <1>3, Moding DEF NodeTyped
<1>5. /\ attrs' \in AllAttributes /\ attrs'.name = attrs.name /\ attrs'.entry = attrs.entry
      /\ attrs'.mode = m /\ attrs'.expires = attrs.expires
  BY <1>1, <1>4
<1> HIDE DEF m
<1>6. /\ pc' \in [Threads -> {"idle"} \cup AttrPcs \cup FlushPcs \cup SetattrPcs]
      /\ pc'[t] = "idle" /\ \A u \in Threads : u # t => pc'[u] = pc[u]
  BY <1>1, <1>2, Going
<1>7. call' \in [Threads -> CallsOf] /\ call'[t] = NoCall /\ \A u \in Threads : u # t => call'[u] = call[u]
  BY <1>1, <1>2, CallingFor, NothingFacts
<1>8. granted' \in Modes \cup {NoMode}
  BY <1>1, <1>3
<1>9. TypeOK'
  BY <1>1, <1>2, <1>5, <1>6, <1>7, <1>8, TypePartsNext DEF NodeTyped, ThreadsTyped
<1>10. Budget'
  <2>1. Writers' \subseteq Writers /\ Creators' \subseteq Creators
    BY <1>6 DEF Writers, Creators
  <2> QED BY <1>1, <2>1, SameBudget DEF Inv
<1>11. NodeRight'
  <2>1. Versions'
    BY <1>1, <1>2 DEF NodeRight, Versions, IsFile
  <2>2. ModeRight(attrs)' /\ ModeKept'
    BY <1>1, <1>3, <1>5 DEF ModeRight, ModeKept
  <2>3. Fresh'
    BY <1>1, <1>2, <1>5 DEF NodeRight, Fresh, Shows, Expired
  <2>4. Visible'
    BY <1>1, <1>2, <1>5 DEF NodeRight, Visible, IsFile, Shows, Expired
  <2> QED BY <2>1, <2>2, <2>3, <2>4 DEF NodeRight
<1>12. \A u \in Threads : u # t => ThreadRight(u)'
  <2>1. \A x \in 0..MaxVersion : Shows(attrs', x) => Shows(attrs, x) \/ (outdated[x] \in {0, now} /\ x >= promised)
    <3>1. \A x \in 0..MaxVersion : Shows(attrs', x) => Shows(attrs, x)
      BY <1>5 DEF Shows
    <3> QED BY <3>1
  <2>2. Others(t)
    BY <1>1, <1>6, <1>7 DEF Others
  <2>3. granted' \in {granted, NoMode} \/ \A u \in Threads \ {t} : pc[u] \notin AttrPcs \cup SetattrPcs
    BY <1>1
  <2>4. promised' = promised /\ UNCHANGED <<tree, last, now, outdated>>
    BY <1>1
  <2> QED BY <2>1, <2>2, <2>3, <2>4, OthersCached
<1>13. ThreadRight(t)'
  BY <1>6, <1>7, NothingToShow
<1> QED BY <1>9, <1>10, <1>11, <1>12, <1>13 DEF Inv, ThreadsRight

-----------------------------------------------------------------------------
(* Steps that change the file, and time *)

\* Versions are outdated now: what is cached has not been for long.
LEMMA Outdating ==
  ASSUME Inv, NEW S \in SUBSET Paths, Outdate(S), UNCHANGED <<now, attrs>>
  PROVE  /\ outdated' \in [0..MaxVersion -> 0..MaxTime]
         /\ \A v \in 0..MaxVersion : outdated'[v] \in {outdated[v], now}
         /\ \A v \in 0..MaxVersion : (\A p \in S : tree[p] # FileWith(v)) => outdated'[v] = outdated[v]
         /\ Fresh'
<1>1. NodeTyped /\ Fresh
  BY TypeParts DEF Inv, NodeRight
<1>2. outdated' = [v \in 0..MaxVersion |-> IF \E p \in S : tree[p] = FileWith(v) THEN now ELSE outdated[v]]
  BY DEF Outdate
<1>3. now \in 0..MaxTime /\ now \in Nat /\ Lifetime \in Nat
  BY <1>1, Constants DEF NodeTyped
<1>4. outdated' \in [0..MaxVersion -> 0..MaxTime]
  BY <1>1, <1>2, <1>3 DEF NodeTyped
<1>5. \A v \in 0..MaxVersion : outdated'[v] \in {outdated[v], now}
  BY <1>2
<1>6. \A v \in 0..MaxVersion : (\A p \in S : tree[p] # FileWith(v)) => outdated'[v] = outdated[v]
  BY <1>2
<1>7. Fresh'
  <2>1. attrs'.expires <= now' + Lifetime
    BY <1>1 DEF Fresh
  <2>2. ASSUME NEW v \in 0..MaxVersion, Shows(attrs', v), outdated'[v] # 0, ~Expired(attrs.expires)
        PROVE  attrs'.expires <= outdated'[v] + Lifetime
    <3>1. CASE outdated'[v] = now
      BY <2>1, <3>1
    <3>2. CASE outdated'[v] = outdated[v]
      BY <1>1, <2>2, <3>2 DEF Fresh, Shows
    <3> QED BY <1>5, <3>1, <3>2
  <2> QED BY <2>1, <2>2 DEF Fresh, Shows, Expired
<1> QED BY <1>4, <1>5, <1>6, <1>7

\* A goroutine that another overtakes in HDFS has something older, by no time.
LEMMA Overtaken ==
  ASSUME Inv, NEW u \in Threads, pc'[u] = pc[u], call'[u] = call[u], since'[u] = since[u],
         UNCHANGED <<now, attrs, promised, granted>>,
         \A v \in 0..MaxVersion : outdated'[v] \in {outdated[v], now},
         last' \in {last, last + 1},
         IsFile(Own)' => tree'[Own] = tree[Own] \/ tree'[Own].version = last + 1
  PROVE  ThreadRight(u)'
<1>1. ThreadRight(u) /\ NodeTyped
  BY TypeParts DEF Inv, ThreadsRight
<1>2. Called(u)' /\ ModeKnown(u)'
  BY <1>1 DEF ThreadRight, Called, ModeKnown, ModeRight
<1>3. now \in Nat /\ Lifetime \in Nat /\ last \in Nat
  BY <1>1, NodeFacts
<1>4. FreshTo(u)'
  <2>1. \A v \in 0..MaxVersion : pc[u] = "store" /\ Shows(call[u].reply, v) => outdated'[v] \in {0, now}
    BY <1>1 DEF ThreadRight, FreshTo
  <2>2. ASSUME NEW v \in 0..MaxVersion, pc[u] = "answer", Shows(attrs, v)
        PROVE  outdated'[v] = 0 \/ now <= outdated'[v] + Lifetime
    <3>1. CASE outdated'[v] = now
      BY <1>3, <3>1
    <3>2. CASE outdated'[v] = outdated[v]
      BY <1>1, <2>2, <3>2 DEF ThreadRight, FreshTo
    <3> QED BY <3>1, <3>2
  <2> QED BY <2>1, <2>2 DEF FreshTo, Shows
<1>5. VisibleTo(u)'
  <2>1. ASSUME pc[u] = "invalidate", call[u].path = Own
        PROVE  call[u].version <= last' /\ (IsFile(Own)' => tree'[Own].version >= call[u].version)
    <3>1. call[u].version \in Nat
      BY <1>1, TypeParts, CallTypes, Constants DEF Inv, ThreadsTyped
    <3>2. call[u].version <= last /\ (IsFile(Own) => tree[Own].version >= call[u].version)
      BY <1>1, <2>1 DEF ThreadRight, VisibleTo
    <3>3. call[u].version <= last'
      BY <1>3, <3>1, <3>2
    <3>4. CASE tree'[Own] = tree[Own]
      BY <3>2, <3>3, <3>4 DEF IsFile
    <3>5. CASE tree'[Own].version = last + 1
      BY <1>3, <3>1, <3>2, <3>3, <3>5
    <3> QED BY <3>3, <3>4, <3>5
  <2> QED BY <1>1, <2>1 DEF ThreadRight, VisibleTo, Shows
<1> QED BY <1>2, <1>4, <1>5 DEF ThreadRight

\* A file gets a version that none has had.
LEMMA Renewing ==
  ASSUME Inv, NEW p \in Paths, Renew(p), last + 1 \in 0..MaxVersion, UNCHANGED <<now, attrs, promised, granted>>
  PROVE  /\ tree' \in [Paths -> Entries] /\ outdated' \in [0..MaxVersion -> 0..MaxTime]
         /\ last' = last + 1 /\ tree'[p] = FileWith(last + 1)
         /\ \A q \in Paths : q # p => tree'[q] = tree[q]
         /\ \A v \in 0..MaxVersion : outdated'[v] \in {outdated[v], now}
         /\ IsFile(Own)' => tree'[Own] = tree[Own] \/ tree'[Own].version = last + 1
         /\ Versions' /\ Fresh' /\ Visible'
<1>1. NodeTyped /\ Versions /\ Visible
  BY TypeParts DEF Inv, NodeRight
<1>2. last' = last + 1 /\ tree' = [tree EXCEPT ![p] = FileWith(last + 1)] /\ Outdate({p})
  BY DEF Renew
<1>3. {p} \in SUBSET Paths
  OBVIOUS
<1>4. /\ outdated' \in [0..MaxVersion -> 0..MaxTime] /\ Fresh'
      /\ \A v \in 0..MaxVersion : outdated'[v] \in {outdated[v], now}
      /\ \A v \in 0..MaxVersion : tree[p] # FileWith(v) => outdated'[v] = outdated[v]
  BY <1>2, <1>3, Outdating
<1>5. FileWith(last + 1) \in Entries /\ FileWith(last + 1).kind = "file" /\ FileWith(last + 1).version = last + 1
  BY EntryFacts
<1>6. tree' \in [Paths -> Entries] /\ tree'[p] = FileWith(last + 1) /\ \A q \in Paths : q # p => tree'[q] = tree[q]
  BY <1>1, <1>2, <1>5 DEF NodeTyped
<1>7. now \in Nat /\ last \in Nat /\ promised \in Nat /\ Own \in Paths
  BY <1>1, NodeFacts, PathFacts
<1>8. IsFile(Own)' => tree'[Own] = tree[Own] \/ tree'[Own].version = last + 1
  BY <1>5, <1>6, <1>7
<1>9. \A q \in Paths : tree[q].kind = "file" => tree[q].version \in 0..MaxVersion /\ tree[q] = FileWith(tree[q].version)
                                                /\ tree[q].version <= last
  BY <1>1, NodeFacts, EntryFacts DEF Versions, IsFile
<1>10. \A v \in 0..MaxVersion : tree[p] = FileWith(v) => tree[p].kind = "file" /\ tree[p].version = v
  BY EntryFacts
<1>11. Versions'
  <2>1. ASSUME NEW q \in Paths, IsFile(q)'
        PROVE  tree'[q].version <= last' /\ outdated'[tree'[q].version] = 0
    <3>1. CASE q = p
      <4>1. tree'[q].version = last + 1
        BY <1>5, <1>6, <3>1
      <4>2. outdated[last + 1] = 0
        BY <1>1, <1>7 DEF Versions
      <4>3. tree[p] # FileWith(last + 1)
        BY <1>7, <1>9, <1>10
      <4> QED BY <1>2, <1>4, <1>7, <4>1, <4>2, <4>3
    <3>2. CASE q # p
      <4>1. tree'[q] = tree[q] /\ tree[q].kind = "file"
        BY <1>6, <2>1, <3>2 DEF IsFile
      <4>2. tree[q].version <= last /\ tree[q].version \in 0..MaxVersion /\ outdated[tree[q].version] = 0
        BY <1>1, <1>9, <4>1 DEF Versions, IsFile
      <4>3. tree[p] # FileWith(tree[q].version)
        BY <1>1, <1>10, <3>2, <4>1, <4>2 DEF Versions, IsFile
      <4>4. tree[q].version <= last + 1
        BY <1>7, <4>2
      <4> QED BY <1>2, <1>4, <4>1, <4>2, <4>3, <4>4
    <3> QED BY <3>1, <3>2
  <2>2. ASSUME NEW q \in Paths, NEW r \in Paths, IsFile(q)', IsFile(r)', tree'[q].version = tree'[r].version
        PROVE  q = r
    <3>1. \A x \in Paths : x # p /\ IsFile(x)' => tree'[x] = tree[x] /\ IsFile(x) /\ tree'[x].version # last + 1
      BY <1>6, <1>7, <1>9 DEF IsFile
    <3>2. tree'[p].version = last + 1
      BY <1>5, <1>6
    <3> QED BY <1>1, <2>2, <3>1, <3>2 DEF Versions
  <2>3. ASSUME NEW v \in 0..MaxVersion
        PROVE  outdated'[v] <= now' /\ (v > last' => outdated'[v] = 0)
    <3>1. outdated[v] <= now /\ (v > last => outdated[v] = 0)
      BY <1>1 DEF Versions
    <3>2. outdated'[v] <= now
      BY <1>4, <1>7, <3>1
    <3>3. ASSUME v > last' PROVE outdated'[v] = 0
      <4>1. v > last
        BY <1>2, <1>7, <3>3
      <4>2. tree[p] # FileWith(v)
        BY <1>7, <1>9, <1>10, <4>1
      <4> QED BY <1>4, <3>1, <4>1, <4>2
    <3> QED BY <3>2, <3>3
  <2> QED BY <2>1, <2>2, <2>3 DEF Versions
<1>12. Visible'
  <2>1. IsFile(Own)' => tree'[Own].version >= promised'
    <3>1. CASE tree'[Own] = tree[Own]
      BY <1>1, <3>1 DEF Visible, IsFile
    <3>2. CASE tree'[Own].version = last + 1
      BY <1>1, <1>7, <3>2 DEF Visible
    <3> QED BY <1>8, <3>1, <3>2
  <2>2. promised' <= last'
    BY <1>1, <1>2, <1>7 DEF Visible
  <2> QED BY <1>1, <2>1, <2>2 DEF Visible, Shows, Expired
<1> QED BY <1>2, <1>4, <1>6, <1>8, <1>11, <1>12

\* Another client makes a version.
LEMMA RemoteStep ==
  ASSUME Inv, Remote
  PROVE  Inv'
<1>1. /\ UNCHANGED <<mode, faults, now, attrs, pc, call, since, promised, granted>>
      /\ tree[Own].kind = "file" /\ Claimed < MaxVersion /\ Renew(Own)
  BY DEF Remote, threads
<1>2. NodeTyped /\ ThreadsTyped /\ NodeRight
  BY TypeParts DEF Inv
<1>3. last' = last + 1
  BY <1>1 DEF Renew
<1>4. Budget' /\ last + 1 \in 0..MaxVersion
  BY <1>1, <1>3, Spared DEF Inv
<1>5. /\ tree' \in [Paths -> Entries] /\ outdated' \in [0..MaxVersion -> 0..MaxTime]
      /\ tree'[Own] = FileWith(last + 1)
      /\ \A v \in 0..MaxVersion : outdated'[v] \in {outdated[v], now}
      /\ IsFile(Own)' => tree'[Own] = tree[Own] \/ tree'[Own].version = last + 1
      /\ Versions' /\ Fresh' /\ Visible'
  BY <1>1, <1>4, Renewing, PathFacts
<1>6. TypeOK'
  <2>1. mode # NoMode /\ tree'[Own].kind # "none"
    BY <1>1, <1>2, <1>5, EntryFacts DEF NodeTyped
  <2> QED BY <1>1, <1>2, <1>3, <1>4, <1>5, <2>1, TypePartsNext DEF NodeTyped, ThreadsTyped
<1>7. NodeRight'
  BY <1>1, <1>2, <1>5 DEF NodeRight, ModeRight, ModeKept
<1>8. ThreadsRight'
  <2> SUFFICES ASSUME NEW u \in Threads PROVE ThreadRight(u)'
    BY DEF ThreadsRight
  <2> QED BY <1>1, <1>3, <1>5, Overtaken
<1> QED BY <1>4, <1>6, <1>7, <1>8 DEF Inv

\* Time passes, but for nobody who has an answer at hand.
LEMMA TickStep ==
  ASSUME Inv, Tick
  PROVE  Inv'
<1>1. /\ UNCHANGED <<tree, mode, last, faults, attrs, pc, call, outdated, promised, since, granted>>
      /\ now < MaxTime /\ now' = now + 1
      /\ \A t \in Threads : pc[t] \notin {"store", "answer", "setMode"}
  BY DEF Tick, hdfs, threads, ghosts
<1>2. NodeTyped /\ ThreadsTyped /\ NodeRight
  BY TypeParts DEF Inv
<1>3. now \in Nat /\ Lifetime \in Nat /\ attrs.expires \in Nat /\ \A v \in 0..MaxVersion : outdated[v] \in Nat
  BY <1>2, NodeFacts
<1>4. now' \in 1..MaxTime
  BY <1>1, <1>3, Constants
<1>5. TypeOK'
  BY <1>1, <1>2, <1>4, TypePartsNext DEF NodeTyped, ThreadsTyped
<1>6. Budget'
  <2>1. Writers' \subseteq Writers /\ Creators' \subseteq Creators
    BY <1>1 DEF Writers, Creators
  <2> QED BY <1>1, <2>1, SameBudget DEF Inv
<1>7. NodeRight'
  <2>1. Versions'
    <3>1. \A v \in 0..MaxVersion : outdated'[v] <= now'
      <4> TAKE v \in 0..MaxVersion
      <4>1. outdated[v] \in Nat /\ outdated[v] <= now /\ outdated'[v] = outdated[v]
        BY <1>1, <1>2, <1>3 DEF NodeRight, Versions
      <4> QED BY <1>1, <1>3, <4>1
    <3> QED BY <1>1, <1>2, <3>1 DEF NodeRight, Versions, IsFile
  <2>2. ModeRight(attrs)' /\ ModeKept'
    BY <1>1, <1>2 DEF NodeRight, ModeRight, ModeKept
  <2>3. now' > attrs.expires \/ ~Expired(attrs.expires)
    BY <1>1, <1>3 DEF Expired
  <2>4. Fresh'
    <3>1. attrs'.expires <= now' + Lifetime
      BY <1>1, <1>2, <1>3 DEF NodeRight, Fresh
    <3> QED BY <1>1, <1>2, <2>3, <3>1 DEF NodeRight, Fresh, Shows, Expired
  <2>5. Visible'
    BY <1>1, <1>2, <2>3 DEF NodeRight, Visible, IsFile, Shows, Expired
  <2> QED BY <2>1, <2>2, <2>4, <2>5 DEF NodeRight
<1>8. ThreadsRight'
  <2> SUFFICES ASSUME NEW u \in Threads PROVE ThreadRight(u)'
    BY DEF ThreadsRight
  <2>1. ThreadRight(u)
    BY DEF Inv, ThreadsRight
  <2>2. Called(u)' /\ ModeKnown(u)'
    BY <1>1, <2>1 DEF ThreadRight, Called, ModeKnown, ModeRight
  <2>3. FreshTo(u)'
    BY <1>1 DEF FreshTo
  <2>4. VisibleTo(u)'
    BY <1>1, <2>1 DEF ThreadRight, VisibleTo, IsFile, Shows
  <2> QED BY <2>2, <2>3, <2>4 DEF ThreadRight
<1> QED BY <1>5, <1>6, <1>7, <1>8 DEF Inv

\* A flush removes what is at the node's path, with all below, or fails.
LEMMA FlushRemoveStep ==
  ASSUME Inv, NEW t \in Threads, FlushRemove(t)
  PROVE  Inv'
<1> DEFINE S == Below(Joined(attrs.name))
<1>1. /\ UNCHANGED <<last, now, attrs, call, promised, since, granted>>
      /\ pc[t] = "flushRemove" /\ Goto(t, "flushCreate") /\ (Succeeds \/ Fails)
      /\ \/ /\ tree' = [p \in Paths |-> IF p \in S THEN Nothing ELSE tree[p]]
            /\ mode' = IF Own \in S THEN NoMode ELSE mode
            /\ Outdate(S)
         \/ UNCHANGED <<tree, mode, outdated>>
  BY DEF FlushRemove
<1>2. NodeTyped /\ ThreadsTyped /\ NodeRight /\ ThreadRight(t)
  BY TypeParts DEF Inv, ThreadsRight
<1>3. S \in SUBSET Paths
  BY <1>2, NodeFacts, PathFacts
<1> HIDE DEF S
<1>4. /\ pc' \in [Threads -> {"idle"} \cup AttrPcs \cup FlushPcs \cup SetattrPcs]
      /\ pc'[t] = "flushCreate" /\ \A u \in Threads : u # t => pc'[u] = pc[u]
  BY <1>1, <1>2, Going DEF FlushPcs
<1>5. faults' \in 0..MaxFaults
  BY <1>1, <1>2, Constants DEF NodeTyped, Succeeds, Fails
<1>6. Nothing \in Entries /\ Nothing.kind = "none" /\ Own \in Paths
  BY EntryFacts, PathFacts
<1>7. /\ tree' \in [Paths -> Entries] /\ outdated' \in [0..MaxVersion -> 0..MaxTime]
      /\ mode' \in Modes \cup {NoMode} /\ (mode' = NoMode <=> tree'[Own].kind = "none")
      /\ mode' \in {mode, NoMode}
      /\ \A q \in Paths : tree'[q] = Nothing \/ tree'[q] = tree[q]
      /\ \A v \in 0..MaxVersion : outdated'[v] \in {outdated[v], now}
      /\ \A v \in 0..MaxVersion : outdated'[v] = outdated[v] \/ \E p \in Paths : tree[p] = FileWith(v) /\ tree'[p] = Nothing
      /\ Fresh'
  <2>1. CASE /\ tree' = [p \in Paths |-> IF p \in S THEN Nothing ELSE tree[p]]
             /\ mode' = IF Own \in S THEN NoMode ELSE mode
             /\ Outdate(S)
    <3>1. /\ outdated' \in [0..MaxVersion -> 0..MaxTime] /\ Fresh'
          /\ \A v \in 0..MaxVersion : outdated'[v] \in {outdated[v], now}
          /\ \A v \in 0..MaxVersion : (\A p \in S : tree[p] # FileWith(v)) => outdated'[v] = outdated[v]
      BY <1>1, <1>3, <2>1, Outdating
    <3>2. tree' \in [Paths -> Entries] /\ \A q \in Paths : tree'[q] = IF q \in S THEN Nothing ELSE tree[q]
      BY <1>2, <1>6, <2>1 DEF NodeTyped
    <3>3. mode' \in Modes \cup {NoMode} /\ (mode' = NoMode <=> tree'[Own].kind = "none")
      BY <1>2, <1>6, <2>1, <3>2 DEF NodeTyped
    <3> QED BY <1>3, <2>1, <3>1, <3>2, <3>3
  <2>2. CASE UNCHANGED <<tree, mode, outdated>>
    <3>1. Fresh'
      BY <1>1, <1>2, <2>2 DEF NodeRight, Fresh, Shows, Expired
    <3> QED BY <1>2, <2>2, <3>1 DEF NodeTyped
  <2> QED BY <1>1, <2>1, <2>2
<1>8. TypeOK'
  BY <1>1, <1>2, <1>4, <1>5, <1>7, TypePartsNext DEF NodeTyped, ThreadsTyped
<1>9. Budget'
  <2>1. Writers' \subseteq Writers /\ Creators' \subseteq Creators
    BY <1>1, <1>4 DEF Writers, Creators
  <2> QED BY <1>1, <2>1, SameBudget DEF Inv
<1>10. \A q \in Paths : IsFile(q)' => tree'[q] = tree[q] /\ IsFile(q)
  BY <1>6, <1>7 DEF IsFile
<1>11. Versions'
  <2>1. \A q \in Paths : tree[q] \in Entries
    BY <1>2 DEF NodeTyped
  <2>2. ASSUME NEW q \in Paths, IsFile(q)'
        PROVE  tree'[q].version <= last' /\ outdated'[tree'[q].version] = 0
    <3>1. /\ tree'[q] = tree[q] /\ tree[q].version \in 0..MaxVersion
          /\ tree[q].version <= last /\ outdated[tree[q].version] = 0 /\ IsFile(q)
      BY <1>2, <1>10, <2>1, <2>2, EntryFacts DEF NodeRight, Versions
    <3>2. \A p \in Paths : tree[p] = FileWith(tree[q].version) => p = q
      BY <1>2, <3>1, EntryFacts DEF NodeRight, Versions, IsFile
    <3>3. tree'[q] # Nothing
      BY <1>6, <2>2 DEF IsFile
    <3>4. outdated'[tree[q].version] = outdated[tree[q].version]
      BY <1>7, <3>1, <3>2, <3>3
    <3> QED BY <1>1, <3>1, <3>4
  <2>3. \A p, q \in Paths : IsFile(p)' /\ IsFile(q)' /\ tree'[p].version = tree'[q].version => p = q
    BY <1>2, <1>10 DEF NodeRight, Versions
  <2>4. ASSUME NEW v \in 0..MaxVersion
        PROVE  outdated'[v] <= now' /\ (v > last' => outdated'[v] = 0)
    <3>1. outdated[v] <= now /\ (v > last => outdated[v] = 0) /\ now \in Nat
      BY <1>2, NodeFacts DEF NodeRight, Versions
    <3>2. outdated'[v] <= now
      BY <1>7, <3>1
    <3>3. ASSUME v > last PROVE outdated'[v] = 0
      <4>1. \A p \in Paths : tree[p] # FileWith(v)
        <5> SUFFICES ASSUME NEW p \in Paths, tree[p] = FileWith(v) PROVE FALSE
          OBVIOUS
        <5>1. IsFile(p) /\ tree[p].version = v
          BY EntryFacts DEF IsFile
        <5>2. v <= last /\ v \in Nat /\ last \in Nat
          BY <1>2, <5>1, NodeFacts, Constants DEF NodeRight, Versions
        <5> QED BY <3>3, <5>2
      <4> QED BY <1>7, <3>1, <3>3, <4>1
    <3> QED BY <1>1, <3>2, <3>3
  <2> QED BY <2>2, <2>3, <2>4 DEF Versions
<1>12. NodeRight'
  <2>1. ModeRight(attrs)' /\ ModeKept'
    BY <1>1, <1>2, <1>7 DEF NodeRight, ModeRight, ModeKept
  <2>2. Visible'
    BY <1>1, <1>2, <1>6, <1>10 DEF NodeRight, Visible, Shows, Expired
  <2> QED BY <1>7, <1>11, <2>1, <2>2 DEF NodeRight
<1>13. \A u \in Threads : u # t => ThreadRight(u)'
  <2> SUFFICES ASSUME NEW u \in Threads, u # t PROVE ThreadRight(u)'
    OBVIOUS
  <2>1. IsFile(Own)' => tree'[Own] = tree[Own] \/ tree'[Own].version = last + 1
    BY <1>6, <1>10
  <2>2. pc'[u] = pc[u] /\ call'[u] = call[u] /\ since'[u] = since[u]
    BY <1>1, <1>4
  <2>3. UNCHANGED <<now, attrs, promised, granted>> /\ last' \in {last, last + 1}
    BY <1>1
  <2> QED BY <1>7, <2>1, <2>2, <2>3, Overtaken
<1>14. ThreadRight(t)'
  <2>1. call'[t] = NoCall
    BY <1>1, <1>2 DEF ThreadRight, Called
  <2> QED BY <1>4, <2>1, NothingToShow
<1> QED BY <1>8, <1>9, <1>12, <1>13, <1>14 DEF Inv, ThreadsRight

\* A flush creates its file, with the mode that is cached, or fails.
LEMMA FlushCreateStep ==
  ASSUME Inv, NEW t \in Threads, FlushCreate(t)
  PROVE  Inv'
<1> DEFINE path == Joined(attrs.name)
<1>1. /\ UNCHANGED <<now, attrs, promised, since, granted>>
      /\ pc[t] = "flushCreate" /\ (Succeeds \/ Fails)
      /\ \/ /\ tree[path].kind = "none" /\ Renew(path)
            /\ mode' = (IF path = Own THEN attrs.mode ELSE mode)
            /\ Goto(t, "flushClose")
            /\ call' = [call EXCEPT ![t].path = path, ![t].version = last + 1]
         \/ Goto(t, "invalidate") /\ UNCHANGED <<tree, mode, last, outdated, call>>
  BY DEF FlushCreate
<1>2. NodeTyped /\ ThreadsTyped /\ NodeRight /\ ThreadRight(t) /\ TypeOK /\ Budget
  BY TypeParts DEF Inv, ThreadsRight
<1>3. path \in Paths /\ (path = Own <=> attrs.name = "f") /\ Own \in Paths
  BY <1>2, NodeFacts, PathFacts
<1> HIDE DEF path
<1>4. faults' \in 0..MaxFaults
  BY <1>1, <1>2, Constants DEF NodeTyped, Succeeds, Fails
<1>5. CASE /\ tree[path].kind = "none" /\ Renew(path)
           /\ mode' = (IF path = Own THEN attrs.mode ELSE mode)
           /\ Goto(t, "flushClose")
           /\ call' = [call EXCEPT ![t].path = path, ![t].version = last + 1]
  <2>1. /\ pc' \in [Threads -> {"idle"} \cup AttrPcs \cup FlushPcs \cup SetattrPcs]
        /\ pc'[t] = "flushClose" /\ \A u \in Threads : u # t => pc'[u] = pc[u]
    BY <1>2, <1>5, Going DEF FlushPcs
  <2>2. last' = last + 1
    BY <1>5 DEF Renew
  <2>3. Budget' /\ last + 1 \in 0..MaxVersion
    <3>1. t \in Creators /\ Writers' = Writers /\ Creators' = Creators \ {t}
      BY <1>1, <2>1 DEF Writers, Creators
    <3> QED BY <1>2, <2>2, <3>1, Spent
  <2>4. /\ tree' \in [Paths -> Entries] /\ outdated' \in [0..MaxVersion -> 0..MaxTime]
        /\ tree'[path] = FileWith(last + 1)
        /\ \A q \in Paths : q # path => tree'[q] = tree[q]
        /\ \A v \in 0..MaxVersion : outdated'[v] \in {outdated[v], now}
        /\ IsFile(Own)' => tree'[Own] = tree[Own] \/ tree'[Own].version = last + 1
        /\ Versions' /\ Fresh' /\ Visible'
    BY <1>1, <1>3, <1>5, <2>3, Renewing
  <2>5. call' \in [Threads -> CallsOf] /\ \A u \in Threads : u # t => call'[u] = call[u]
    <3> DEFINE c == [call[t] EXCEPT !.path = path, !.version = last + 1]
    <3>1. call[t] \in CallsOf
      BY <1>2 DEF ThreadsTyped
    <3>2. c \in CallsOf
      BY <1>3, <2>3, <3>1 DEF CallsOf
    <3>3. call' = [call EXCEPT ![t] = c]
      BY <1>2, <1>5 DEF ThreadsTyped
    <3> HIDE DEF c
    <3> QED BY <1>2, <3>2, <3>3, CallingFor
  <2>6. path = Own => attrs.mode \in Modes /\ (granted # NoMode => attrs.mode = granted)
    BY <1>2, <1>3 DEF NodeRight, ModeRight
  <2>7. mode' \in Modes \cup {NoMode} /\ (mode' = NoMode <=> tree'[Own].kind = "none")
    <3>1. CASE path = Own
      BY <1>5, <2>4, <2>6, <3>1, EntryFacts, ModeFacts
    <3>2. CASE path # Own
      BY <1>2, <1>3, <1>5, <2>4, <3>2 DEF NodeTyped
    <3> QED BY <3>1, <3>2
  <2>8. TypeOK'
    BY <1>1, <1>2, <1>4, <2>1, <2>2, <2>3, <2>4, <2>5, <2>7, TypePartsNext DEF NodeTyped, ThreadsTyped
  <2>9. NodeRight'
    <3>1. ModeRight(attrs)'
      BY <1>1, <1>2 DEF NodeRight, ModeRight
    <3>2. ModeKept'
      BY <1>1, <1>2, <1>5, <2>6 DEF NodeRight, ModeKept
    <3> QED BY <2>4, <3>1, <3>2 DEF NodeRight
  <2>10. \A u \in Threads : u # t => ThreadRight(u)'
    <3> SUFFICES ASSUME NEW u \in Threads, u # t PROVE ThreadRight(u)'
      OBVIOUS
    <3>1. pc'[u] = pc[u] /\ call'[u] = call[u] /\ since'[u] = since[u]
      BY <1>1, <2>1, <2>5
    <3>2. UNCHANGED <<now, attrs, promised, granted>> /\ last' \in {last, last + 1}
      BY <1>1, <2>2
    <3> QED BY <2>4, <3>1, <3>2, Overtaken
  <2>11. ThreadRight(t)'
    BY <2>1, NothingToShow
  <2> QED BY <2>3, <2>8, <2>9, <2>10, <2>11 DEF Inv, ThreadsRight
<1>6. CASE Goto(t, "invalidate") /\ UNCHANGED <<tree, mode, last, outdated, call>>
  <2>1. /\ pc' \in [Threads -> {"idle"} \cup AttrPcs \cup FlushPcs \cup SetattrPcs]
        /\ pc'[t] = "invalidate" /\ \A u \in Threads : u # t => pc'[u] = pc[u]
    BY <1>2, <1>6, Going DEF FlushPcs
  <2>2. TypeOK'
    BY <1>1, <1>2, <1>4, <1>6, <2>1, TypePartsNext DEF NodeTyped, ThreadsTyped
  <2>3. Budget'
    <3>1. Writers' \subseteq Writers /\ Creators' \subseteq Creators
      BY <2>1 DEF Writers, Creators
    <3> QED BY <1>2, <1>6, <3>1, SameBudget
  <2>4. NodeRight' /\ \A u \in Threads : u # t => ThreadRight(u)'
    BY <1>1, <1>6, <2>1, NodeKept, OthersKept DEF Others
  <2>5. ThreadRight(t)'
    <3>1. call'[t] = NoCall
      BY <1>1, <1>2, <1>6 DEF ThreadRight, Called
    <3>2. last \in Nat /\ tree[Own].version \in Nat
      BY <1>2, <1>3, NodeFacts
    <3>3. 0 <= last' /\ (IsFile(Own)' => tree'[Own].version >= 0)
      BY <1>6, <3>2
    <3> QED BY <2>1, <3>1, <3>3, NothingToShow
  <2> QED BY <2>2, <2>3, <2>4, <2>5 DEF Inv, ThreadsRight
<1> QED BY <1>1, <1>5, <1>6

\* A flush stores its contents, unless somebody has replaced its file, or fails.
LEMMA FlushCloseStep ==
  ASSUME Inv, NEW t \in Threads, FlushClose(t)
  PROVE  Inv'
<1> DEFINE path == call[t].path
<1>1. /\ UNCHANGED <<mode, now, attrs, promised, since, granted>>
      /\ pc[t] = "flushClose" /\ Goto(t, "invalidate") /\ (Succeeds \/ Fails)
      /\ \/ /\ tree[path] = FileWith(call[t].version) /\ Renew(path)
            /\ call' = [call EXCEPT ![t].version = last + 1]
         \/ call' = [call EXCEPT ![t] = NoCall] /\ UNCHANGED <<tree, last, outdated>>
  BY DEF FlushClose
<1>2. NodeTyped /\ ThreadsTyped /\ NodeRight /\ ThreadRight(t) /\ TypeOK /\ Budget
  BY TypeParts DEF Inv, ThreadsRight
<1>3. path \in Paths /\ Own \in Paths /\ call[t] \in CallsOf
  <2>1. call[t] \in CallsOf
    BY <1>2 DEF ThreadsTyped
  <2> QED BY <2>1, CallTypes, PathFacts
<1>4. faults' \in 0..MaxFaults
  BY <1>1, <1>2, Constants DEF NodeTyped, Succeeds, Fails
<1>5. /\ pc' \in [Threads -> {"idle"} \cup AttrPcs \cup FlushPcs \cup SetattrPcs]
      /\ pc'[t] = "invalidate" /\ \A u \in Threads : u # t => pc'[u] = pc[u]
  BY <1>1, <1>2, Going DEF FlushPcs
<1>6. CASE /\ tree[path] = FileWith(call[t].version) /\ Renew(path)
           /\ call' = [call EXCEPT ![t].version = last + 1]
  <2>1. last' = last + 1
    BY <1>6 DEF Renew
  <2>2. Budget' /\ last + 1 \in 0..MaxVersion
    <3>1. t \in Writers /\ Writers' = Writers \ {t} /\ Creators' = Creators
      BY <1>1, <1>5 DEF Writers, Creators
    <3> QED BY <1>2, <2>1, <3>1, Spent
  <2>3. /\ tree' \in [Paths -> Entries] /\ outdated' \in [0..MaxVersion -> 0..MaxTime]
        /\ tree'[path] = FileWith(last + 1)
        /\ \A q \in Paths : q # path => tree'[q] = tree[q]
        /\ \A v \in 0..MaxVersion : outdated'[v] \in {outdated[v], now}
        /\ IsFile(Own)' => tree'[Own] = tree[Own] \/ tree'[Own].version = last + 1
        /\ Versions' /\ Fresh' /\ Visible'
    BY <1>1, <1>3, <1>6, <2>2, Renewing
  <2>4. /\ call' \in [Threads -> CallsOf] /\ \A u \in Threads : u # t => call'[u] = call[u]
        /\ call'[t].path = path /\ call'[t].version = last + 1
    <3> DEFINE c == [call[t] EXCEPT !.version = last + 1]
    <3>1. c \in CallsOf /\ c.path = path /\ c.version = last + 1
      BY <1>3, <2>2 DEF CallsOf
    <3>2. call' = [call EXCEPT ![t] = c]
      BY <1>2, <1>6 DEF ThreadsTyped
    <3> HIDE DEF c, path
    <3> QED BY <1>2, <3>1, <3>2, CallingFor
  <2> HIDE DEF path
  <2>5. mode' \in Modes \cup {NoMode} /\ (mode' = NoMode <=> tree'[Own].kind = "none")
    <3>1. CASE path = Own
      BY <1>1, <1>2, <1>6, <2>3, <3>1, EntryFacts DEF NodeTyped
    <3>2. CASE path # Own
      BY <1>1, <1>2, <1>3, <2>3, <3>2 DEF NodeTyped
    <3> QED BY <3>1, <3>2
  <2>6. TypeOK'
    BY <1>1, <1>2, <1>4, <1>5, <2>1, <2>2, <2>3, <2>4, <2>5, TypePartsNext DEF NodeTyped, ThreadsTyped
  <2>7. NodeRight'
    BY <1>1, <1>2, <2>3 DEF NodeRight, ModeRight, ModeKept
  <2>8. \A u \in Threads : u # t => ThreadRight(u)'
    <3> SUFFICES ASSUME NEW u \in Threads, u # t PROVE ThreadRight(u)'
      OBVIOUS
    <3>1. pc'[u] = pc[u] /\ call'[u] = call[u] /\ since'[u] = since[u]
      BY <1>1, <1>5, <2>4
    <3>2. UNCHANGED <<now, attrs, promised, granted>> /\ last' \in {last, last + 1}
      BY <1>1, <2>1
    <3> QED BY <2>3, <3>1, <3>2, Overtaken
  <2>9. ThreadRight(t)'
    <3>1. Called(t)' /\ ModeKnown(t)' /\ FreshTo(t)'
      BY <1>5 DEF Called, ModeKnown, FreshTo, SetattrPcs
    <3>2. call'[t].path = Own => call'[t].version <= last' /\ tree'[Own].version >= call'[t].version
      <4>1. last + 1 \in Nat /\ FileWith(last + 1).version = last + 1
        BY <2>2, Constants, EntryFacts
      <4> QED BY <2>1, <2>3, <2>4, <4>1
    <3>3. VisibleTo(t)'
      BY <1>5, <3>2 DEF VisibleTo, AttrPcs
    <3> QED BY <3>1, <3>3 DEF ThreadRight
  <2> QED BY <2>2, <2>6, <2>7, <2>8, <2>9 DEF Inv, ThreadsRight
<1>7. CASE call' = [call EXCEPT ![t] = NoCall] /\ UNCHANGED <<tree, last, outdated>>
  <2>1. call' \in [Threads -> CallsOf] /\ call'[t] = NoCall /\ \A u \in Threads : u # t => call'[u] = call[u]
    BY <1>2, <1>7, CallingFor, NothingFacts
  <2>2. TypeOK'
    BY <1>1, <1>2, <1>4, <1>5, <1>7, <2>1, TypePartsNext DEF NodeTyped, ThreadsTyped
  <2>3. Budget'
    <3>1. Writers' \subseteq Writers /\ Creators' \subseteq Creators
      BY <1>5 DEF Writers, Creators
    <3> QED BY <1>2, <1>7, <3>1, SameBudget
  <2>4. NodeRight' /\ \A u \in Threads : u # t => ThreadRight(u)'
    BY <1>1, <1>5, <1>7, <2>1, NodeKept, OthersKept DEF Others
  <2>5. ThreadRight(t)'
    <3>1. last \in Nat /\ tree[Own].version \in Nat
      BY <1>2, <1>3, NodeFacts
    <3>2. 0 <= last' /\ (IsFile(Own)' => tree'[Own].version >= 0)
      BY <1>7, <3>1
    <3> QED BY <1>5, <2>1, <3>2, NothingToShow
  <2> QED BY <2>2, <2>3, <2>4, <2>5 DEF Inv, ThreadsRight
<1> QED BY <1>1, <1>6, <1>7

\* The file gets its mode, or may have got it; nothing is granted meanwhile.
LEMMA ChmodStep ==
  ASSUME Inv, NEW t \in Threads, Chmod(t)
  PROVE  Inv'
<1> DEFINE path == call[t].path
           m == call[t].mode
<1>1. /\ UNCHANGED <<tree, last, now, attrs, outdated, promised, since, granted>>
      /\ pc[t] = "chmod" /\ (Succeeds \/ Fails)
      /\ \/ /\ tree[path].kind # "none" /\ mode' = (IF path = Own THEN m ELSE mode)
            /\ Goto(t, "setMode") /\ UNCHANGED call
         \/ /\ mode' \in {mode, IF path = Own /\ mode # NoMode THEN m ELSE mode}
            /\ Goto(t, "idle") /\ call' = [call EXCEPT ![t] = NoCall]
  BY DEF Chmod, Finish, ghosts
<1>2. NodeTyped /\ ThreadsTyped /\ NodeRight /\ ThreadRight(t) /\ TypeOK /\ Budget
  BY TypeParts DEF Inv, ThreadsRight
<1>3. m \in Modes /\ m # NoMode
  BY <1>1, <1>2, ModeFacts DEF ThreadRight, Called, SetattrPcs
<1>4. granted = NoMode
  BY <1>1, <1>2 DEF ThreadRight, ModeKnown, SetattrPcs
<1> HIDE DEF path, m
<1>5. faults' \in 0..MaxFaults
  BY <1>1, <1>2, Constants DEF NodeTyped, Succeeds, Fails
<1>6. mode' \in Modes \cup {NoMode} /\ (mode' = NoMode <=> tree'[Own].kind = "none")
  BY <1>1, <1>2, <1>3 DEF NodeTyped
<1>7. /\ pc' \in [Threads -> {"idle"} \cup AttrPcs \cup FlushPcs \cup SetattrPcs]
      /\ call' \in [Threads -> CallsOf] /\ Others(t)
      /\ \/ pc'[t] = "setMode" /\ call'[t] = call[t]
         \/ pc'[t] = "idle" /\ call'[t] = NoCall
  <2>1. CASE Goto(t, "setMode") /\ UNCHANGED call
    <3>1. /\ pc' \in [Threads -> {"idle"} \cup AttrPcs \cup FlushPcs \cup SetattrPcs]
          /\ pc'[t] = "setMode" /\ \A u \in Threads : u # t => pc'[u] = pc[u]
      BY <1>2, <2>1, Going DEF SetattrPcs
    <3> QED BY <1>1, <1>2, <2>1, <3>1 DEF Others, ThreadsTyped
  <2>2. CASE Goto(t, "idle") /\ call' = [call EXCEPT ![t] = NoCall]
    <3>1. /\ pc' \in [Threads -> {"idle"} \cup AttrPcs \cup FlushPcs \cup SetattrPcs]
          /\ pc'[t] = "idle" /\ \A u \in Threads : u # t => pc'[u] = pc[u]
      BY <1>2, <2>2, Going
    <3>2. call' \in [Threads -> CallsOf] /\ call'[t] = NoCall /\ \A u \in Threads : u # t => call'[u] = call[u]
      BY <1>2, <2>2, CallingFor, NothingFacts
    <3> QED BY <1>1, <3>1, <3>2 DEF Others
  <2> QED BY <1>1, <2>1, <2>2
<1>8. TypeOK'
  BY <1>1, <1>2, <1>5, <1>6, <1>7, TypePartsNext DEF NodeTyped, ThreadsTyped
<1>9. Budget'
  <2>1. Writers' \subseteq Writers /\ Creators' \subseteq Creators
    BY <1>7 DEF Writers, Creators, Others
  <2> QED BY <1>1, <1>2, <2>1, SameBudget
<1>10. NodeRight'
  <2>1. Versions' /\ ModeRight(attrs)'
    BY <1>1, <1>2 DEF NodeRight, Versions, IsFile, ModeRight
  <2>2. ModeKept'
    BY <1>1, <1>4 DEF ModeKept
  <2>3. Fresh' /\ Visible'
    BY <1>1, <1>2 DEF NodeRight, Fresh, Visible, IsFile, Shows, Expired
  <2> QED BY <2>1, <2>2, <2>3 DEF NodeRight
<1>11. \A u \in Threads : u # t => ThreadRight(u)'
  BY <1>1, <1>7, OthersKept
<1>12. ThreadRight(t)'
  <2>1. CASE pc'[t] = "setMode" /\ call'[t] = call[t]
    BY <1>1, <1>2, <1>3, <1>4, <2>1 DEF ThreadRight, Called, ModeKnown, FreshTo, VisibleTo, AttrPcs, m
  <2>2. CASE pc'[t] = "idle" /\ call'[t] = NoCall
    BY <2>2, NothingToShow
  <2> QED BY <1>7, <2>1, <2>2
<1> QED BY <1>8, <1>9, <1>10, <1>11, <1>12 DEF Inv, ThreadsRight

-----------------------------------------------------------------------------
(* The invariant, and what follows *)

\* The invariant holds at the beginning.
LEMMA InvInit == Init => Inv
<1> SUFFICES ASSUME Init PROVE Inv
  OBVIOUS
<1> USE DEF Init
<1>1. NodeTyped
  <2>1. tree \in [Paths -> Entries] /\ tree[Own] = FileWith(0)
    BY EntryFacts, Constants DEF Own, Paths
  <2>2. mode \in Modes /\ mode # NoMode /\ tree[Own].kind # "none"
    BY <2>1, EntryFacts DEF Modes, NoMode
  <2>3. attrs \in AllAttributes
    BY EntryFacts, Constants DEF Attributes, AllAttributes, Modes
  <2>4. now \in 1..MaxTime
    BY Constants
  <2>5. outdated \in [0..MaxVersion -> 0..MaxTime]
    BY Constants
  <2>6. last \in 0..MaxVersion /\ faults \in 0..MaxFaults /\ promised \in 0..MaxVersion /\ granted \in Modes \cup {NoMode}
    BY Constants
  <2> QED BY <2>1, <2>2, <2>3, <2>4, <2>5, <2>6 DEF NodeTyped
<1>2. ThreadsTyped
  BY NothingFacts, Constants DEF ThreadsTyped
<1>3. Budget
  <2>1. Writers = {} /\ Creators = {}
    BY DEF Writers, Creators
  <2> QED BY <2>1, FS_EmptySet, Constants DEF Budget
<1>4. Versions
  <2>1. \A p \in Paths : tree[p] = Directory \/ tree[p] = Nothing \/ (p = Own /\ tree[p] = FileWith(0))
    OBVIOUS
  <2>2. \A p \in Paths : IsFile(p) => p = Own /\ tree[p].version = 0
    BY <2>1, EntryFacts DEF IsFile
  <2>3. outdated[0] = 0 /\ \A v \in 0..MaxVersion : outdated[v] = 0
    BY Constants
  <2> QED BY <2>2, <2>3 DEF Versions
<1>5. attrs.name = "f" /\ attrs.entry = FileWith(0) /\ attrs.mode = 1 /\ attrs.expires = 0
  BY DEF Attributes
<1>6. ModeRight(attrs) /\ ModeKept
  BY <1>5 DEF ModeRight, ModeKept, Modes
<1>7. Fresh
  <2>1. attrs.expires <= now + Lifetime
    BY <1>5, Constants
  <2>2. \A v \in 0..MaxVersion : outdated[v] = 0
    OBVIOUS
  <2> QED BY <2>1, <2>2 DEF Fresh
<1>8. Visible
  <2>1. tree[Own].version = 0
    BY PathFacts, EntryFacts DEF Own
  <2>2. \A v \in 0..MaxVersion : v >= 0
    OBVIOUS
  <2> QED BY <2>1, <2>2 DEF Visible
<1>9. ThreadsRight
  BY DEF ThreadsRight, ThreadRight, Called, ModeKnown, FreshTo, VisibleTo, AttrPcs, SetattrPcs
<1> QED BY <1>1, <1>2, <1>3, <1>4, <1>6, <1>7, <1>8, <1>9, TypeParts DEF Inv, NodeRight

\* Every step keeps the invariant.
LEMMA InvNext == Inv /\ [Next]_vars => Inv'
<1> SUFFICES ASSUME Inv, [Next]_vars PROVE Inv'
  OBVIOUS
<1>1. CASE Remote
  BY <1>1, RemoteStep
<1>2. CASE Tick
  BY <1>2, TickStep
<1>3. CASE Release
  BY <1>3, ReleaseStep
<1>4. ASSUME NEW t \in Threads, Attr(t) PROVE Inv'
  BY <1>4, AttrStep
<1>5. ASSUME NEW t \in Threads, Stat(t) PROVE Inv'
  BY <1>5, StatStep
<1>6. ASSUME NEW t \in Threads, Store(t) PROVE Inv'
  BY <1>6, StoreStep
<1>7. ASSUME NEW t \in Threads, Answer(t) PROVE Inv'
  BY <1>7, AnswerStep
<1>8. ASSUME NEW t \in Threads, FlushStart(t) PROVE Inv'
  BY <1>8, FlushStartStep
<1>9. ASSUME NEW t \in Threads, FlushRemove(t) PROVE Inv'
  BY <1>9, FlushRemoveStep
<1>10. ASSUME NEW t \in Threads, FlushCreate(t) PROVE Inv'
  BY <1>10, FlushCreateStep
<1>11. ASSUME NEW t \in Threads, FlushClose(t) PROVE Inv'
  BY <1>11, FlushCloseStep
<1>12. ASSUME NEW t \in Threads, Invalidate(t) PROVE Inv'
  BY <1>12, InvalidateStep
<1>13. ASSUME NEW t \in Threads, NEW m \in Modes, Setattr(t, m) PROVE Inv'
  BY <1>13, SetattrStep
<1>14. ASSUME NEW t \in Threads, Chmod(t) PROVE Inv'
  BY <1>14, ChmodStep
<1>15. ASSUME NEW t \in Threads, SetMode(t) PROVE Inv'
  BY <1>15, SetModeStep
<1>16. CASE UNCHANGED vars
  BY <1>16 DEF vars, hdfs, threads, ghosts, Inv, TypeOK, Budget, Claimed, Writers, Creators, NodeRight,
               Versions, IsFile, ModeRight, ModeKept, Fresh, Shows, Expired, Visible, ThreadsRight,
               ThreadRight, Called, ModeKnown, FreshTo, VisibleTo
<1> QED BY <1>1, <1>2, <1>3, <1>4, <1>5, <1>6, <1>7, <1>8, <1>9, <1>10, <1>11, <1>12, <1>13, <1>14, <1>15, <1>16 DEF Next

\* The invariant holds always.
LEMMA InvAlways == Spec => []Inv
BY InvInit, InvNext, PTL DEF Spec

\* The variables stay in their types: no name that gets into the cache leads to a path
\* outside of those of the directory, its file, and the path a lookup of the
\* directory's name makes (Dir.go:183); and the versions of the model are enough for
\* every flush that has begun.
THEOREM TypeCorrect == Spec => []TypeOK
<1>1. Inv => TypeOK
  BY DEF Inv
<1> QED BY <1>1, InvAlways, PTL

\* A mode given by Setattr is kept by all rewrites, whatever comes in between
\* (File.go:147, FileHandleWriter.go:130).
THEOREM ModeIsKept == Spec => []ModeKept
<1>1. Inv => ModeKept
  BY DEF Inv, NodeRight
<1> QED BY <1>1, InvAlways, PTL

\* An answer of Attr is never older than the lifetime of the cache
\* (File.go:39-47, Dir.go:191-192).
THEOREM AnswersAreFresh == Spec => StalenessBounded
<1>1. Inv /\ [Next]_vars =>
        [\A t \in Threads, v \in 0..MaxVersion :
           Answers(t, v) => outdated[v] = 0 \/ now <= outdated[v] + Lifetime]_vars
  <2> SUFFICES ASSUME Inv, NEW t \in Threads, NEW v \in 0..MaxVersion, Answers(t, v)
               PROVE  outdated[v] = 0 \/ now <= outdated[v] + Lifetime
    OBVIOUS
  <2>1. FreshTo(t)
    BY DEF Inv, ThreadsRight, ThreadRight
  <2>2. pc[t] = "answer" /\ Shows(attrs, v)
    BY DEF Answers, Shows
  <2> QED BY <2>1, <2>2 DEF FreshTo
<1> QED BY <1>1, InvAlways, PTL DEF Spec, StalenessBounded

\* What a flush has stored is what an Attr begun later shows, or something newer
\* (FileHandleWriter.go:108).
THEOREM AnswersShowFlushes == Spec => FlushVisible
<1>1. Inv /\ [Next]_vars =>
        [\A t \in Threads, v \in 0..MaxVersion : Answers(t, v) => v >= since[t]]_vars
  <2> SUFFICES ASSUME Inv, NEW t \in Threads, NEW v \in 0..MaxVersion, Answers(t, v)
               PROVE  v >= since[t]
    OBVIOUS
  <2>1. VisibleTo(t)
    BY DEF Inv, ThreadsRight, ThreadRight
  <2>2. pc[t] = "answer" /\ Shows(attrs, v)
    BY DEF Answers, Shows
  <2> QED BY <2>1, <2>2 DEF VisibleTo, AttrPcs
<1> QED BY <1>1, InvAlways, PTL DEF Spec, FlushVisible
=============================================================================
