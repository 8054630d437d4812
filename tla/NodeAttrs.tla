----------------------------- MODULE NodeAttrs -----------------------------
(***************************************************************************)
(* The attribute cache of a File node (File.go, Dir.LookupAttrs in         *)
(* Dir.go): Attr answers from the cache for five seconds, then asks HDFS.  *)
(* The cached attributes hold the name of the node too, and the node's     *)
(* path is made of it: what a goroutine stores in the cache decides which  *)
(* HDFS file the flushes of the node's handles remove and create; and the  *)
(* mode, which Setattr changes and every rewrite gives to the new file.    *)
(*                                                                         *)
(* No lock protects the cache.  One file f, in directory dir, whose own    *)
(* path does not change; time is counted in ticks, against which the steps *)
(* of a goroutine that needs no answer from HDFS take no time.             *)
(***************************************************************************)
EXTENDS Naturals, FiniteSets

CONSTANTS Threads,    \* goroutines
          Lifetime,   \* how long attributes stay in the cache
          MaxTime,    \* bound on the time
          MaxVersion, \* bound on the versions of the file
          MaxFaults   \* bound on the failures of HDFS

ASSUME BoundsAssumption ==
  /\ Lifetime \in Nat /\ MaxTime \in Nat \ {0}
  /\ MaxVersion \in Nat /\ MaxFaults \in Nat
ASSUME ThreadsAssumption == IsFiniteSet(Threads)

VARIABLES
  tree,     \* HDFS: what is at each path
  mode,     \* HDFS: the mode of the file at the node's own path (NoMode: no file)
  last,     \* the last version any file was given
  faults,   \* failures so far
  now,      \* the clock
  attrs,    \* File.Attrs
  pc, call, \* the step each goroutine is at, and what it works with
  (* History, read by the properties only: *)
  outdated, \* when each version stopped to be the file's (0: not yet)
  promised, \* the version that an Attr begun now should show at least: that of the
            \* last successful flush during whose invalidation no Attr was under way
  since,    \* per goroutine: promised at the time its Attr began
  granted   \* the mode that the last Setattr has given the file, or NoMode

hdfs    == <<tree, mode, last, faults>>
threads == <<pc, call>>
ghosts  == <<outdated, promised, since, granted>>
vars    == <<hdfs, now, attrs, threads, ghosts>>

-----------------------------------------------------------------------------
\* The directory, the file, and the path of a file that has the directory's name
Paths == {"dir", "dir/f", "dir/dir"}
Own   == "dir/f"

Nothing     == [kind |-> "none", version |-> 0]
Directory   == [kind |-> "dir", version |-> 0]
FileWith(v) == [kind |-> "file", version |-> v]

\* The modes that are told apart, and that of nothing, or of another path.
Modes  == {1, 2}
NoMode == 0

\* Attributes: a name, and what Stat says of the file.  The expiration time
\* of attributes that are not from LookupAttrs is the zero time.
Attributes(n, entry, m, e) == [name |-> n, entry |-> entry, mode |-> m, expires |-> e]
NoAttributes == Attributes("", Nothing, NoMode, 0)

\* Mutant: concatenation, as AbsolutePathForChild does it.
Concatenated(name) == CASE name = "f" -> "dir/f" [] name = "" -> "dir/" [] name = "dir" -> "dir/dir"

\* File.AbsolutePath, and LookupAttrs for the directory: path.Join
Joined(name) == CASE name = "f" -> "dir/f" [] name = "" -> "dir" [] name = "dir" -> "dir/dir"

\* The name Stat returns: the last element of the path
Base(path) == IF path = "dir/f" THEN "f" ELSE "dir"

\* A request: the path and the version of the file a flush writes, the path
\* Stat asks for and its answer, or the path and the mode of Setattr
NoCall == [path |-> Own, reply |-> NoAttributes, version |-> 0, mode |-> NoMode]

\* Init: the node as Dir.NodeFromAttrs makes it for a listing (Expires is zero)
Init ==
  /\ tree = [p \in Paths |-> CASE p = "dir" -> Directory [] p = Own -> FileWith(0) [] OTHER -> Nothing]
  /\ mode = 1 /\ last = 0 /\ faults = 0
  /\ now = 1
  /\ attrs = Attributes("f", FileWith(0), 1, 0)
  /\ pc = [t \in Threads |-> "idle"] /\ call = [t \in Threads |-> NoCall]
  /\ outdated = [v \in 0..MaxVersion |-> 0]
  /\ promised = 0 /\ since = [t \in Threads |-> 0] /\ granted = NoMode

-----------------------------------------------------------------------------
Goto(t, p) == pc' = [pc EXCEPT ![t] = p]
Finish(t)  == Goto(t, "idle") /\ call' = [call EXCEPT ![t] = NoCall]
Succeeds   == UNCHANGED faults
Fails      == faults < MaxFaults /\ faults' = faults + 1

FlushPcs == {"flushRemove", "flushCreate", "flushClose", "invalidate"}
AttrPcs  == {"stat", "store", "answer"}
SetattrPcs == {"chmod", "setMode"}

\* Versions in use, or about to be used by the flushes under way
Claimed == last + 2 * Cardinality({t \in Threads : pc[t] \in FlushPcs})

\* The versions of the files at the given paths are not theirs any more.
Outdate(paths) ==
  outdated' = [v \in 0..MaxVersion |->
                 IF \E p \in paths : tree[p] = FileWith(v) THEN now ELSE outdated[v]]

Below(path) == IF path = "dir" THEN Paths ELSE {path}

\* What is at the path gets a new version.
Renew(path) ==
  /\ last' = last + 1
  /\ tree' = [tree EXCEPT ![path] = FileWith(last + 1)]
  /\ Outdate({path})

\* Another client of HDFS changes the file.
Remote ==
  /\ tree[Own].kind = "file" /\ Claimed < MaxVersion
  /\ Renew(Own)
  /\ UNCHANGED <<mode, faults, now, attrs, threads, promised, since, granted>>

\* A goroutine with an answer at hand goes on at once.
Tick ==
  /\ now < MaxTime /\ \A t \in Threads : pc[t] \notin {"store", "answer", "setMode"}
  /\ now' = now + 1
  /\ UNCHANGED <<hdfs, attrs, threads, ghosts>>

-----------------------------------------------------------------------------
(* File.Attr *)

\* Mutant: an expired entry is used for one tick more.
ExpiredLate(e) == now > e + 1

\* Clock.Now().After(Attrs.Expires)
Expired(e) == now > e

Attr(t) ==
  /\ pc[t] = "idle"
  /\ since' = [since EXCEPT ![t] = promised]
  /\ IF Expired(attrs.expires)
     THEN Goto(t, "stat") /\ call' = [call EXCEPT ![t].path = Joined(attrs.name)]
     ELSE Goto(t, "answer") /\ UNCHANGED call
  /\ UNCHANGED <<hdfs, now, attrs, outdated, promised, granted>>

ModeAt(path) == IF path = Own THEN mode ELSE NoMode

\* LookupAttrs: HdfsAccessor.Stat, which returns no attributes with an error
Stat(t) ==
  LET path == call[t].path IN
  /\ pc[t] = "stat" /\ Goto(t, "store")
  /\ \/ /\ tree[path].kind # "none" /\ Succeeds
        /\ call' = [call EXCEPT ![t].reply = Attributes(Base(path), tree[path], ModeAt(path), 0)]
     \/ /\ IF tree[path].kind = "none" THEN Succeeds ELSE Fails
        /\ call' = [call EXCEPT ![t].reply = NoAttributes]
  /\ UNCHANGED <<tree, mode, last, now, attrs, ghosts>>

\* ... whose result is stored, whether or not there was an error.
Store(t) ==
  LET reply == call[t].reply IN
  /\ pc[t] = "store"
  /\ IF reply = NoAttributes
     THEN /\ attrs' = NoAttributes
          /\ Finish(t) /\ since' = [since EXCEPT ![t] = 0]
     ELSE /\ attrs' = [reply EXCEPT !.expires = now + Lifetime]
          /\ Goto(t, "answer") /\ UNCHANGED <<call, since>>
  /\ UNCHANGED <<hdfs, now, outdated, promised, granted>>

\* The attributes are the cached ones, whoever stored them meanwhile.
Answer(t) ==
  /\ pc[t] = "answer"
  /\ Finish(t) /\ since' = [since EXCEPT ![t] = 0]
  /\ UNCHANGED <<hdfs, now, attrs, outdated, promised, granted>>

-----------------------------------------------------------------------------
(* FileHandleWriter.Flush: its uses of the node's path, and InvalidateMetadataCache *)

FlushStart(t) ==
  /\ pc[t] = "idle" /\ Claimed + 2 <= MaxVersion
  /\ Goto(t, "flushRemove")
  /\ UNCHANGED <<hdfs, now, attrs, call, ghosts>>

FlushRemove(t) ==
  LET path == Joined(attrs.name) IN
  /\ pc[t] = "flushRemove" /\ Goto(t, "flushCreate")
  /\ \/ /\ Succeeds
        /\ tree' = [p \in Paths |-> IF p \in Below(path) THEN Nothing ELSE tree[p]]
        /\ mode' = IF Own \in Below(path) THEN NoMode ELSE mode
        /\ Outdate(Below(path))
     \/ Fails /\ UNCHANGED <<tree, mode, outdated>>
  /\ UNCHANGED <<last, now, attrs, call, promised, since, granted>>

\* The parent directory of a path exists.
HasParent(path) == path = "dir" \/ tree["dir"].kind = "dir"

FlushCreate(t) ==
  LET path == Joined(attrs.name) IN
  /\ pc[t] = "flushCreate"
  /\ \/ /\ Succeeds /\ tree[path].kind = "none" /\ HasParent(path)
        /\ Renew(path) /\ mode' = IF path = Own THEN attrs.mode ELSE mode
        /\ Goto(t, "flushClose")
        /\ call' = [call EXCEPT ![t].path = path, ![t].version = last + 1]
     \/ /\ IF tree[path].kind = "none" /\ HasParent(path) THEN Fails ELSE Succeeds
        /\ Goto(t, "invalidate")
        /\ UNCHANGED <<tree, mode, last, outdated, call>>
  /\ UNCHANGED <<now, attrs, promised, since, granted>>

\* Upload and Close: fails if somebody has removed or replaced the file.
FlushClose(t) ==
  LET path == call[t].path
      mine == tree[path] = FileWith(call[t].version) IN
  /\ pc[t] = "flushClose" /\ Goto(t, "invalidate")
  /\ \/ /\ mine /\ Succeeds
        /\ Renew(path) /\ call' = [call EXCEPT ![t].version = last + 1]
     \/ /\ IF mine THEN Fails ELSE Succeeds
        /\ call' = [call EXCEPT ![t] = NoCall]
        /\ UNCHANGED <<tree, last, outdated>>
  /\ UNCHANGED <<mode, now, attrs, promised, since, granted>>

\* Mutant: the time of invalidation itself.
InvalidatedNow(n) == n

\* The expiration time that InvalidateMetadataCache sets
Invalidated(n) == n - 1

\* History: a flush that has stored version v in the file promises it to those
\* who ask from now on, if no Attr is under way.
Promise(v) ==
  promised' = IF v > promised /\ \A t \in Threads : pc[t] \notin AttrPcs THEN v ELSE promised

\* Deferred by Flush: runs when the flush has succeeded or failed.
Invalidate(t) ==
  /\ pc[t] = "invalidate"
  /\ attrs' = [attrs EXCEPT !.expires = Invalidated(now)]
  /\ Promise(IF call[t].path = Own THEN call[t].version ELSE 0)
  /\ Finish(t)
  /\ UNCHANGED <<hdfs, now, outdated, since, granted>>

\* FileHandle.Release
Release ==
  /\ attrs' = [attrs EXCEPT !.expires = Invalidated(now)]
  /\ UNCHANGED <<hdfs, now, threads, ghosts>>

-----------------------------------------------------------------------------
(* File.Setattr with a mode: the path is that of the node when it begins *)

Setattr(t, m) ==
  /\ pc[t] = "idle" /\ Goto(t, "chmod")
  /\ call' = [call EXCEPT ![t].path = Joined(attrs.name), ![t].mode = m]
  /\ granted' = NoMode
  /\ UNCHANGED <<hdfs, now, attrs, outdated, promised, since>>

\* HdfsAccessor.Chmod; one that fails may have taken effect.
Chmod(t) ==
  LET path == call[t].path IN
  /\ pc[t] = "chmod"
  /\ \/ /\ tree[path].kind # "none" /\ Succeeds
        /\ mode' = IF path = Own THEN call[t].mode ELSE mode
        /\ Goto(t, "setMode") /\ UNCHANGED call
     \/ /\ IF tree[path].kind = "none" THEN Succeeds ELSE Fails
        /\ mode' \in {mode, IF path = Own /\ mode # NoMode THEN call[t].mode ELSE mode}
        /\ Finish(t)
  /\ UNCHANGED <<tree, last, now, attrs, ghosts>>

\* Mutant: the mode is left to the next Attr.
ModeKeptOld(m) == attrs

WithMode(m) == [attrs EXCEPT !.mode = m]

\* History: the mode is granted if the file has it and no other goroutine is
\* amid an Attr or a Setattr.
SetMode(t) ==
  LET m == call[t].mode
      alone == \A u \in Threads \ {t} : pc[u] \notin AttrPcs \cup SetattrPcs IN
  /\ pc[t] = "setMode"
  /\ attrs' = WithMode(m)
  /\ granted' = IF alone /\ call[t].path = Own /\ mode = m THEN m ELSE NoMode
  /\ Finish(t)
  /\ UNCHANGED <<hdfs, now, outdated, promised, since>>

-----------------------------------------------------------------------------
Next ==
  \/ Remote \/ Tick \/ Release
  \/ \E t \in Threads :
       \/ Attr(t) \/ Stat(t) \/ Store(t) \/ Answer(t)
       \/ FlushStart(t) \/ FlushRemove(t) \/ FlushCreate(t) \/ FlushClose(t) \/ Invalidate(t)
       \/ Chmod(t) \/ SetMode(t) \/ \E m \in Modes : Setattr(t, m)

Spec == Init /\ [][Next]_vars

-----------------------------------------------------------------------------
(* Properties *)
Entries == [kind : {"none", "dir", "file"}, version : 0..MaxVersion]
AllAttributes == [name : {"", "f", "dir"}, entry : Entries, mode : Modes \cup {NoMode},
                  expires : 0..(MaxTime + Lifetime)]

\* The variables stay in their types; no name that gets into the cache leads to
\* a path outside of Paths (Dir.go:183).
TypeOK ==
  /\ tree \in [Paths -> Entries] /\ last \in 0..MaxVersion /\ faults \in 0..MaxFaults
  /\ mode \in Modes \cup {NoMode} /\ (mode = NoMode <=> tree[Own].kind = "none")
  /\ now \in 1..MaxTime /\ attrs \in AllAttributes
  /\ pc \in [Threads -> {"idle"} \cup AttrPcs \cup FlushPcs \cup SetattrPcs]
  /\ call \in [Threads -> [path : Paths, reply : AllAttributes, version : 0..MaxVersion,
                           mode : Modes \cup {NoMode}]]
  /\ outdated \in [0..MaxVersion -> 0..MaxTime]
  /\ promised \in 0..MaxVersion /\ since \in [Threads -> 0..MaxVersion]
  /\ granted \in Modes \cup {NoMode}

\* Goroutine t's Attr answers with the attributes of version v of the file.
Answers(t, v) ==
  /\ pc[t] = "answer" /\ pc'[t] = "idle"
  /\ attrs.name = "f" /\ attrs.entry = FileWith(v)

\* However the lookups of several goroutines, flushes and invalidations mix, an
\* answer of Attr is never older than the lifetime of the cache
\* (File.go:39-47, Dir.go:191-192).
StalenessBounded ==
  [][\A t \in Threads, v \in 0..MaxVersion :
       Answers(t, v) => outdated[v] = 0 \/ now <= outdated[v] + Lifetime]_vars

\* After a flush that has stored the file, an Attr begun later shows what is
\* stored, or something newer; unless another goroutine's Attr was under way when
\* the flush invalidated the cache (FileHandleWriter.go:108).
FlushVisible ==
  [][\A t \in Threads, v \in 0..MaxVersion : Answers(t, v) => v >= since[t]]_vars

\* A mode given by Setattr is not lost by the rewrites that follow, which create the
\* file anew with the cached mode, whatever Attrs, invalidations and failures come in
\* between (File.go:147, FileHandleWriter.go:130).
ModeKept == granted # NoMode /\ mode # NoMode => mode = granted

\* File.go:33: AbsolutePath is the "absolute path of the file in HDFS
\* namespace".
PathIsOwn == Joined(attrs.name) = Own
=============================================================================
