---------------------------- MODULE DurableFile ----------------------------
(***************************************************************************)
(* What an open file promises to the processes that write to it, however   *)
(* FileHandle and FileHandleWriter go about it: a write that has been      *)
(* acknowledged is stored when the next flush of the handle succeeds; if   *)
(* it fails, its caller is told; it is never simply forgotten; and an      *)
(* fsync that succeeds leaves nothing behind that was acknowledged before  *)
(* it through any handle, and has seen no flush of its own fail.           *)
(***************************************************************************)
CONSTANTS Threads,  \* goroutines that serve requests
          Handles,  \* the handles of the file
          None

VARIABLES unstored,  \* handles with acknowledged writes that are not stored yet
          told,      \* handles whose last flush returned an error to its caller
          flushing,  \* the handle that each goroutine flushes for a process, or None
          fsyncing,  \* goroutines that serve an fsync
          owed,      \* handles the fsync of each goroutine must still see flushed
          failing    \* those whose fsync will return an error

data == <<unstored, told>>
vars == <<data, flushing, fsyncing, owed, failing>>

Init ==
  /\ unstored = {} /\ told = {} /\ fsyncing = {} /\ failing = {}
  /\ flushing = [t \in Threads |-> None] /\ owed = [t \in Threads |-> {}]

Settled(h) == owed' = [t \in Threads |-> owed[t] \ {h}]
FlushOver(t) == flushing[t] # None /\ flushing' = [flushing EXCEPT ![t] = None]

\* A write through h is acknowledged.
Acknowledge(h) ==
  /\ unstored' = unstored \cup {h} /\ told' = told \ {h}
  /\ UNCHANGED <<flushing, fsyncing, owed, failing>>

\* What was written through h is stored.
Store(h) ==
  /\ unstored' = unstored \ {h} /\ told' = told \ {h} /\ Settled(h)
  /\ UNCHANGED <<flushing, fsyncing, failing>>

\* The flush of h has failed: its caller gets the error, at once or from fsync.
Tell(t, h) ==
  /\ told' = told \cup {h} /\ Settled(h)
  /\ \/ flushing[t] = h /\ FlushOver(t) /\ UNCHANGED failing
     \/ t \in fsyncing /\ failing' = failing \cup {t} /\ UNCHANGED flushing
  /\ UNCHANGED <<unstored, fsyncing>>

FlushStart(t, h) ==
  /\ flushing[t] = None /\ flushing' = [flushing EXCEPT ![t] = h]
  /\ UNCHANGED <<data, fsyncing, owed, failing>>

\* A flush succeeds.
FlushReturn(t) ==
  /\ FlushOver(t) /\ flushing[t] \notin unstored
  /\ UNCHANGED <<data, fsyncing, owed, failing>>

\* The handle is forgotten when its writes are stored, or an error was returned.
Forget(h) ==
  /\ h \notin unstored \ told
  /\ unstored' = unstored \ {h} /\ told' = told \ {h}
  /\ UNCHANGED <<flushing, fsyncing, owed, failing>>

FsyncStart(t) ==
  /\ t \notin fsyncing /\ fsyncing' = fsyncing \cup {t}
  /\ owed' = [owed EXCEPT ![t] = unstored \ told]
  /\ UNCHANGED <<data, flushing, failing>>

\* An fsync may fail for other reasons, but does not forget that it has failed.
Trouble == /\ failing \subseteq failing' /\ failing' \subseteq fsyncing
           /\ UNCHANGED <<data, flushing, fsyncing, owed>>

FsyncReturn(t) ==
  /\ t \in fsyncing /\ fsyncing' = fsyncing \ {t}
  /\ owed[t] = {} \/ t \in failing
  /\ owed' = [owed EXCEPT ![t] = {}] /\ failing' = failing \ {t}
  /\ UNCHANGED <<data, flushing>>

Next ==
  \/ \E h \in Handles : Acknowledge(h) \/ Store(h) \/ Forget(h)
  \/ \E t \in Threads, h \in Handles : Tell(t, h) \/ FlushStart(t, h)
  \/ \E t \in Threads : FlushReturn(t) \/ FsyncStart(t) \/ FsyncReturn(t)
  \/ Trouble

Spec == Init /\ [][Next]_vars
=============================================================================
