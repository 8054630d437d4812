----------------------------- MODULE FileHandle -----------------------------
(***************************************************************************)
(* The write side of an open file: File (File.go), FileHandle              *)
(* (FileHandle.go) and FileHandleWriter (FileHandleWriter.go) over one     *)
(* file of HDFS.                                                           *)
(*                                                                         *)
(* HDFS files cannot be changed in place.  A handle collects writes in a   *)
(* local staging file; a FUSE Flush or Fsync replaces the HDFS file by the *)
(* whole staging file: Remove, CreateFile, upload, Close.  Every step of   *)
(* that sequence can fail, and several FUSE requests, each served by a     *)
(* goroutine of its own (a member of Threads), run at the same time.       *)
(*                                                                         *)
(* Content is a set of Pieces: what the properties tell apart is which     *)
(* pieces of data a file holds, not where in the file they are.  The path  *)
(* of the file is fixed here.                                              *)
(***************************************************************************)
EXTENDS Naturals, FiniteSets

CONSTANTS Threads,      \* goroutines that serve FUSE requests
          Handles,      \* FileHandle objects; a released one is used again
          Pieces,       \* pieces of data
          Initial,      \* the pieces the file holds at first
          MaxAttempts,  \* RetryPolicy.MaxAttempts
          MaxFaults,    \* bound on the failures of HDFS and of the local disk
          None          \* nil

ASSUME InitialAssumption == Initial \subseteq Pieces
ASSUME BoundsAssumption  == MaxAttempts \in Nat \ {0} /\ MaxFaults \in Nat
ASSUME NoneAssumption    == None \notin Threads \cup Handles

VARIABLES
  file,      \* the HDFS file: exists, data, lease (who has it open for writing)
  faults,    \* failures so far
  hstate,    \* where each handle is in its life
  active,    \* File.activeHandles
  writer,    \* FileHandle.Writer: live (# nil), stage (content of the staging
             \* file), dirty (BytesWritten > 0)
  lock,      \* FileHandle.Mutex: the thread that holds it, or None
  pc, call,  \* the step each goroutine is at, and the request it serves
  (* History, read by the properties only: *)
  unsynced,    \* handles with acknowledged writes no flush has stored since
  flushFailed, \* those among them whose last flush returned an error
  reported,    \* the last operation that may have lost the file said so
  needs        \* per thread: what its Fsync still owes its caller

hdfs    == <<file, faults>>
handles == <<hstate, active, writer, lock>>
threads == <<pc, call>>
ghosts  == <<unsynced, flushFailed, reported, needs>>
vars    == <<hdfs, handles, threads, ghosts>>

-----------------------------------------------------------------------------
Errors    == {"none", "EOF", "other"}
FlushPcs  == {"flushRemove", "flushCreate", "flushUpload", "flushClose", "flushDone"}
OpenPcs   == {"newRemove", "newCreate", "newStage", "oldStage", "oldCopy"}
Pcs       == {"idle", "writeAt", "fsync", "fsyncFlush"} \cup FlushPcs \cup OpenPcs
Ops       == {"none", "open", "write", "flush", "close", "fsync"}

NilWriter == [live |-> FALSE, stage |-> {}, dirty |-> FALSE]
NewWriter(data) == [live |-> TRUE, stage |-> data, dirty |-> FALSE]
Staged(w, data, dirty) == [live |-> w.live, stage |-> w.stage \cup data, dirty |-> dirty]

\* A request: its kind, the handle the kernel sent it for (fd), the handle it
\* works on (hnd: Fsync visits all handles of the file), the handles Fsync has
\* yet to visit, the attempt and the last error of a flush, and File.Fsync's
\* retErr # nil.
Request(op, h) == [op |-> op, fd |-> h, hnd |-> h, todo |-> {},
                   attempt |-> 1, err |-> "none", failed |-> FALSE]
FsyncRequest(fd, todo, failed) ==
  [op |-> "fsync", fd |-> fd, hnd |-> None, todo |-> todo,
   attempt |-> 1, err |-> "none", failed |-> failed]
Idle == Request("none", None)

\* The attempt ended with error e; another attempt; Fsync turns to handle h;
\* Fsync passes over handle h.
EndedWith(c, e) == [c EXCEPT !.err = e]
Again(c)        == [c EXCEPT !.attempt = @ + 1]
Visiting(c, h)  == [c EXCEPT !.hnd = h, !.todo = @ \ {h}]
Passing(c, h)   == [c EXCEPT !.todo = @ \ {h}]

Init ==
  /\ file = [exists |-> TRUE, data |-> Initial, lease |-> None]
  /\ faults = 0
  /\ hstate = [h \in Handles |-> "free"]
  /\ active = {}
  /\ writer = [h \in Handles |-> NilWriter]
  /\ lock = [h \in Handles |-> None]
  /\ pc = [t \in Threads |-> "idle"]
  /\ call = [t \in Threads |-> Idle]
  /\ unsynced = {} /\ flushFailed = {} /\ reported = FALSE
  /\ needs = [t \in Threads |-> {}]

-----------------------------------------------------------------------------
(* HDFS and the local disk, as HdfsAccessor shows them.  An operation that   *)
(* fails may have taken effect: the answer, not the request, was lost.       *)

Succeeds == UNCHANGED faults
Fails    == faults < MaxFaults /\ faults' = faults + 1

Absent == [exists |-> FALSE, data |-> {}, lease |-> None]

\* Remove: the callers ignore its result.
HdfsRemove == \/ Succeeds /\ file' = Absent
              \/ Fails /\ file' \in {file, Absent}

\* CreateFile by t: refuses a file that exists; t holds the lease of a new one.
HdfsCreates(t) == file' = [exists |-> TRUE, data |-> {}, lease |-> t]
CreateSucceeds(t) == Succeeds /\ ~file.exists /\ HdfsCreates(t)
CreateFails(t) ==
  \/ Succeeds /\ file.exists /\ UNCHANGED file
  \/ Fails /\ (UNCHANGED file \/ (~file.exists /\ HdfsCreates(t)))

\* HdfsWriter.Write by t of the given pieces: it reaches the file if t still
\* holds the lease, that is if nobody removed the file under the writer.
Uploads(t, data) ==
  file' = IF file.lease = t THEN [file EXCEPT !.data = data] ELSE file

\* HdfsWriter.Close by t.
Completes(t) == file' = IF file.lease = t THEN [file EXCEPT !.lease = None] ELSE file
CloseSucceeds(t) == Succeeds /\ file.lease = t /\ Completes(t)
CloseFails(t) ==
  \/ Succeeds /\ file.lease # t /\ UNCHANGED file
  \/ Fails /\ (UNCHANGED file \/ Completes(t))

-----------------------------------------------------------------------------
(* Goroutines *)

Goto(t, p) == pc' = [pc EXCEPT ![t] = p]

Answer(t) == Goto(t, "idle") /\ call' = [call EXCEPT ![t] = Idle]

\* Mutant: no Mutex.
FreeAlways(h) == TRUE

\* A handle's Mutex is free.
Free(h) == lock[h] = None
Lock(t, h) == lock' = [lock EXCEPT ![h] = t]
Unlock(h)  == lock' = [lock EXCEPT ![h] = None]

\* A request the kernel sends for an open handle.  While it is served the
\* kernel keeps the handle referenced, so it is not released.
Accept(t, op, h, p) ==
  /\ pc[t] = "idle" /\ hstate[h] = "open"
  /\ Goto(t, p) /\ call' = [call EXCEPT ![t] = Request(op, h)]

\* No request uses or is about to use handle h.
Unused(h) == \A t \in Threads : h # call[t].fd /\ h # call[t].hnd /\ h \notin call[t].todo

-----------------------------------------------------------------------------
(* File.Open and Dir.Create *)

StartOpen(t, h, p) ==
  /\ pc[t] = "idle" /\ hstate[h] = "free" /\ Unused(h)
  /\ hstate' = [hstate EXCEPT ![h] = "opening"]
  /\ unsynced' = unsynced \ {h} /\ flushFailed' = flushFailed \ {h}
  /\ Goto(t, p) /\ call' = [call EXCEPT ![t] = Request("open", h)]
  /\ UNCHANGED <<hdfs, active, writer, lock, reported, needs>>

\* Read-only and read-write: the writer is enabled by the first Write.
OpenLazy(t, h) ==
  /\ pc[t] = "idle" /\ hstate[h] = "free" /\ Unused(h)
  /\ hstate' = [hstate EXCEPT ![h] = "open"]
  /\ active' = active \cup {h}
  /\ unsynced' = unsynced \ {h} /\ flushFailed' = flushFailed \ {h}
  /\ UNCHANGED <<hdfs, writer, lock, threads, reported, needs>>

\* Write-only truncates the file (NewFileHandleWriter with newFile), unless it
\* is opened for append.
OpenTruncate(t, h) == StartOpen(t, h, "newRemove")
OpenAppend(t, h)   == StartOpen(t, h, "oldStage")

NewRemove(t) ==
  /\ pc[t] = "newRemove"
  /\ HdfsRemove /\ Goto(t, "newCreate")
  /\ UNCHANGED <<handles, call, ghosts>>

\* The handle now has a writer: File.Open registers and returns the handle,
\* FileHandle.Write goes on to write.
Enabled(t, data) ==
  LET h == call[t].hnd IN
  /\ writer' = [writer EXCEPT ![h] = NewWriter(data)]
  /\ IF call[t].op = "open"
     THEN /\ hstate' = [hstate EXCEPT ![h] = "open"]
          /\ active' = active \cup {h}
          /\ Answer(t)
     ELSE Goto(t, "writeAt") /\ UNCHANGED <<hstate, active, call>>
  /\ UNCHANGED <<lock, ghosts>>

\* NewFileHandleWriter returned an error; so does the request.
NotEnabled(t) ==
  LET h == call[t].hnd IN
  /\ IF call[t].op = "open"
     THEN hstate' = [hstate EXCEPT ![h] = "free"] /\ UNCHANGED lock
     ELSE Unlock(h) /\ UNCHANGED hstate
  /\ Answer(t)
  /\ reported' = (reported \/ pc[t] = "newCreate")
  /\ UNCHANGED <<active, writer, unsynced, flushFailed, needs>>

NewCreate(t) ==
  /\ pc[t] = "newCreate"
  /\ \/ /\ CreateSucceeds(t)
        /\ Goto(t, "newStage") /\ reported' = FALSE
        /\ UNCHANGED <<handles, call, unsynced, flushFailed, needs>>
     \/ CreateFails(t) /\ NotEnabled(t)

\* Closes the new file, ignoring the result, and creates the staging file
\* (whose failure ends the request and is not counted among the faults).
NewStage(t) ==
  /\ pc[t] = "newStage"
  /\ CloseSucceeds(t) \/ CloseFails(t)
  /\ Enabled(t, {}) \/ NotEnabled(t)

\* Existing file: creates the staging file, then Stat.  If Stat fails the
\* writer starts with an empty staging file.
OldStage(t) ==
  /\ pc[t] = "oldStage"
  /\ UNCHANGED file
  /\ \/ Fails /\ NotEnabled(t)
     \/ Succeeds /\ file.exists /\ Goto(t, "oldCopy") /\ UNCHANGED <<handles, call, ghosts>>
     \/ (Fails \/ (Succeeds /\ ~file.exists)) /\ Enabled(t, {})

\* OpenRead and io.Copy to the staging file.
OldCopy(t) ==
  /\ pc[t] = "oldCopy"
  /\ UNCHANGED file
  /\ \/ Succeeds /\ file.exists /\ Enabled(t, file.data)
     \/ (Fails \/ (Succeeds /\ ~file.exists)) /\ NotEnabled(t)

-----------------------------------------------------------------------------
(* FileHandle.Write *)

WriteStart(t, h) ==
  /\ Free(h) /\ Lock(t, h)
  /\ Accept(t, "write", h, IF writer[h].live THEN "writeAt" ELSE "oldStage")
  /\ UNCHANGED <<hdfs, hstate, active, writer, ghosts>>

\* FileHandleWriter.Write: an error (no space left in HDFS, a short write) may
\* leave the data in the staging file, but does not count it in BytesWritten.
WriteAt(t) ==
  LET h == call[t].hnd IN
  /\ pc[t] = "writeAt"
  /\ \E p \in Pieces :
       \/ /\ Succeeds
          /\ writer' = [writer EXCEPT ![h] = Staged(@, {p}, TRUE)]
          /\ unsynced' = unsynced \cup {h} /\ flushFailed' = flushFailed \ {h}
       \/ /\ Fails
          /\ \E d \in {{}, {p}} : writer' = [writer EXCEPT ![h] = Staged(@, d, @.dirty)]
          /\ UNCHANGED <<unsynced, flushFailed>>
  /\ Unlock(h) /\ Answer(t)
  /\ UNCHANGED <<file, hstate, active, reported, needs>>

-----------------------------------------------------------------------------
(* FileHandleWriter.Flush, called with the handle's lock held *)

\* BytesWritten is reset before the attempt.
StartFlush(t, h) == writer' = [writer EXCEPT ![h].dirty = FALSE]

\* Mutant: the open handles are looked up anew in every round.
VisitsAnew(c) == active

\* The handles File.Fsync has yet to visit
YetToVisit(c) == c.todo

\* Mutant: the error of an earlier handle is overwritten.
LastErr(c, failed) == failed

\* File.Fsync's retErr
RetErr(c, failed) == c.failed \/ failed

\* The flush (or the finding that there is nothing to flush) of handle
\* call[t].hnd is over: the lock is released, the request answered; File.Fsync
\* goes on with the other handles.
FlushReturns(t, failed) ==
  LET c == call[t] IN
  /\ Unlock(c.hnd)
  /\ IF c.op = "fsync"
     THEN /\ Goto(t, "fsync")
          /\ call' = [call EXCEPT ![t] = FsyncRequest(c.fd, YetToVisit(c), RetErr(c, failed))]
          /\ UNCHANGED hstate
     ELSE /\ Answer(t)
          /\ hstate' = IF c.op = "close" THEN [hstate EXCEPT ![c.hnd] = "closed"] ELSE hstate

\* FUSE Flush: sent for every close of a file descriptor.  After the last one
\* ("close") the kernel sends no more requests for the handle but Release.
\* With no writer, or nothing written, it answers at once.
Flush(t, h, op) ==
  /\ op = "close" => \A u \in Threads : call[u].fd # h
  /\ Free(h)
  /\ IF writer[h].dirty
     THEN /\ Accept(t, op, h, "flushRemove") /\ Lock(t, h) /\ StartFlush(t, h)
          /\ hstate' = IF op = "close" THEN [hstate EXCEPT ![h] = "closing"] ELSE hstate
     ELSE /\ op = "close" /\ pc[t] = "idle" /\ hstate[h] = "open"
          /\ hstate' = [hstate EXCEPT ![h] = "closed"]
          /\ UNCHANGED <<writer, lock, threads>>
  /\ UNCHANGED <<hdfs, active, ghosts>>

\* FlushAttempt
FlushRemove(t) ==
  /\ pc[t] = "flushRemove"
  /\ HdfsRemove /\ Goto(t, "flushCreate")
  /\ UNCHANGED <<handles, call, ghosts>>

\* Mutant: the error is lost (shadowed by an inner err).
AttemptFailsSilently(t, e) == Goto(t, "flushDone") /\ UNCHANGED call

\* The step of the attempt failed with e; the attempt is over.
AttemptFails(t, e) == Goto(t, "flushDone") /\ call' = [call EXCEPT ![t] = EndedWith(@, e)]

FlushCreate(t) ==
  /\ pc[t] = "flushCreate"
  /\ \/ CreateSucceeds(t) /\ Goto(t, "flushUpload") /\ reported' = FALSE /\ UNCHANGED call
     \/ /\ CreateFails(t) /\ UNCHANGED reported
        /\ \E e \in {"EOF", "other"} : (e = "EOF" => Fails) /\ AttemptFails(t, e)
  /\ UNCHANGED <<handles, unsynced, flushFailed, needs>>

\* Writes the staging file.  After an error the file, with what reached it, is
\* closed all the same.
FlushUpload(t) ==
  LET stage == writer[call[t].hnd].stage IN
  /\ pc[t] = "flushUpload"
  /\ \/ Succeeds /\ Uploads(t, stage) /\ Goto(t, "flushClose") /\ UNCHANGED call
     \/ /\ Fails
        /\ \E part \in SUBSET stage, closed \in BOOLEAN, e \in {"EOF", "other"} :
             /\ file' = IF file.lease = t
                        THEN [file EXCEPT !.data = part, !.lease = IF closed THEN None ELSE t]
                        ELSE file
             /\ AttemptFails(t, e)
  /\ UNCHANGED <<handles, ghosts>>

\* History: handle h is stored / the flush of h by t failed, which t's caller
\* is told.
Stored(h) ==
  /\ unsynced' = unsynced \ {h} /\ flushFailed' = flushFailed \ {h}
  /\ needs' = [u \in Threads |-> needs[u] \ {h}]
NotStored(t, h) ==
  /\ flushFailed' = flushFailed \cup {h} /\ UNCHANGED unsynced
  /\ needs' = [u \in Threads |-> needs[u] \ {h}]

FlushClose(t) ==
  /\ pc[t] = "flushClose"
  /\ \/ /\ CloseSucceeds(t) /\ Stored(call[t].hnd)
        /\ Goto(t, "flushDone") /\ call' = [call EXCEPT ![t] = EndedWith(@, "none")]
     \/ /\ CloseFails(t) /\ UNCHANGED <<unsynced, flushFailed, needs>>
        /\ \E e \in {"EOF", "other"} : AttemptFails(t, e)
  /\ UNCHANGED <<handles, reported>>

\* IsSuccessOrBenignError, for the errors of a flush
IsBenign(e) == e \in {"none", "EOF"}

ShouldRetry(attempt) == attempt < MaxAttempts

\* Mutant: the loop does not ask the retry policy.
GivesUpOnSuccess(e, attempt) == e = "none"

\* The condition under which Flush's loop returns
GivesUp(e, attempt) == e # "EOF" \/ IsBenign(e) \/ ~ShouldRetry(attempt)

FlushDone(t) ==
  LET c == call[t] IN
  /\ pc[t] = "flushDone"
  /\ IF GivesUp(c.err, c.attempt)
     THEN /\ FlushReturns(t, c.err # "none")
          /\ IF c.err = "none" THEN UNCHANGED ghosts
             ELSE NotStored(t, c.hnd) /\ reported' = TRUE
     ELSE /\ Goto(t, "flushRemove")
          /\ call' = [call EXCEPT ![t] = Again(@)]
          /\ UNCHANGED <<hstate, lock, ghosts>>
  /\ UNCHANGED <<hdfs, active, writer>>

-----------------------------------------------------------------------------
(* File.Fsync: flushes all handles of the file, those of other processes too *)

\* Mutant: only the handle the request came for.
GetOwnHandle(fd) == {fd}

\* A snapshot of the active handles
GetActiveHandles(fd) == active

FsyncStart(t, fd) ==
  /\ pc[t] = "idle" /\ hstate[fd] = "open"
  /\ Goto(t, "fsync")
  /\ call' = [call EXCEPT ![t] = FsyncRequest(fd, GetActiveHandles(fd), FALSE)]
  /\ needs' = [needs EXCEPT ![t] = unsynced \ flushFailed]
  /\ UNCHANGED <<hdfs, handles, unsynced, flushFailed, reported>>

\* FileHandle.Fsync up to the check that there is a writer
FsyncLock(t, h) ==
  /\ pc[t] = "fsync" /\ h \in call[t].todo
  /\ Free(h)
  /\ IF writer[h].live
     THEN /\ Lock(t, h) /\ Goto(t, "fsyncFlush")
          /\ call' = [call EXCEPT ![t] = Visiting(@, h)]
     ELSE call' = [call EXCEPT ![t] = Passing(@, h)] /\ UNCHANGED <<lock, pc>>
  /\ UNCHANGED <<hdfs, hstate, active, writer, ghosts>>

\* ... and its call of Writer.Flush.  Release takes no lock: if it has set
\* Writer to nil since the check, the call panics, which the FUSE library turns
\* into an error of the whole request.
FsyncFlush(t) ==
  LET h == call[t].hnd IN
  /\ pc[t] = "fsyncFlush"
  /\ \/ /\ ~writer[h].live
        /\ Unlock(h) /\ Answer(t) /\ needs' = [needs EXCEPT ![t] = {}]
        /\ UNCHANGED <<hstate, writer>>
     \/ /\ writer[h].live /\ ~writer[h].dirty
        /\ FlushReturns(t, FALSE)
        /\ UNCHANGED <<writer, needs>>
     \/ /\ writer[h].dirty
        /\ StartFlush(t, h) /\ Goto(t, "flushRemove")
        /\ UNCHANGED <<hstate, lock, call, needs>>
  /\ UNCHANGED <<hdfs, active, unsynced, flushFailed, reported>>

FsyncReturn(t) ==
  /\ pc[t] = "fsync" /\ call[t].todo = {}
  /\ Answer(t) /\ needs' = [needs EXCEPT ![t] = {}]
  /\ UNCHANGED <<hdfs, handles, unsynced, flushFailed, reported>>

-----------------------------------------------------------------------------
(* FileHandle.Release: takes no lock *)

Release(h) ==
  /\ hstate[h] = "closed" /\ \A u \in Threads : call[u].fd # h
  /\ hstate' = [hstate EXCEPT ![h] = "free"]
  /\ writer' = [writer EXCEPT ![h] = NilWriter]
  /\ active' = active \ {h}
  /\ UNCHANGED <<hdfs, lock, threads, ghosts>>

-----------------------------------------------------------------------------
\* A request arrives
Arrive(t, h) ==
  \/ OpenLazy(t, h) \/ OpenTruncate(t, h) \/ OpenAppend(t, h)
  \/ WriteStart(t, h) \/ FsyncStart(t, h)
  \/ \E op \in {"flush", "close"} : Flush(t, h, op)

\* A goroutine that waits for nothing takes its next step
Step(t) ==
  \/ NewRemove(t) \/ NewCreate(t) \/ NewStage(t) \/ OldStage(t) \/ OldCopy(t)
  \/ WriteAt(t)
  \/ FlushRemove(t) \/ FlushCreate(t) \/ FlushUpload(t) \/ FlushClose(t) \/ FlushDone(t)
  \/ FsyncFlush(t) \/ FsyncReturn(t)

Next ==
  \/ \E t \in Threads, h \in Handles : Arrive(t, h) \/ FsyncLock(t, h)
  \/ \E t \in Threads : Step(t)
  \/ \E h \in Handles : Release(h)

\* Go's scheduler runs every goroutine, and sync.Mutex is handed to a goroutine
\* that has waited too long (starvation mode).
Fairness ==
  \A t \in Threads : /\ WF_vars(Step(t))
                     /\ SF_vars(\E h \in Handles : FsyncLock(t, h))

Spec == Init /\ [][Next]_vars
FairSpec == Spec /\ Fairness

-----------------------------------------------------------------------------
(* Properties *)

Writers == [live : BOOLEAN, stage : SUBSET Pieces, dirty : BOOLEAN]
Requests == [op : Ops, fd : Handles \cup {None}, hnd : Handles \cup {None},
             todo : SUBSET Handles, attempt : 1..MaxAttempts, err : Errors, failed : BOOLEAN]

\* The variables stay in their types; the attempts of a flush stay within
\* RetryPolicy.MaxAttempts (FileHandleWriter.go:110-122).
TypeOK ==
  /\ file \in [exists : BOOLEAN, data : SUBSET Pieces, lease : Threads \cup {None}]
  /\ faults \in 0..MaxFaults
  /\ hstate \in [Handles -> {"free", "opening", "open", "closing", "closed"}]
  /\ active \subseteq Handles
  /\ writer \in [Handles -> Writers]
  /\ lock \in [Handles -> Threads \cup {None}]
  /\ pc \in [Threads -> Pcs]
  /\ call \in [Threads -> Requests]
  /\ unsynced \subseteq Handles /\ flushFailed \subseteq Handles
  /\ reported \in BOOLEAN /\ needs \in [Threads -> SUBSET Handles]

\* Between the Remove and the Create of a rewrite, or failed and about to
\* say so.
Rewriting(t) ==
  \/ pc[t] \in {"newCreate", "flushCreate"}
  \/ pc[t] = "flushDone" /\ call[t].err # "none"
  \/ pc[t] = "flushRemove" /\ call[t].attempt > 1

\* Flush removes the HDFS file before it creates the new one
\* (FileHandleWriter.go:129-134).  Whatever fails in between, and however the
\* rewrites of several handles mix, the file never ends up missing from HDFS
\* without an error having been returned to a caller.
NoSilentLoss ==
  file.exists \/ reported \/ \E t \in Threads : Rewriting(t)

\* Thread t is flushing handle h.
Flushing(t, h) == pc[t] \in FlushPcs /\ call[t].hnd = h

\* Bytes whose Write was acknowledged, and whose flush has not failed with an
\* error to some caller, are not forgotten: the handle still has its writer,
\* and BytesWritten says that there is work for the next flush, or a flush of
\* them is under way.  BytesWritten is reset before the flush, and Release
\* drops the writer without looking (FileHandleWriter.go:107,
\* FileHandle.go:119-123).
NoUnreportedLoss ==
  \A h \in unsynced \ flushFailed :
    writer[h].live /\ (writer[h].dirty \/ \E t \in Threads : Flushing(t, h))

\* A flush that returns nil has stored the whole staging file: at that moment
\* the HDFS file is closed and holds all that was written through the handle,
\* whatever other handles have done to the file during the upload
\* (FileHandleWriter.go:127-160).
FlushSuccessIsDurable ==
  [][\A t \in Threads :
       (pc[t] = "flushClose" /\ pc'[t] = "flushDone" /\ call'[t].err = "none") =>
         file' = [exists |-> TRUE, data |-> writer[call[t].hnd].stage, lease |-> None]]_vars

\* When File.Fsync returns nil, every write acknowledged before it started,
\* through whichever handle, has been flushed since, or its flush has failed
\* with an error to the caller that flushed it (File.go:112-122).
FsyncCovers ==
  [][\A t \in Threads :
       (pc[t] = "fsync" /\ pc'[t] = "idle" /\ ~call[t].failed) => needs[t] = {}]_vars

\* The abstract file: an fsync is bound to fail if the flush of a handle has, or
\* if Release has taken the writer it is about to use.
Durable == INSTANCE DurableFile WITH
  unstored <- unsynced, told <- flushFailed, owed <- needs,
  flushing <- [t \in Threads |-> IF call[t].op \in {"flush", "close"} THEN call[t].hnd ELSE None],
  fsyncing <- {t \in Threads : call[t].op = "fsync"},
  failing  <- {t \in Threads : \/ call[t].failed
                               \/ pc[t] = "fsyncFlush" /\ ~writer[call[t].hnd].live}

\* FileHandle implements DurableFile: acknowledged writes are stored or their loss
\* is reported, a handle is not reused before, and fsync answers for all handles,
\* in every interleaving of writes, flushes, fsyncs and releases
\* (FileHandle.go:50-127, File.go:112-122).
ImplementsDurableFile == Durable!Spec

\* Every request is answered: no error path keeps a handle's Mutex.
Answered == \A t \in Threads : pc[t] # "idle" ~> pc[t] = "idle"
=============================================================================
