-------------------------- MODULE FileHandleProofs --------------------------
(***************************************************************************)
(* Theorems about FileHandle, for any number of threads, handles, pieces,  *)
(* attempts and faults.                                                    *)
(***************************************************************************)
EXTENDS FileHandle, TLAPS

USE InitialAssumption, BoundsAssumption, NoneAssumption
USE DEF Pcs, OpenPcs, FlushPcs, Errors, Ops, Writers, Requests

-----------------------------------------------------------------------------
(* Type correctness *)

\* Failing keeps within the bound on faults.
LEMMA FaultsType ==
  ASSUME faults \in 0..MaxFaults, Fails \/ Succeeds
  PROVE  faults' \in 0..MaxFaults
BY DEF Fails, Succeeds

\* The answer of a request leaves its goroutine idle.
LEMMA AnswerType ==
  ASSUME TypeOK, NEW t \in Threads, Answer(t)
  PROVE  pc' \in [Threads -> Pcs] /\ call' \in [Threads -> Requests]
BY DEF TypeOK, Answer, Goto, Idle, Request

\* A request that is accepted works on the handle it was sent for.
LEMMA AcceptType ==
  ASSUME TypeOK, NEW t \in Threads, NEW h \in Handles, NEW op \in Ops, NEW p \in Pcs,
         Accept(t, op, h, p)
  PROVE  pc' \in [Threads -> Pcs] /\ call' \in [Threads -> Requests]
BY DEF TypeOK, Accept, Goto, Request

HdfsFiles == [exists : BOOLEAN, data : SUBSET Pieces, lease : Threads \cup {None}]

\* What HDFS operations make of the file and of the faults
LEMMA HdfsType ==
  ASSUME TypeOK, NEW t \in Threads,
         \/ HdfsRemove \/ CreateSucceeds(t) \/ CreateFails(t)
         \/ CloseSucceeds(t) \/ CloseFails(t)
  PROVE  file' \in HdfsFiles /\ faults' \in 0..MaxFaults
<1>0. file \in HdfsFiles /\ faults \in 0..MaxFaults
  BY DEF TypeOK, HdfsFiles
<1>1. faults' \in 0..MaxFaults
  BY <1>0, FaultsType DEF HdfsRemove, CreateSucceeds, CreateFails, CloseSucceeds, CloseFails
<1> HIDE DEF TypeOK
<1>2. CASE HdfsRemove
  <2>1. Absent \in HdfsFiles
    BY DEF Absent, HdfsFiles
  <2> QED BY <1>0, <1>1, <1>2, <2>1 DEF HdfsRemove
<1>3. CASE CreateSucceeds(t) \/ CreateFails(t)
  <2>1. [exists |-> TRUE, data |-> {}, lease |-> t] \in HdfsFiles
    BY DEF HdfsFiles
  <2> QED BY <1>0, <1>1, <1>3, <2>1 DEF CreateSucceeds, CreateFails, HdfsCreates
<1>4. CASE CloseSucceeds(t) \/ CloseFails(t)
  BY <1>0, <1>1, <1>4 DEF CloseSucceeds, CloseFails, Completes, HdfsFiles
<1> QED BY <1>2, <1>3, <1>4

\* A goroutine has a handle to work on while it opens, writes or flushes.
HasHandle(t) == pc[t] \notin {"idle", "fsync"} => call[t].hnd \in Handles
WorksOnHandle == \A t \in Threads : HasHandle(t)

\* What EnableWrite does when it succeeds
LEMMA EnabledType ==
  ASSUME TypeOK, NEW t \in Threads, call[t].hnd \in Handles,
         NEW data \in SUBSET Pieces, Enabled(t, data)
  PROVE  /\ hstate' \in [Handles -> {"free", "opening", "open", "closing", "closed"}]
         /\ active' \subseteq Handles /\ writer' \in [Handles -> Writers]
         /\ lock' = lock
         /\ pc' \in [Threads -> Pcs] /\ call' \in [Threads -> Requests]
         /\ UNCHANGED ghosts
<1> DEFINE h == call[t].hnd
<1>1. writer' \in [Handles -> Writers]
  BY DEF TypeOK, Enabled, NewWriter
<1>2. CASE call[t].op = "open"
  BY <1>1, <1>2, AnswerType DEF TypeOK, Enabled
<1>3. CASE call[t].op # "open"
  BY <1>1, <1>3 DEF TypeOK, Enabled, Goto
<1> QED BY <1>2, <1>3

\* ... and when it fails
LEMMA NotEnabledType ==
  ASSUME TypeOK, NEW t \in Threads, call[t].hnd \in Handles, NotEnabled(t)
  PROVE  /\ hstate' \in [Handles -> {"free", "opening", "open", "closing", "closed"}]
         /\ lock' \in [Handles -> Threads \cup {None}]
         /\ pc' \in [Threads -> Pcs] /\ call' \in [Threads -> Requests]
         /\ reported' \in BOOLEAN
         /\ UNCHANGED <<active, writer, unsynced, flushFailed, needs>>
BY AnswerType DEF TypeOK, NotEnabled, Unlock

\* A flush that has returned has let go of the handle.
LEMMA FlushReturnsType ==
  ASSUME TypeOK, NEW t \in Threads, call[t].hnd \in Handles,
         NEW failed \in BOOLEAN, FlushReturns(t, failed)
  PROVE  /\ hstate' \in [Handles -> {"free", "opening", "open", "closing", "closed"}]
         /\ lock' \in [Handles -> Threads \cup {None}]
         /\ pc' \in [Threads -> Pcs] /\ call' \in [Threads -> Requests]
<1>1. lock' \in [Handles -> Threads \cup {None}]
  BY DEF TypeOK, FlushReturns, Unlock
<1>2. CASE call[t].op = "fsync"
  <2> DEFINE b == call[t].failed \/ failed
             r == FsyncRequest(call[t].fd, call[t].todo, b)
  <2>1. b \in BOOLEAN
    OBVIOUS
  <2>2. call' = [call EXCEPT ![t] = r] /\ hstate' = hstate /\ Goto(t, "fsync")
    BY <1>2 DEF FlushReturns, YetToVisit, RetErr
  <2> HIDE DEF b
  <2>3. r \in Requests
    BY <2>1 DEF TypeOK, FsyncRequest
  <2> HIDE DEF r
  <2> QED BY <1>1, <2>2, <2>3 DEF TypeOK, Goto
<1>3. CASE call[t].op # "fsync"
  BY <1>1, <1>3, AnswerType DEF TypeOK, FlushReturns
<1> QED BY <1>2, <1>3

HandleStates == {"free", "opening", "open", "closing", "closed"}
Typed == TypeOK /\ WorksOnHandle

\* A goroutine whose flush has returned works on no handle, or is back in Fsync.
LEMMA FlushReturnsWorks ==
  ASSUME Typed, NEW t \in Threads, NEW failed, FlushReturns(t, failed)
  PROVE  WorksOnHandle'
<1>1. Goto(t, "fsync") \/ Goto(t, "idle")
  BY DEF FlushReturns, Answer
<1>2. \E r : call' = [call EXCEPT ![t] = r]
  BY DEF FlushReturns, Answer
<1>3. pc \in [Threads -> Pcs] /\ call \in [Threads -> Requests]
  BY DEF Typed, TypeOK
<1>4. pc'[t] \in {"idle", "fsync"} /\ \A u \in Threads \ {t} : pc'[u] = pc[u] /\ call'[u] = call[u]
  BY <1>1, <1>2, <1>3 DEF Goto
<1> QED BY <1>4 DEF Typed, WorksOnHandle, HasHandle

\* The types of the initial state
LEMMA TypeInit == Init => Typed
<1> SUFFICES ASSUME Init PROVE Typed
  OBVIOUS
<1>1. file \in HdfsFiles /\ faults \in 0..MaxFaults
  BY DEF Init, HdfsFiles
<1>2. Idle \in Requests /\ NilWriter \in Writers
  BY DEF Idle, Request, NilWriter
<1>3. /\ writer \in [Handles -> Writers] /\ call \in [Threads -> Requests] /\ pc \in [Threads -> Pcs]
      /\ needs \in [Threads -> SUBSET Handles]
  BY <1>2 DEF Init
<1>4. WorksOnHandle
  BY DEF Init, WorksOnHandle, HasHandle
<1> QED BY <1>1, <1>3, <1>4 DEF Init, HdfsFiles, Typed, TypeOK

\* Opens keep the types.
LEMMA OpenTypeStep ==
  ASSUME Typed, NEW t \in Threads, NEW h \in Handles,
         OpenLazy(t, h) \/ OpenTruncate(t, h) \/ OpenAppend(t, h)
  PROVE  Typed'
<1> USE DEF Typed, TypeOK, WorksOnHandle, HasHandle
<1>1. CASE OpenLazy(t, h)
  BY <1>1 DEF OpenLazy, hdfs, threads
<1>2. CASE OpenTruncate(t, h)
  BY <1>2 DEF OpenTruncate, StartOpen, hdfs, Goto, Request
<1>3. CASE OpenAppend(t, h)
  BY <1>3 DEF OpenAppend, StartOpen, hdfs, Goto, Request
<1> QED BY <1>1, <1>2, <1>3

\* The steps of NewFileHandleWriter keep the types.
LEMMA NewWriterTypeStep ==
  ASSUME Typed, NEW t \in Threads,
         NewRemove(t) \/ NewCreate(t) \/ NewStage(t) \/ OldStage(t) \/ OldCopy(t)
  PROVE  Typed'
<1> DEFINE h == call[t].hnd
<1>0. TypeOK /\ WorksOnHandle /\ h \in Handles
  BY DEF Typed, WorksOnHandle, HasHandle, NewRemove, NewCreate, NewStage, OldStage, OldCopy
<1>1. CASE NewRemove(t)
  <2>1. file' \in HdfsFiles /\ faults' \in 0..MaxFaults
    BY <1>0, <1>1, HdfsType DEF NewRemove
  <2> QED BY <1>0, <1>1, <2>1 DEF NewRemove, handles, ghosts, Goto, HdfsFiles, Typed, TypeOK, WorksOnHandle, HasHandle
<1>2. ASSUME NEW data \in SUBSET Pieces, Enabled(t, data),
             file' \in HdfsFiles, faults' \in 0..MaxFaults
      PROVE  Typed'
  <2>1. TypeOK'
    BY <1>0, <1>2, EnabledType DEF TypeOK, HdfsFiles, ghosts
  <2>2. WorksOnHandle'
    BY <1>0, <1>2 DEF TypeOK, WorksOnHandle, HasHandle, Enabled, Answer, Goto, Idle, Request
  <2> QED BY <2>1, <2>2 DEF Typed
<1>3. ASSUME NotEnabled(t), file' \in HdfsFiles, faults' \in 0..MaxFaults
      PROVE  Typed'
  <2>1. TypeOK'
    BY <1>0, <1>3, NotEnabledType DEF TypeOK, HdfsFiles
  <2>2. WorksOnHandle'
    BY <1>0, <1>3 DEF TypeOK, WorksOnHandle, HasHandle, NotEnabled, Answer, Goto, Idle, Request
  <2> QED BY <2>1, <2>2 DEF Typed
<1>4. CASE NewCreate(t)
  <2>1. CASE /\ CreateSucceeds(t) /\ Goto(t, "newStage") /\ reported' = FALSE
              /\ UNCHANGED <<handles, call, unsynced, flushFailed, needs>>
    <3>1. file' \in HdfsFiles /\ faults' \in 0..MaxFaults
      BY <1>0, <2>1, HdfsType
    <3> QED BY <1>0, <1>4, <2>1, <3>1 DEF handles, Goto, HdfsFiles, Typed, TypeOK, WorksOnHandle, HasHandle
  <2>2. CASE CreateFails(t) /\ NotEnabled(t)
    BY <1>0, <1>3, <2>2, HdfsType
  <2> QED BY <1>4, <2>1, <2>2 DEF NewCreate
<1>5. CASE NewStage(t)
  BY <1>0, <1>2, <1>3, <1>5, HdfsType DEF NewStage
<1>6. CASE OldStage(t)
  <2>1. file' \in HdfsFiles /\ faults' \in 0..MaxFaults
    BY <1>0, <1>6, FaultsType DEF OldStage, TypeOK, HdfsFiles
  <2>2. CASE Goto(t, "oldCopy") /\ UNCHANGED <<handles, call, ghosts>>
    BY <1>0, <2>1, <2>2 DEF handles, ghosts, Goto, HdfsFiles, Typed, TypeOK, WorksOnHandle, HasHandle
  <2> QED BY <1>2, <1>3, <1>6, <2>1, <2>2 DEF OldStage
<1>7. CASE OldCopy(t)
  <2>1. file' \in HdfsFiles /\ faults' \in 0..MaxFaults /\ file.data \in SUBSET Pieces
    BY <1>0, <1>7, FaultsType DEF OldCopy, TypeOK, HdfsFiles
  <2> QED BY <1>2, <1>3, <1>7, <2>1 DEF OldCopy
<1> QED BY <1>1, <1>4, <1>5, <1>6, <1>7

\* Writes keep the types.
LEMMA WriteTypeStep ==
  ASSUME Typed, NEW t \in Threads,
         WriteAt(t) \/ \E h \in Handles : WriteStart(t, h)
  PROVE  Typed'
<1> USE DEF Typed, TypeOK, WorksOnHandle, HasHandle
<1>1. ASSUME NEW h \in Handles, WriteStart(t, h)
      PROVE  Typed'
  BY <1>1 DEF WriteStart, Lock, Accept, Goto, Request, hdfs, ghosts
<1>2. CASE WriteAt(t)
  <2>1. faults' \in 0..MaxFaults
    BY <1>2, FaultsType DEF WriteAt
  <2>2. pc' \in [Threads -> Pcs] /\ call' \in [Threads -> Requests]
    BY <1>2, AnswerType DEF WriteAt
  <2>3. WorksOnHandle'
    BY <1>2 DEF WriteAt, Answer, Goto, Idle, Request
  <2>4. call[t].hnd \in Handles /\ writer[call[t].hnd] \in Writers
    BY <1>2 DEF WriteAt
  <2>5. PICK p \in Pieces :
          \/ /\ writer' = [writer EXCEPT ![call[t].hnd] = Staged(@, {p}, TRUE)]
             /\ unsynced' = unsynced \cup {call[t].hnd} /\ flushFailed' = flushFailed \ {call[t].hnd}
          \/ /\ \E d \in {{}, {p}} : writer' = [writer EXCEPT ![call[t].hnd] = Staged(@, d, @.dirty)]
             /\ UNCHANGED <<unsynced, flushFailed>>
    BY ONLY <1>2 DEF WriteAt
  <2>6. writer' \in [Handles -> Writers]
    <3>1. \A data \in SUBSET Pieces, dirty \in BOOLEAN : Staged(writer[call[t].hnd], data, dirty) \in Writers
      BY <2>4 DEF Staged
    <3>2. writer[call[t].hnd].dirty \in BOOLEAN /\ writer \in [Handles -> Writers]
      BY <2>4
    <3>3. \E w \in Writers : writer' = [writer EXCEPT ![call[t].hnd] = w]
      BY ONLY <2>5, <3>1, <3>2, p \in Pieces
    <3> QED BY ONLY <3>2, <3>3
  <2>7. unsynced' \subseteq Handles /\ flushFailed' \subseteq Handles
    BY <2>4, <2>5
  <2>8. lock' \in [Handles -> Threads \cup {None}] /\ UNCHANGED <<file, hstate, active, reported, needs>>
    BY <1>2 DEF WriteAt, Unlock
  <2> QED BY <2>1, <2>2, <2>3, <2>6, <2>7, <2>8
<1> QED BY <1>1, <1>2

\* Updates of a request
LEMMA RequestUpdate ==
  ASSUME NEW r \in Requests
  PROVE  /\ \A e \in Errors : EndedWith(r, e) \in Requests /\ EndedWith(r, e).hnd = r.hnd
         /\ r.attempt < MaxAttempts => Again(r) \in Requests /\ Again(r).hnd = r.hnd
         /\ \A h \in Handles : /\ Visiting(r, h) \in Requests /\ Visiting(r, h).hnd = h
                              /\ Passing(r, h) \in Requests /\ Passing(r, h).hnd = r.hnd
<1>1. \A e \in Errors : EndedWith(r, e) \in Requests /\ EndedWith(r, e).hnd = r.hnd
  BY DEF EndedWith
<1>2. r.attempt < MaxAttempts => Again(r) \in Requests /\ Again(r).hnd = r.hnd
  BY DEF Again
<1>3. ASSUME NEW h \in Handles
      PROVE  Passing(r, h) \in Requests /\ Passing(r, h).hnd = r.hnd
  BY DEF Passing
<1>4. ASSUME NEW h \in Handles
      PROVE  Visiting(r, h) \in Requests /\ Visiting(r, h).hnd = h
  <2>1. [r EXCEPT !.hnd = h] \in Requests
    OBVIOUS
  <2> QED BY <2>1 DEF Visiting
<1> QED BY <1>1, <1>2, <1>3, <1>4

\* Thread t's request becomes r.
LEMMA CallUpdate ==
  ASSUME TypeOK, NEW t \in Threads, NEW r \in Requests, call' = [call EXCEPT ![t] = r]
  PROVE  /\ call' \in [Threads -> Requests] /\ call'[t] = r
         /\ \A u \in Threads \ {t} : call'[u] = call[u]
BY DEF TypeOK

\* A flush resets the count of written bytes.
LEMMA StartFlushType ==
  ASSUME TypeOK, NEW t, NEW h \in Handles, StartFlush(t, h)
  PROVE  writer' \in [Handles -> Writers]
<1>1. writer \in [Handles -> Writers]
  BY DEF TypeOK
<1> QED BY <1>1 DEF StartFlush

\* Flushes keep the types.
LEMMA FlushTypeStep ==
  ASSUME Typed, NEW t \in Threads,
         \/ \E h \in Handles, op \in {"flush", "close"} : Flush(t, h, op)
         \/ FlushRemove(t) \/ FlushCreate(t) \/ FlushUpload(t) \/ FlushClose(t)
         \/ FlushDone(t)
  PROVE  Typed'
<1>0. TypeOK /\ WorksOnHandle
  BY DEF Typed
<1>1. ASSUME NEW h \in Handles, NEW op \in {"flush", "close"}, Flush(t, h, op)
      PROVE  Typed'
  <2>1. CASE writer[h].dirty
    <3>1. StartFlush(t, h) /\ writer' \in [Handles -> Writers]
      BY <1>0, <1>1, <2>1, StartFlushType DEF Flush
    <3>2. Accept(t, op, h, "flushRemove") /\ Lock(t, h) /\ UNCHANGED <<hdfs, active, ghosts>>
      BY <1>1, <2>1 DEF Flush
    <3>3. hstate' \in [Handles -> HandleStates]
      BY <1>0, <1>1, <2>1 DEF Flush, TypeOK, HandleStates
    <3>4. pc' \in [Threads -> Pcs] /\ call' \in [Threads -> Requests]
      BY <1>0, <3>2, AcceptType
    <3>5. TypeOK'
      BY <1>0, <3>1, <3>2, <3>3, <3>4 DEF Lock, hdfs, ghosts, TypeOK, HandleStates
    <3>6. WorksOnHandle'
      BY <1>0, <3>2 DEF Accept, Goto, Request, TypeOK, WorksOnHandle, HasHandle
    <3> QED BY <3>5, <3>6 DEF Typed
  <2>2. CASE ~writer[h].dirty
    BY <1>0, <1>1, <2>2 DEF Flush, hdfs, threads, ghosts, Typed, TypeOK, WorksOnHandle, HasHandle
  <2> QED BY <2>1, <2>2
<1>2. CASE FlushRemove(t)
  <2>1. file' \in HdfsFiles /\ faults' \in 0..MaxFaults
    BY <1>0, <1>2, HdfsType DEF FlushRemove
  <2> QED BY <1>0, <1>2, <2>1 DEF FlushRemove, handles, ghosts, Goto, HdfsFiles, Typed, TypeOK,
          WorksOnHandle, HasHandle
\* What is common to the steps that touch HDFS and go on with the attempt
<1>3. ASSUME file' \in HdfsFiles, faults' \in 0..MaxFaults, UNCHANGED handles,
             pc[t] \in FlushPcs,
             \/ \E p \in FlushPcs : Goto(t, p) /\ UNCHANGED call
             \/ \E e \in Errors : AttemptFails(t, e),
             unsynced' \subseteq Handles, flushFailed' \subseteq Handles,
             reported' \in BOOLEAN, needs' \in [Threads -> SUBSET Handles]
      PROVE  Typed'
  <2>1. call' \in [Threads -> Requests] /\ \A u \in Threads : call'[u].hnd = call[u].hnd
    <3>1. CASE \E e \in Errors : AttemptFails(t, e)
      <4>1. PICK e \in Errors : call' = [call EXCEPT ![t] = EndedWith(call[t], e)]
        BY <3>1 DEF AttemptFails
      <4>2. call[t] \in Requests
        BY <1>0 DEF TypeOK
      <4>3. EndedWith(call[t], e) \in Requests /\ EndedWith(call[t], e).hnd = call[t].hnd
        BY <4>2, RequestUpdate
      <4> HIDE DEF Requests, TypeOK
      <4> QED BY <1>0, <4>1, <4>3, CallUpdate
    <3> QED BY <1>0, <1>3, <3>1 DEF TypeOK
  <2>2. \E p \in FlushPcs : Goto(t, p)
    BY <1>3 DEF AttemptFails
  <2> QED BY <1>0, <1>3, <2>1, <2>2 DEF handles, Goto, HdfsFiles, Typed, TypeOK, WorksOnHandle, HasHandle
<1>4. CASE FlushCreate(t)
  <2>1. file' \in HdfsFiles /\ faults' \in 0..MaxFaults
    BY <1>0, <1>4, HdfsType DEF FlushCreate
  <2> QED BY <1>0, <1>3, <1>4, <2>1 DEF FlushCreate, TypeOK
<1>5. CASE FlushUpload(t)
  <2>1. file' \in HdfsFiles /\ faults' \in 0..MaxFaults
    <3>1. writer[call[t].hnd].stage \in SUBSET Pieces
      BY <1>0, <1>5 DEF FlushUpload, TypeOK, WorksOnHandle, HasHandle
    <3>2. faults' \in 0..MaxFaults
      BY <1>0, <1>5, FaultsType DEF FlushUpload, TypeOK
    <3>3. file \in HdfsFiles
      BY <1>0 DEF TypeOK, HdfsFiles
    <3>4. Uploads(t, writer[call[t].hnd].stage) => file' \in HdfsFiles
      BY <3>1, <3>3 DEF Uploads, HdfsFiles
    <3>5. ASSUME NEW part \in SUBSET writer[call[t].hnd].stage, NEW closed \in BOOLEAN,
                 file' = IF file.lease = t
                         THEN [file EXCEPT !.data = part, !.lease = IF closed THEN None ELSE t]
                         ELSE file
          PROVE  file' \in HdfsFiles
      BY <3>1, <3>3, <3>5 DEF HdfsFiles
    <3>6. file' \in HdfsFiles
      BY ONLY <1>5, <3>4, <3>5 DEF FlushUpload
    <3> QED BY <3>2, <3>6
  <2> QED BY <1>0, <1>3, <1>5, <2>1 DEF FlushUpload, ghosts, TypeOK
<1>6. CASE FlushClose(t)
  <2>1. file' \in HdfsFiles /\ faults' \in 0..MaxFaults
    BY <1>0, <1>6, HdfsType DEF FlushClose
  <2>2. \E e \in Errors : AttemptFails(t, e)
    BY <1>6 DEF FlushClose, AttemptFails
  <2>3. unsynced' \subseteq Handles /\ flushFailed' \subseteq Handles /\ needs' \in [Threads -> SUBSET Handles]
    BY <1>0, <1>6 DEF FlushClose, Stored, TypeOK
  <2> QED BY <1>0, <1>3, <1>6, <2>1, <2>2, <2>3 DEF FlushClose, TypeOK
<1>7. CASE FlushDone(t)
  <2> DEFINE c == call[t]
  <2>0. c \in Requests /\ c.hnd \in Handles /\ pc[t] = "flushDone"
    BY <1>0, <1>7 DEF FlushDone, TypeOK, WorksOnHandle, HasHandle
  <2>1. CASE GivesUp(c.err, c.attempt)
    <3>1. FlushReturns(t, c.err # "none") /\ UNCHANGED <<hdfs, active, writer>>
      BY <1>7, <2>1 DEF FlushDone
    <3>2. /\ unsynced' \subseteq Handles /\ flushFailed' \subseteq Handles
          /\ reported' \in BOOLEAN /\ needs' \in [Threads -> SUBSET Handles]
      <4>1. CASE c.err = "none"
        BY <1>0, <1>7, <2>1, <4>1 DEF FlushDone, ghosts, TypeOK
      <4>2. CASE c.err # "none"
        <5>1. NotStored(t, c.hnd) /\ reported' = TRUE
          BY <1>7, <2>1, <4>2 DEF FlushDone
        <5> QED BY <1>0, <2>0, <5>1 DEF NotStored, TypeOK
      <4> QED BY <4>1, <4>2
    <3>3. TypeOK'
      BY <1>0, <2>0, <3>1, <3>2, FlushReturnsType DEF hdfs, TypeOK
    <3>4. WorksOnHandle'
      BY <3>1, FlushReturnsWorks
    <3> QED BY <3>3, <3>4 DEF Typed
  <2>2. CASE ~GivesUp(c.err, c.attempt)
    <3>1. c.attempt < MaxAttempts
      BY <2>0, <2>2 DEF GivesUp, ShouldRetry
    <3>2. call' = [call EXCEPT ![t] = Again(c)] /\ Goto(t, "flushRemove")
          /\ UNCHANGED <<hdfs, active, writer, hstate, lock, ghosts>>
      BY <1>7, <2>2 DEF FlushDone
    <3>3. call' \in [Threads -> Requests] /\ \A u \in Threads : call'[u].hnd = call[u].hnd
      <4>1. Again(c) \in Requests /\ Again(c).hnd = c.hnd
        BY <2>0, <3>1, RequestUpdate
      <4> HIDE DEF Requests, TypeOK
      <4> QED BY <1>0, <3>2, <4>1, CallUpdate
    <3> QED BY <1>0, <2>0, <3>2, <3>3 DEF hdfs, ghosts, Goto, Typed, TypeOK, WorksOnHandle, HasHandle
  <2> QED BY <2>1, <2>2
<1> QED BY <1>1, <1>2, <1>4, <1>5, <1>6, <1>7

\* Fsync keeps the types.
LEMMA FsyncTypeStep ==
  ASSUME Typed, NEW t \in Threads,
         \/ \E h \in Handles : FsyncStart(t, h) \/ FsyncLock(t, h)
         \/ FsyncFlush(t) \/ FsyncReturn(t)
  PROVE  Typed'
<1> USE DEF Typed, TypeOK, WorksOnHandle, HasHandle
<1>1. ASSUME NEW h \in Handles, FsyncStart(t, h)
      PROVE  Typed'
  BY <1>1 DEF FsyncStart, Goto, FsyncRequest, GetActiveHandles, hdfs, handles
<1>2. ASSUME NEW h \in Handles, FsyncLock(t, h)
      PROVE  Typed'
  <2>0. call[t] \in Requests
    OBVIOUS
  <2>1. CASE writer[h].live
    <3>1. call' = [call EXCEPT ![t] = Visiting(call[t], h)] /\ Lock(t, h) /\ Goto(t, "fsyncFlush")
          /\ UNCHANGED <<hdfs, hstate, active, writer, ghosts>>
      BY <1>2, <2>1 DEF FsyncLock
    <3>2. call' \in [Threads -> Requests] /\ call'[t].hnd = h
          /\ \A u \in Threads \ {t} : call'[u] = call[u]
      BY <2>0, <3>1, RequestUpdate, CallUpdate
    <3> QED BY <3>1, <3>2 DEF Lock, Goto, hdfs, ghosts
  <2>2. CASE ~writer[h].live
    <3>1. call' = [call EXCEPT ![t] = Passing(call[t], h)]
          /\ UNCHANGED <<lock, pc, hdfs, hstate, active, writer, ghosts>>
      BY <1>2, <2>2 DEF FsyncLock
    <3>2. call' \in [Threads -> Requests] /\ \A u \in Threads : call'[u].hnd = call[u].hnd
      BY <2>0, <3>1, RequestUpdate, CallUpdate
    <3> QED BY <3>1, <3>2 DEF hdfs, ghosts
  <2> QED BY <2>1, <2>2
<1>3. CASE FsyncFlush(t)
  <2> DEFINE h == call[t].hnd
  <2>0. h \in Handles
    BY <1>3 DEF FsyncFlush
  <2>1. CASE /\ ~writer[h].live /\ Unlock(h) /\ Answer(t) /\ needs' = [needs EXCEPT ![t] = {}]
             /\ UNCHANGED <<hstate, writer>>
    <3>1. /\ lock' = [lock EXCEPT ![h] = None] /\ pc' = [pc EXCEPT ![t] = "idle"]
          /\ UNCHANGED <<file, faults, hstate, active, writer, unsynced, flushFailed, reported>>
          /\ needs' = [needs EXCEPT ![t] = {}] /\ \A u \in Threads \ {t} : call'[u] = call[u]
      BY <1>3, <2>1 DEF FsyncFlush, Unlock, Answer, Goto, hdfs
    <3>2. pc' \in [Threads -> Pcs] /\ call' \in [Threads -> Requests]
      BY <2>1, AnswerType
    <3> QED BY <2>0, <3>1, <3>2
  <2>2. CASE FlushReturns(t, FALSE) /\ UNCHANGED <<writer, needs>>
    <3>1. TypeOK'
      BY <1>3, <2>0, <2>2, FlushReturnsType DEF FsyncFlush, hdfs
    <3>2. WorksOnHandle'
      BY ONLY <2>2, Typed, t \in Threads, FlushReturnsWorks
    <3> QED BY <3>1, <3>2
  <2>3. CASE StartFlush(t, h) /\ Goto(t, "flushRemove") /\ UNCHANGED <<hstate, lock, call, needs>>
    <3>1. writer' \in [Handles -> Writers]
      BY <2>0, <2>3, StartFlushType
    <3> QED BY <1>3, <2>0, <2>3, <3>1 DEF FsyncFlush, Goto, hdfs
  <2> QED BY <1>3, <2>1, <2>2, <2>3 DEF FsyncFlush
<1>4. CASE FsyncReturn(t)
  BY <1>4, AnswerType DEF FsyncReturn, Answer, Goto, hdfs, handles
<1> QED BY <1>1, <1>2, <1>3, <1>4

\* Every step keeps the types.
LEMMA TypeStep == Typed /\ [Next]_vars => Typed'
<1> SUFFICES ASSUME Typed, [Next]_vars PROVE Typed'
  OBVIOUS
<1>1. ASSUME NEW t \in Threads, NEW h \in Handles, Arrive(t, h) \/ FsyncLock(t, h)
      PROVE  Typed'
  BY <1>1, OpenTypeStep, WriteTypeStep, FlushTypeStep, FsyncTypeStep DEF Arrive
<1>2. ASSUME NEW t \in Threads, Step(t)
      PROVE  Typed'
  BY <1>2, NewWriterTypeStep, WriteTypeStep, FlushTypeStep, FsyncTypeStep DEF Step
<1>3. ASSUME NEW h \in Handles, Release(h)
      PROVE  Typed'
  BY <1>3 DEF Release, NilWriter, hdfs, threads, ghosts, Typed, TypeOK, WorksOnHandle, HasHandle
<1>4. CASE UNCHANGED vars
  BY <1>4 DEF vars, hdfs, handles, threads, ghosts, Typed, TypeOK, WorksOnHandle, HasHandle
<1> QED BY <1>1, <1>2, <1>3, <1>4 DEF Next

\* The variables of every behaviour stay in their types.
THEOREM TypeCorrect == Spec => []TypeOK
<1>1. Init => Typed
  BY TypeInit
<1>2. Typed /\ [Next]_vars => Typed'
  BY TypeStep
<1>3. Typed => TypeOK
  BY DEF Typed
<1> QED BY <1>1, <1>2, <1>3, PTL DEF Spec

-----------------------------------------------------------------------------
(* No silent loss *)

\* A step of t that leaves the other goroutines and the existence of the file
\* alone, when t is not in the middle of a rewrite
LEMMA NothingLost ==
  ASSUME NoSilentLoss, NEW t \in Threads, ~Rewriting(t),
         file'.exists = file.exists, reported => reported',
         \A u \in Threads \ {t} : pc'[u] = pc[u] /\ call'[u] = call[u]
  PROVE  NoSilentLoss'
BY DEF NoSilentLoss, Rewriting

\* No open loses what is unsynced without a word.
LEMMA OpenLosesNothing ==
  ASSUME Typed, NoSilentLoss, NEW t \in Threads,
         \/ \E h \in Handles : OpenLazy(t, h) \/ OpenTruncate(t, h) \/ OpenAppend(t, h)
         \/ NewRemove(t) \/ NewCreate(t) \/ NewStage(t) \/ OldStage(t) \/ OldCopy(t)
  PROVE  NoSilentLoss'
<1>0. /\ pc \in [Threads -> Pcs] /\ call \in [Threads -> Requests]
      /\ file \in HdfsFiles /\ reported \in BOOLEAN
  BY DEF Typed, TypeOK, HdfsFiles
<1>1. ASSUME NEW h \in Handles, OpenLazy(t, h) \/ OpenTruncate(t, h) \/ OpenAppend(t, h)
      PROVE  NoSilentLoss'
  BY <1>0, <1>1, NothingLost
  DEF OpenLazy, OpenTruncate, OpenAppend, StartOpen, hdfs, threads, Goto, Rewriting
<1>2. CASE NewRemove(t)
  BY <1>0, <1>2 DEF NewRemove, Goto, NoSilentLoss, Rewriting
<1>3. CASE NewCreate(t)
  <2>1. CASE CreateSucceeds(t)
    <3>1. file'.exists
      BY ONLY <2>1 DEF CreateSucceeds, HdfsCreates
    <3> QED BY <3>1 DEF NoSilentLoss
  <2>2. CASE NotEnabled(t)
    BY <1>3, <2>2 DEF NewCreate, NotEnabled, NoSilentLoss
  <2> QED BY <1>3, <2>1, <2>2 DEF NewCreate
<1>4. ASSUME Enabled(t, {}) \/ NotEnabled(t) \/ Enabled(t, file.data),
             pc[t] \in {"newStage", "oldStage", "oldCopy"}, file'.exists = file.exists
      PROVE  NoSilentLoss'
  <2>1. \A u \in Threads \ {t} : pc'[u] = pc[u] /\ call'[u] = call[u]
    BY <1>0, <1>4 DEF Enabled, NotEnabled, Answer, Goto
  <2>2. reported => reported'
    BY <1>4 DEF Enabled, NotEnabled, ghosts
  <2> QED BY <1>4, <2>1, <2>2, NothingLost DEF Rewriting
<1>5. CASE NewStage(t)
  <2>1. file'.exists = file.exists
    BY <1>0, <1>5 DEF NewStage, CloseSucceeds, CloseFails, Completes, HdfsFiles
  <2> QED BY <1>4, <1>5, <2>1 DEF NewStage
<1>6. CASE OldStage(t)
  <2>1. CASE Goto(t, "oldCopy") /\ UNCHANGED <<handles, call, ghosts>>
    BY <1>0, <1>6, <2>1, NothingLost DEF OldStage, Goto, ghosts, Rewriting
  <2> QED BY <1>4, <1>6, <2>1 DEF OldStage
<1>7. CASE OldCopy(t)
  BY <1>4, <1>7 DEF OldCopy
<1> QED BY <1>1, <1>2, <1>3, <1>5, <1>6, <1>7

\* ... nor does a write,
LEMMA WriteLosesNothing ==
  ASSUME Typed, NoSilentLoss, NEW t \in Threads,
         WriteAt(t) \/ \E h \in Handles : WriteStart(t, h)
  PROVE  NoSilentLoss'
<1>0. pc \in [Threads -> Pcs] /\ call \in [Threads -> Requests]
  BY DEF Typed, TypeOK
<1>1. CASE WriteAt(t)
  BY <1>0, <1>1, NothingLost DEF WriteAt, Answer, Goto, Rewriting
<1>2. ASSUME NEW h \in Handles, WriteStart(t, h)
      PROVE  NoSilentLoss'
  BY <1>0, <1>2, NothingLost DEF WriteStart, Accept, Goto, Rewriting, hdfs, ghosts
<1> QED BY <1>1, <1>2

\* ... nor a flush,
LEMMA FlushLosesNothing ==
  ASSUME Typed, NoSilentLoss, NEW t \in Threads,
         \/ \E h \in Handles, op \in {"flush", "close"} : Flush(t, h, op)
         \/ FlushRemove(t) \/ FlushCreate(t) \/ FlushUpload(t) \/ FlushClose(t)
         \/ FlushDone(t)
  PROVE  NoSilentLoss'
<1>0. /\ pc \in [Threads -> Pcs] /\ call \in [Threads -> Requests]
      /\ file \in HdfsFiles /\ reported \in BOOLEAN
  BY DEF Typed, TypeOK, HdfsFiles
<1>1. ASSUME NEW h \in Handles, NEW op \in {"flush", "close"}, Flush(t, h, op)
      PROVE  NoSilentLoss'
  <2>1. pc[t] = "idle" /\ file' = file /\ reported' = reported
    BY <1>1 DEF Flush, Accept, hdfs, ghosts
  <2>2. \A u \in Threads \ {t} : pc'[u] = pc[u] /\ call'[u] = call[u]
    BY <1>0, <1>1 DEF Flush, Accept, Goto, threads
  <2> QED BY <2>1, <2>2, NothingLost DEF Rewriting
<1>2. CASE FlushRemove(t)
  BY <1>0, <1>2 DEF FlushRemove, Goto, NoSilentLoss, Rewriting
\* A failed attempt is still to be reported or retried.
<1>3. ASSUME NEW e \in {"EOF", "other"}, AttemptFails(t, e)
      PROVE  NoSilentLoss'
  BY <1>0, <1>3 DEF AttemptFails, Goto, EndedWith, NoSilentLoss, Rewriting
<1>4. CASE FlushCreate(t)
  <2>1. CASE CreateSucceeds(t)
    <3>1. file'.exists
      BY ONLY <2>1 DEF CreateSucceeds, HdfsCreates
    <3> QED BY <3>1 DEF NoSilentLoss
  <2>2. CreateSucceeds(t) \/ \E e \in {"EOF", "other"} : AttemptFails(t, e)
    BY ONLY <1>4 DEF FlushCreate
  <2> QED BY <1>3, <2>1, <2>2
<1>5. CASE FlushUpload(t)
  <2>1. CASE Succeeds /\ Uploads(t, writer[call[t].hnd].stage) /\ Goto(t, "flushClose") /\ UNCHANGED call
    BY <1>0, <1>5, <2>1, NothingLost
    DEF FlushUpload, Uploads, Goto, Rewriting, HdfsFiles, ghosts
  <2> QED BY <1>3, <1>5, <2>1 DEF FlushUpload
<1>6. CASE FlushClose(t)
  <2>1. CASE CloseSucceeds(t) /\ Goto(t, "flushDone")
              /\ call' = [call EXCEPT ![t] = EndedWith(@, "none")]
    BY <1>0, <1>6, <2>1, NothingLost
    DEF FlushClose, CloseSucceeds, Completes, Goto, Rewriting, HdfsFiles
  <2> QED BY <1>3, <1>6, <2>1 DEF FlushClose
<1>7. CASE FlushDone(t)
  <2> DEFINE c == call[t]
  <2>0. c \in Requests /\ file' = file /\ pc[t] = "flushDone"
    BY <1>0, <1>7 DEF FlushDone, hdfs
  <2>1. CASE GivesUp(c.err, c.attempt) /\ c.err # "none"
    BY <1>7, <2>1 DEF FlushDone, NoSilentLoss
  <2>2. CASE GivesUp(c.err, c.attempt) /\ c.err = "none"
    <3>1. FlushReturns(t, FALSE) /\ reported' = reported
      BY <1>7, <2>2 DEF FlushDone, ghosts
    <3>2. \A u \in Threads \ {t} : pc'[u] = pc[u] /\ call'[u] = call[u]
      BY <1>0, <3>1 DEF FlushReturns, Answer, Goto
    <3> QED BY <2>0, <2>2, <3>1, <3>2, NothingLost DEF Rewriting
  <2>3. CASE ~GivesUp(c.err, c.attempt)
    <3>1. pc'[t] = "flushRemove" /\ call'[t] = Again(c)
          /\ \A u \in Threads \ {t} : pc'[u] = pc[u] /\ call'[u] = call[u]
      BY <1>0, <1>7, <2>3 DEF FlushDone, Goto
    <3>2. Again(c).attempt > 1
      BY <2>0 DEF Again
    <3> QED BY <3>1, <3>2 DEF NoSilentLoss, Rewriting
  <2> QED BY <2>1, <2>2, <2>3
<1> QED BY <1>1, <1>2, <1>4, <1>5, <1>6, <1>7

\* ... nor an Fsync,
LEMMA FsyncLosesNothing ==
  ASSUME Typed, NoSilentLoss, NEW t \in Threads,
         \/ \E h \in Handles : FsyncStart(t, h) \/ FsyncLock(t, h)
         \/ FsyncFlush(t) \/ FsyncReturn(t)
  PROVE  NoSilentLoss'
<1>0. pc \in [Threads -> Pcs] /\ call \in [Threads -> Requests]
  BY DEF Typed, TypeOK
<1>1. pc[t] \in {"idle", "fsync", "fsyncFlush"} /\ file' = file /\ reported' = reported
  BY DEF FsyncStart, FsyncLock, FsyncFlush, FsyncReturn, hdfs, ghosts
<1>2. \A u \in Threads \ {t} : pc'[u] = pc[u] /\ call'[u] = call[u]
  BY <1>0 DEF FsyncStart, FsyncLock, FsyncFlush, FsyncReturn, FlushReturns, Answer, Goto
<1> QED BY <1>1, <1>2, NothingLost DEF Rewriting

\* ... and so no step does.
LEMMA NothingLostStep == Typed /\ NoSilentLoss /\ [Next]_vars => NoSilentLoss'
<1> SUFFICES ASSUME Typed, NoSilentLoss, [Next]_vars PROVE NoSilentLoss'
  OBVIOUS
<1>1. ASSUME NEW t \in Threads, NEW h \in Handles, Arrive(t, h) \/ FsyncLock(t, h)
      PROVE  NoSilentLoss'
  BY <1>1, OpenLosesNothing, WriteLosesNothing, FlushLosesNothing, FsyncLosesNothing DEF Arrive
<1>2. ASSUME NEW t \in Threads, Step(t)
      PROVE  NoSilentLoss'
  BY <1>2, OpenLosesNothing, WriteLosesNothing, FlushLosesNothing, FsyncLosesNothing DEF Step
<1>3. ASSUME NEW h \in Handles, Release(h)
      PROVE  NoSilentLoss'
  BY <1>3 DEF Release, hdfs, threads, ghosts, NoSilentLoss, Rewriting
<1>4. CASE UNCHANGED vars
  BY <1>4 DEF vars, hdfs, threads, ghosts, NoSilentLoss, Rewriting
<1> QED BY <1>1, <1>2, <1>3, <1>4 DEF Next

\* In no behaviour is the file missing from HDFS unless a rewrite is under way
\* or an error has been returned.
THEOREM NothingLostSilently == Spec => []NoSilentLoss
<1>1. Init => Typed /\ NoSilentLoss
  BY TypeInit DEF Init, NoSilentLoss
<1>2. Typed /\ NoSilentLoss /\ [Next]_vars => Typed' /\ NoSilentLoss'
  BY TypeStep, NothingLostStep
<1> QED BY <1>1, <1>2, PTL DEF Spec
=============================================================================
