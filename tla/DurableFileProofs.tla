------------------------- MODULE DurableFileProofs -------------------------
(***************************************************************************)
(* FileHandle implements DurableFile: acknowledged writes are stored or    *)
(* their loss is reported, for any number of threads, handles, pieces,     *)
(* attempts and faults.  The inductive invariant has three layers: who     *)
(* serves which handle and holds its lock; the life of the writer; and     *)
(* what the history variables owe to the callers.                          *)
(***************************************************************************)
EXTENDS FileHandleProofs

USE InitialAssumption, BoundsAssumption, NoneAssumption
USE DEF Pcs, OpenPcs, FlushPcs

-----------------------------------------------------------------------------
(* The inductive invariant *)

\* A goroutine's step fits the request it serves.
RequestSound(t) ==
  LET c == call[t] IN
  /\ pc[t] = "idle" => c = Idle
  /\ pc[t] = "writeAt" => c.op = "write"
  /\ pc[t] \in OpenPcs => c.op \in {"open", "write"}
  /\ pc[t] \in FlushPcs => c.op \in {"flush", "close", "fsync"}
  /\ pc[t] \in {"fsync", "fsyncFlush"} => c.op = "fsync"
  /\ c.op # "none" => c.fd \in Handles
  /\ c.op # "fsync" => c.hnd = c.fd /\ c.todo = {} /\ ~c.failed

\* A goroutine that writes to a handle or flushes it holds its Mutex.
Holds(t) == \/ pc[t] \in {"writeAt", "fsyncFlush"} \cup FlushPcs
            \/ pc[t] \in OpenPcs /\ call[t].op = "write"
LockSound(t) == Holds(t) => lock[call[t].hnd] = t

\* A handle is in the state that the request under way for it needs.
StateSound(t) ==
  LET c == call[t] IN
  /\ c.op = "open" => hstate[c.fd] = "opening"
  /\ c.op \in {"write", "flush", "fsync"} => hstate[c.fd] = "open"
  /\ c.op = "close" => hstate[c.fd] = "closing"

\* The handle that is being opened is in no other request; the one that is
\* being closed has no other request of its own.
Alone(t) == \A u \in Threads \ {t} :
  /\ call[t].op = "open" =>
       LET h == call[t].hnd IN h # call[u].fd /\ h # call[u].hnd /\ h \notin call[u].todo
  /\ call[t].op = "close" => call[u].fd # call[t].fd

\* File.activeHandles are the handles between Open and Release.
ActiveSound == \A h \in Handles : h \in active <=> hstate[h] \in {"open", "closing", "closed"}

ThreadSound(t) == RequestSound(t) /\ LockSound(t) /\ StateSound(t) /\ Alone(t)
Protocol == ActiveSound /\ \A t \in Threads : ThreadSound(t)

\* Only a handle with a writer has something to flush.  A handle has no writer
\* before it is opened, and nothing to flush, nor a flush
\* under way, once it is closed.
LifeSound == \A h \in Handles :
  /\ writer[h].dirty => writer[h].live
  /\ hstate[h] \in {"free", "opening"} => ~writer[h].live
  /\ hstate[h] \notin {"open", "closing"} => ~writer[h].dirty /\ \A t \in Threads : ~Flushing(t, h)

\* The writer of the handle a goroutine works on: it is there when data are
\* written, it is not while a Write makes it, and it stays clean during a flush.
WriterSound(t) ==
  LET w == writer[call[t].hnd] IN
  /\ pc[t] = "writeAt" => w.live
  /\ pc[t] \in OpenPcs /\ call[t].op = "write" => ~w.live
  /\ pc[t] \in FlushPcs => ~w.dirty

\* The lease is on a file that exists; what its holder has uploaded is there.
LeaseSound ==
  /\ file.lease # None => file.exists
  /\ \A t \in Threads : pc[t] = "flushClose" /\ file.lease = t =>
                          file.data = writer[call[t].hnd].stage

\* A flush that has succeeded has left nothing.
FlushSound(t) ==
  pc[t] = "flushDone" /\ call[t].err = "none" => call[t].hnd \notin unsynced

\* What an fsync that has not failed still owes is unsynced, and to be visited.
FsyncSound(t) ==
  call[t].op = "fsync" /\ ~call[t].failed =>
    /\ needs[t] \subseteq unsynced \ flushFailed
    /\ needs[t] \subseteq call[t].todo \cup (IF Holds(t) THEN {call[t].hnd} ELSE {})

Writing == LifeSound /\ LeaseSound /\ \A t \in Threads : WriterSound(t)
History == NoUnreportedLoss /\ \A t \in Threads : FlushSound(t) /\ FsyncSound(t)

Inv == Typed /\ Protocol /\ Writing /\ History

-----------------------------------------------------------------------------
(* Who serves which handle *)

\* The goroutines and the handles, as far as the protocol needs their types.
LEMMA ProtocolTypes ==
  ASSUME Typed
  PROVE  /\ pc \in [Threads -> Pcs] /\ call \in [Threads -> Requests]
         /\ hstate \in [Handles -> HandleStates] /\ active \subseteq Handles
         /\ lock \in [Handles -> Threads \cup {None}]
         /\ \A t \in Threads : HasHandle(t)
BY DEF Typed, TypeOK, WorksOnHandle, HandleStates

\* Two requests that differ in the attempts of a flush only; those that Fsync
\* turns to another handle with.
SameRequest(c, d) == /\ c.op = d.op /\ c.fd = d.fd /\ c.hnd = d.hnd /\ c.todo = d.todo
                     /\ c.failed = d.failed

\* The updates of a request keep the rest of it.
LEMMA UpdatedRequest ==
  ASSUME NEW r \in Requests
  PROVE  /\ \A e : SameRequest(EndedWith(r, e), r) /\ EndedWith(r, e).err = e
         /\ SameRequest(Again(r), r)
         /\ \A h : SameRequest(Visiting(r, h), [r EXCEPT !.hnd = h, !.todo = r.todo \ {h}])
         /\ \A h : SameRequest(Passing(r, h), [r EXCEPT !.todo = r.todo \ {h}])
BY DEF Requests, SameRequest, EndedWith, Again, Visiting, Passing

\* A step of t keeps the protocol if it does so for t, takes no lock away from
\* another goroutine, and changes the state of no handle another one serves.
LEMMA ProtocolStep ==
  ASSUME Typed, Protocol, NEW t \in Threads,
         \A u \in Threads \ {t} : pc'[u] = pc[u] /\ call'[u] = call[u],
         \A h \in Handles : lock'[h] = lock[h] \/ lock[h] \in {None, t},
         \A h \in Handles : hstate'[h] = hstate[h] \/ \A u \in Threads \ {t} : call[u].fd # h,
         RequestSound(t)', LockSound(t)', StateSound(t)', Alone(t)', ActiveSound',
         \A u \in Threads \ {t} :
           /\ call[u].op = "open" =>
                LET h == call[u].hnd IN
                h # call'[t].fd /\ h # call'[t].hnd /\ h \notin call'[t].todo
           /\ call[u].op = "close" => call'[t].fd # call[u].fd
  PROVE  Protocol'
<1> USE ProtocolTypes
<1>1. ASSUME NEW u \in Threads, u # t
      PROVE  ThreadSound(u)'
  <2>1. RequestSound(u)'
    BY <1>1 DEF Protocol, ThreadSound, RequestSound
  <2>2. LockSound(u)'
    BY <1>1 DEF Protocol, ThreadSound, LockSound, Holds, HasHandle, RequestSound
  <2>3. StateSound(u)'
    BY <1>1 DEF Protocol, ThreadSound, StateSound, RequestSound
  <2>4. Alone(u)'
    BY <1>1 DEF Protocol, ThreadSound, Alone
  <2> QED BY <2>1, <2>2, <2>3, <2>4 DEF ThreadSound
<1> QED BY <1>1 DEF Protocol, ThreadSound

\* The handle that is opened is in no other request.
LEMMA OpenProtocol ==
  ASSUME Typed, Protocol, NEW t \in Threads, NEW h \in Handles,
         OpenLazy(t, h) \/ OpenTruncate(t, h) \/ OpenAppend(t, h)
  PROVE  Protocol'
<1> USE ProtocolTypes
<1>1. CASE OpenLazy(t, h)
  BY <1>1 DEF OpenLazy, threads, Unused, Protocol, ActiveSound, ThreadSound, RequestSound, LockSound, Holds,
     StateSound, Alone, HandleStates
<1>2. ASSUME NEW p \in {"newRemove", "oldStage"}, StartOpen(t, h, p)
      PROVE  Protocol'
  <2>1. /\ \A u \in Threads \ {t} : pc'[u] = pc[u] /\ call'[u] = call[u]
        /\ pc'[t] = p /\ call'[t] = Request("open", h)
        /\ hstate' = [hstate EXCEPT ![h] = "opening"] /\ hstate[h] = "free"
        /\ UNCHANGED <<lock, active>> /\ Unused(h)
    BY <1>2 DEF StartOpen, Goto
  <2>2. RequestSound(t)' /\ LockSound(t)' /\ StateSound(t)' /\ Alone(t)'
    BY <2>1 DEF Request, Unused, RequestSound, LockSound, Holds, StateSound, Alone
  <2> QED BY <2>1, <2>2, ProtocolStep DEF Unused, Request, Protocol, ActiveSound, HandleStates, ThreadSound, StateSound, RequestSound
<1> QED BY <1>1, <1>2 DEF OpenTruncate, OpenAppend

\* A step within a request: handles and locks stay as they are.
LEMMA GoesOnProtocol ==
  ASSUME Typed, Protocol, NEW t \in Threads, UNCHANGED <<hstate, active, lock>>,
         \A u \in Threads \ {t} : pc'[u] = pc[u] /\ call'[u] = call[u],
         RequestSound(t)', Holds(t)' => Holds(t),
         /\ call'[t].op = call[t].op /\ call'[t].fd = call[t].fd
         /\ call'[t].hnd = call[t].hnd /\ call'[t].todo = call[t].todo
  PROVE  Protocol'
<1> USE ProtocolTypes
<1>1. LockSound(t)' /\ StateSound(t)' /\ Alone(t)'
  BY DEF Protocol, ThreadSound, LockSound, StateSound, Alone
<1> QED BY <1>1, ProtocolStep DEF Protocol, ThreadSound, Alone, ActiveSound

\* The end of a request that is the only one to serve its handle's state.
LEMMA AnswerProtocol ==
  ASSUME Typed, Protocol, NEW t \in Threads, Answer(t), ActiveSound',
         \A h \in Handles : lock'[h] = lock[h] \/ lock[h] = t,
         \A h \in Handles : hstate'[h] = hstate[h] \/ \A u \in Threads \ {t} : call[u].fd # h
  PROVE  Protocol'
<1> USE ProtocolTypes
<1>1. /\ \A u \in Threads \ {t} : pc'[u] = pc[u] /\ call'[u] = call[u]
      /\ pc'[t] = "idle" /\ call'[t] = Idle
  BY DEF Answer, Goto
<1>2. RequestSound(t)' /\ LockSound(t)' /\ StateSound(t)' /\ Alone(t)'
  BY <1>1 DEF Idle, Request, RequestSound, LockSound, Holds, StateSound, Alone
<1>3. \A u \in Threads \ {t} :
        /\ call[u].op = "open" => call[u].hnd \in Handles
        /\ call[u].op = "close" => call[u].fd \in Handles
  BY DEF Protocol, ThreadSound, RequestSound
<1> QED BY <1>1, <1>2, <1>3, ProtocolStep DEF Idle, Request

\* The handle has a writer: it is open, or its Write goes on.
LEMMA EnabledProtocol ==
  ASSUME Typed, Protocol, NEW t \in Threads, NEW data, pc[t] \in OpenPcs, Enabled(t, data)
  PROVE  Protocol'
<1> USE ProtocolTypes
<1> DEFINE h == call[t].hnd
<1>0. h \in Handles /\ h = call[t].fd /\ UNCHANGED lock
  BY DEF Enabled, Protocol, ThreadSound, RequestSound, HasHandle
<1>1. CASE call[t].op = "open"
  <2>1. /\ Answer(t) /\ hstate' = [hstate EXCEPT ![h] = "open"] /\ active' = active \cup {h}
        /\ \A u \in Threads \ {t} : call[u].fd # h
    BY <1>1 DEF Enabled, Protocol, ThreadSound, Alone
  <2>2. ActiveSound'
    BY <1>0, <2>1 DEF Protocol, ActiveSound
  <2> QED BY <1>0, <2>1, <2>2, AnswerProtocol
<1>2. CASE call[t].op # "open"
  <2>1. Goto(t, "writeAt") /\ UNCHANGED <<hstate, active, call>> /\ call[t].op = "write"
    BY <1>2 DEF Enabled, Protocol, ThreadSound, RequestSound
  <2>2. RequestSound(t)' /\ Holds(t)
    BY <2>1 DEF Goto, Protocol, ThreadSound, RequestSound, Holds
  <2> QED BY <1>0, <2>1, <2>2, GoesOnProtocol DEF Goto
<1> QED BY <1>1, <1>2

\* The open or the Write that was to make the writer fails.
LEMMA NotEnabledProtocol ==
  ASSUME Typed, Protocol, NEW t \in Threads, pc[t] \in OpenPcs, NotEnabled(t)
  PROVE  Protocol'
<1> USE ProtocolTypes
<1> DEFINE h == call[t].hnd
<1>0. /\ h \in Handles /\ h = call[t].fd /\ Answer(t) /\ UNCHANGED active
      /\ call[t].op \in {"open", "write"}
  BY DEF NotEnabled, Protocol, ThreadSound, RequestSound, HasHandle
<1>1. CASE call[t].op = "open"
  <2>1. /\ hstate' = [hstate EXCEPT ![h] = "free"] /\ UNCHANGED lock
        /\ \A u \in Threads \ {t} : call[u].fd # h
    BY <1>1 DEF NotEnabled, Protocol, ThreadSound, Alone
  <2>2. ActiveSound'
    BY <1>0, <1>1, <2>1 DEF Protocol, ThreadSound, StateSound, ActiveSound
  <2> QED BY <1>0, <2>1, <2>2, AnswerProtocol
<1>2. CASE call[t].op # "open"
  <2>1. Unlock(h) /\ UNCHANGED hstate /\ lock[h] = t
    BY <1>0, <1>2 DEF NotEnabled, Protocol, ThreadSound, LockSound, Holds
  <2> QED BY <1>0, <2>1, AnswerProtocol DEF Unlock, Protocol, ActiveSound
<1> QED BY <1>1, <1>2

\* NewFileHandleWriter, called by an open or by a Write
LEMMA NewWriterProtocol ==
  ASSUME Typed, Protocol, NEW t \in Threads,
         NewRemove(t) \/ NewCreate(t) \/ NewStage(t) \/ OldStage(t) \/ OldCopy(t)
  PROVE  Protocol'
<1> USE ProtocolTypes
<1>1. ASSUME NEW p \in OpenPcs, pc[t] \in OpenPcs, Goto(t, p), UNCHANGED <<handles, call>>
      PROVE  Protocol'
  BY <1>1, GoesOnProtocol DEF Goto, handles, Protocol, ThreadSound, RequestSound, Holds
<1> QED BY <1>1, EnabledProtocol, NotEnabledProtocol
        DEF NewRemove, NewCreate, NewStage, OldStage, OldCopy, ghosts

\* FileHandle.Write takes the Mutex and gives it back.
LEMMA WriteProtocol ==
  ASSUME Typed, Protocol, NEW t \in Threads,
         WriteAt(t) \/ \E h \in Handles : WriteStart(t, h)
  PROVE  Protocol'
<1> USE ProtocolTypes
<1>1. ASSUME NEW h \in Handles, WriteStart(t, h)
      PROVE  Protocol'
  <2>1. /\ \A u \in Threads \ {t} : pc'[u] = pc[u] /\ call'[u] = call[u]
        /\ pc'[t] \in {"writeAt", "oldStage"} /\ call'[t] = Request("write", h)
        /\ hstate[h] = "open" /\ UNCHANGED <<hstate, active>>
        /\ lock[h] = None /\ lock' = [lock EXCEPT ![h] = t]
    BY <1>1 DEF WriteStart, Accept, Free, Lock, Goto
  <2>2. RequestSound(t)' /\ LockSound(t)' /\ StateSound(t)' /\ Alone(t)'
    BY <2>1 DEF Request, RequestSound, LockSound, Holds, StateSound, Alone
  <2>3. ActiveSound' /\ \A u \in Threads \ {t} :
          /\ call[u].op = "open" => call[u].hnd # h /\ call[u].hnd # None
          /\ call[u].op = "close" => call[u].fd # h
    BY <2>1 DEF Protocol, ActiveSound, ThreadSound, StateSound, RequestSound
  <2> QED BY <2>1, <2>2, <2>3, ProtocolStep DEF Request
<1>2. CASE WriteAt(t)
  BY <1>2, AnswerProtocol DEF WriteAt, Unlock, Protocol, ThreadSound, LockSound, Holds, ActiveSound, HasHandle
<1> QED BY <1>1, <1>2

\* The flush of the handle is over.
LEMMA FlushReturnsProtocol ==
  ASSUME Typed, Protocol, NEW t \in Threads, NEW failed \in BOOLEAN,
         pc[t] \in FlushPcs \cup {"fsyncFlush"}, FlushReturns(t, failed), UNCHANGED active
  PROVE  Protocol'
<1> USE ProtocolTypes
<1> DEFINE h == call[t].hnd
<1>0. h \in Handles /\ lock[h] = t /\ lock' = [lock EXCEPT ![h] = None]
  BY DEF FlushReturns, Unlock, Protocol, ThreadSound, LockSound, Holds, HasHandle
<1>1. CASE call[t].op = "fsync"
  <2>1. /\ \A u \in Threads \ {t} : pc'[u] = pc[u] /\ call'[u] = call[u]
        /\ pc'[t] = "fsync" /\ UNCHANGED <<hstate, active>>
        /\ call'[t].op = "fsync" /\ call'[t].fd = call[t].fd /\ call'[t].hnd = None
        /\ call'[t].todo = call[t].todo
    BY <1>1 DEF FlushReturns, FsyncRequest, YetToVisit, Goto
  <2>2. RequestSound(t)' /\ LockSound(t)' /\ StateSound(t)' /\ Alone(t)'
    BY <1>1, <2>1 DEF RequestSound, LockSound, Holds, StateSound, Alone, Protocol, ThreadSound
  <2>3. ActiveSound' /\ \A u \in Threads \ {t} : call[u].op \in {"open", "close"} => call[u].hnd # None
    BY <2>1 DEF Protocol, ActiveSound, ThreadSound, RequestSound
  <2> QED BY <1>0, <2>1, <2>2, <2>3, ProtocolStep DEF Protocol, ThreadSound, Alone
<1>2. CASE call[t].op # "fsync"
  <2>1. Answer(t) /\ h = call[t].fd
        /\ hstate' = IF call[t].op = "close" THEN [hstate EXCEPT ![h] = "closed"] ELSE hstate
    BY <1>2 DEF FlushReturns, Protocol, ThreadSound, RequestSound
  <2>2. \A g \in Handles : hstate'[g] = hstate[g] \/ \A u \in Threads \ {t} : call[u].fd # g
    BY <1>0, <2>1 DEF Protocol, ThreadSound, Alone
  <2>3. ActiveSound'
    BY <1>0, <2>1 DEF Protocol, ThreadSound, StateSound, ActiveSound
  <2> QED BY <1>0, <2>1, <2>2, <2>3, AnswerProtocol
<1> QED BY <1>1, <1>2

\* FileHandle.Flush holds the Mutex from the first step to the last.
LEMMA FlushProtocol ==
  ASSUME Typed, Protocol, NEW t \in Threads,
         \/ \E h \in Handles, op \in {"flush", "close"} : Flush(t, h, op)
         \/ FlushRemove(t) \/ FlushCreate(t) \/ FlushUpload(t) \/ FlushClose(t)
         \/ FlushDone(t)
  PROVE  Protocol'
<1> USE ProtocolTypes
<1>1. ASSUME NEW h \in Handles, NEW op \in {"flush", "close"}, Flush(t, h, op)
      PROVE  Protocol'
  <2>1. CASE writer[h].dirty
    <3>1. /\ \A u \in Threads \ {t} : pc'[u] = pc[u] /\ call'[u] = call[u]
          /\ pc'[t] = "flushRemove" /\ call'[t] = Request(op, h)
          /\ hstate[h] = "open" /\ UNCHANGED active
          /\ hstate' = IF op = "close" THEN [hstate EXCEPT ![h] = "closing"] ELSE hstate
          /\ lock[h] = None /\ lock' = [lock EXCEPT ![h] = t]
          /\ op = "close" => \A u \in Threads : call[u].fd # h
      BY <1>1, <2>1 DEF Flush, Accept, Free, Lock, Goto
    <3>2. RequestSound(t)' /\ LockSound(t)' /\ StateSound(t)' /\ Alone(t)'
      BY <3>1 DEF Request, RequestSound, LockSound, Holds, StateSound, Alone
    <3>3. ActiveSound' /\ \A u \in Threads \ {t} :
            /\ call[u].op = "open" => call[u].hnd # h /\ call[u].hnd # None
            /\ call[u].op = "close" => call[u].fd # h
      BY <3>1 DEF Protocol, ActiveSound, ThreadSound, StateSound, RequestSound
    <3> QED BY <3>1, <3>2, <3>3, ProtocolStep DEF Request
  <2>2. CASE ~writer[h].dirty
    <3>1. /\ UNCHANGED <<pc, call, lock, active>> /\ hstate[h] = "open"
          /\ hstate' = [hstate EXCEPT ![h] = "closed"] /\ \A u \in Threads : call[u].fd # h
      BY <1>1, <2>2 DEF Flush, threads
    <3> QED BY <3>1 DEF Protocol, ActiveSound, ThreadSound, RequestSound, LockSound, Holds, StateSound, Alone
  <2> QED BY <2>1, <2>2
<1>2. CASE FlushRemove(t)
  BY <1>2, GoesOnProtocol DEF FlushRemove, Goto, handles, Protocol, ThreadSound, RequestSound, Holds
\* A step of the attempt
<1>3. ASSUME pc[t] \in FlushPcs, UNCHANGED handles,
             \/ \E p \in FlushPcs : Goto(t, p) /\ UNCHANGED call
             \/ \E e : Goto(t, "flushDone") /\ call' = [call EXCEPT ![t] = EndedWith(@, e)]
      PROVE  Protocol'
  <2>1. /\ \A u \in Threads \ {t} : pc'[u] = pc[u] /\ call'[u] = call[u]
        /\ pc'[t] \in FlushPcs /\ UNCHANGED <<hstate, active, lock>>
        /\ SameRequest(call'[t], call[t])
    BY <1>3, UpdatedRequest DEF Goto, handles, SameRequest
  <2>2. RequestSound(t)' /\ Holds(t)
    BY <1>3, <2>1 DEF SameRequest, RequestSound, Holds, Protocol, ThreadSound
  <2> QED BY <2>1, <2>2, GoesOnProtocol DEF SameRequest
<1>4. CASE FlushCreate(t)
  BY <1>3, <1>4 DEF FlushCreate, AttemptFails
<1>5. CASE FlushUpload(t)
  BY <1>3, <1>5 DEF FlushUpload, AttemptFails
<1>6. CASE FlushClose(t)
  BY <1>3, <1>6 DEF FlushClose, AttemptFails
<1>7. CASE FlushDone(t)
  <2>1. CASE GivesUp(call[t].err, call[t].attempt)
    BY <1>7, <2>1, FlushReturnsProtocol DEF FlushDone
  <2>2. CASE ~GivesUp(call[t].err, call[t].attempt)
    <3>0. /\ pc[t] = "flushDone" /\ Goto(t, "flushRemove") /\ UNCHANGED <<hstate, active, lock>>
          /\ call' = [call EXCEPT ![t] = Again(call[t])]
      BY <1>7, <2>2 DEF FlushDone
    <3>1. /\ \A u \in Threads \ {t} : pc'[u] = pc[u] /\ call'[u] = call[u]
          /\ pc'[t] = "flushRemove" /\ SameRequest(call'[t], call[t])
      BY <3>0, UpdatedRequest DEF Goto
    <3>2. RequestSound(t)' /\ Holds(t)
      BY <3>0, <3>1 DEF SameRequest, RequestSound, Holds, Protocol, ThreadSound
    <3> QED BY <3>0, <3>1, <3>2, GoesOnProtocol DEF SameRequest
  <2> QED BY <2>1, <2>2
<1> QED BY <1>1, <1>2, <1>4, <1>5, <1>6, <1>7

\* File.Fsync locks the handles it visits one after the other.
LEMMA FsyncProtocol ==
  ASSUME Typed, Protocol, NEW t \in Threads,
         \/ \E h \in Handles : FsyncStart(t, h) \/ FsyncLock(t, h)
         \/ FsyncFlush(t) \/ FsyncReturn(t)
  PROVE  Protocol'
<1> USE ProtocolTypes
<1>1. ASSUME NEW h \in Handles, FsyncStart(t, h)
      PROVE  Protocol'
  <2>1. /\ \A u \in Threads \ {t} : pc'[u] = pc[u] /\ call'[u] = call[u]
        /\ pc'[t] = "fsync" /\ call'[t] = FsyncRequest(h, active, FALSE)
        /\ hstate[h] = "open" /\ UNCHANGED <<hstate, active, lock>>
    BY <1>1 DEF FsyncStart, GetActiveHandles, Goto, handles
  <2>2. RequestSound(t)' /\ LockSound(t)' /\ StateSound(t)' /\ Alone(t)'
    BY <2>1 DEF FsyncRequest, RequestSound, LockSound, Holds, StateSound, Alone
  <2>3. ActiveSound' /\ \A u \in Threads \ {t} :
          /\ call[u].op = "open" => LET g == call[u].hnd IN g # h /\ g # None /\ g \notin active
          /\ call[u].op = "close" => call[u].fd # h
    BY <2>1 DEF Protocol, ActiveSound, ThreadSound, StateSound, RequestSound
  <2> QED BY <2>1, <2>2, <2>3, ProtocolStep DEF FsyncRequest
<1>2. ASSUME NEW h \in Handles, FsyncLock(t, h)
      PROVE  Protocol'
  <2>0. /\ pc[t] = "fsync" /\ UNCHANGED <<hstate, active>> /\ h \in call[t].todo
        /\ \/ /\ Goto(t, "fsyncFlush") /\ call' = [call EXCEPT ![t] = Visiting(call[t], h)]
              /\ lock[h] = None /\ lock' = [lock EXCEPT ![h] = t]
           \/ UNCHANGED <<lock, pc>> /\ call' = [call EXCEPT ![t] = Passing(call[t], h)]
    BY <1>2 DEF FsyncLock, Free, Lock
  <2>1. /\ \A u \in Threads \ {t} : pc'[u] = pc[u] /\ call'[u] = call[u]
        /\ call'[t].op = call[t].op /\ call'[t].fd = call[t].fd /\ call'[t].todo = call[t].todo \ {h}
        /\ call'[t].failed = call[t].failed
        /\ \/ pc'[t] = "fsyncFlush" /\ call'[t].hnd = h /\ lock[h] = None /\ lock' = [lock EXCEPT ![h] = t]
           \/ pc'[t] = "fsync" /\ call'[t].hnd = call[t].hnd /\ lock' = lock
    BY <2>0, UpdatedRequest DEF Goto, SameRequest, Requests
  <2>2. RequestSound(t)' /\ LockSound(t)' /\ StateSound(t)' /\ Alone(t)'
    BY <2>0, <2>1 DEF RequestSound, LockSound, Holds, StateSound, Alone, Protocol, ThreadSound
  <2>3. ActiveSound' /\ \A u \in Threads \ {t} :
          call[u].op = "open" => LET g == call[u].hnd IN g # h /\ g # call[t].hnd /\ g \notin call[t].todo
    BY <2>0, <2>1 DEF Protocol, ActiveSound, ThreadSound, Alone
  <2> QED BY <2>0, <2>1, <2>2, <2>3, ProtocolStep DEF Protocol, ThreadSound, Alone
<1>3. CASE FsyncFlush(t)
  <2> DEFINE h == call[t].hnd
  <2>1. CASE ~writer[h].live /\ Unlock(h) /\ Answer(t) /\ UNCHANGED <<hstate, active>>
    BY <1>3, <2>1, AnswerProtocol
    DEF FsyncFlush, Unlock, Protocol, ThreadSound, LockSound, Holds, ActiveSound, HasHandle
  <2>2. CASE FlushReturns(t, FALSE)
    BY <1>3, <2>2, FlushReturnsProtocol DEF FsyncFlush
  <2>3. CASE Goto(t, "flushRemove") /\ UNCHANGED <<hstate, lock, call>>
    BY <1>3, <2>3, GoesOnProtocol DEF FsyncFlush, Goto, Protocol, ThreadSound, RequestSound, Holds
  <2> QED BY <1>3, <2>1, <2>2, <2>3 DEF FsyncFlush
<1>4. CASE FsyncReturn(t)
  BY <1>4, AnswerProtocol DEF FsyncReturn, handles, Protocol, ActiveSound
<1> QED BY <1>1, <1>2, <1>3, <1>4

\* Release ends the life of a handle that no request was sent for.
LEMMA ReleaseProtocol ==
  ASSUME Typed, Protocol, NEW h \in Handles, Release(h)
  PROVE  Protocol'
<1>1. /\ UNCHANGED <<pc, call, lock>> /\ hstate[h] = "closed" /\ active' = active \ {h}
      /\ hstate' = [hstate EXCEPT ![h] = "free"] /\ \A u \in Threads : call[u].fd # h
  BY DEF Release, threads
<1> QED BY <1>1, ProtocolTypes
        DEF Protocol, ActiveSound, ThreadSound, RequestSound, LockSound, Holds, StateSound, Alone

\* The protocol holds throughout.
LEMMA ProtocolInvariant ==
  /\ Init => Protocol
  /\ Typed /\ Protocol /\ [Next]_vars => Protocol'
<1>1. Init => Protocol
  BY DEF Init, Idle, Request, Protocol, ActiveSound, ThreadSound, RequestSound, LockSound, Holds, StateSound, Alone
<1>2. ASSUME Typed, Protocol, [Next]_vars
      PROVE  Protocol'
  <2>1. ASSUME NEW t \in Threads, NEW h \in Handles, Arrive(t, h) \/ FsyncLock(t, h)
        PROVE  Protocol'
    BY <1>2, <2>1, OpenProtocol, WriteProtocol, FlushProtocol, FsyncProtocol DEF Arrive
  <2>2. ASSUME NEW t \in Threads, Step(t)
        PROVE  Protocol'
    BY <1>2, <2>2, NewWriterProtocol, WriteProtocol, FlushProtocol, FsyncProtocol DEF Step
  <2>3. CASE UNCHANGED vars
    BY <1>2, <2>3 DEF vars, handles, threads, Protocol, ActiveSound, ThreadSound, RequestSound, LockSound,
       Holds, StateSound, Alone
  <2> QED BY <1>2, <2>1, <2>2, <2>3, ReleaseProtocol DEF Next
<1> QED BY <1>1, <1>2

-----------------------------------------------------------------------------
(* The life of a writer *)

\* The Mutex excludes: two goroutines never write to or flush the same handle, and
\* none works on a handle that is being opened.
LEMMA Exclusion ==
  ASSUME Typed, Protocol, NEW t \in Threads, NEW u \in Threads, t # u,
         Holds(t) \/ call[t].op = "open", call[u].hnd = call[t].hnd
  PROVE  ~Holds(u)
<1>1. CASE Holds(t)
  BY <1>1 DEF Protocol, ThreadSound, LockSound
<1>2. CASE call[t].op = "open"
  BY <1>2 DEF Protocol, ThreadSound, Alone
<1> QED BY <1>1, <1>2

\* A step of t that changes at most the writer and the state of the handle that
\* t works on
LEMMA LifeStep ==
  ASSUME Typed, Protocol, Writing, NEW t \in Threads, NEW h \in Handles,
         h = call[t].hnd, Holds(t) \/ call[t].op = "open",
         \A u \in Threads \ {t} : pc'[u] = pc[u] /\ call'[u] = call[u],
         \A g \in Handles \ {h} : writer'[g] = writer[g] /\ hstate'[g] = hstate[g],
         writer'[h].dirty => writer'[h].live,
         hstate'[h] \in {"free", "opening"} => ~writer'[h].live,
         hstate'[h] \notin {"open", "closing"} => ~writer'[h].dirty /\ pc'[t] \notin FlushPcs,
         pc'[t] \in FlushPcs => call'[t].hnd = h,
         WriterSound(t)'
  PROVE  LifeSound' /\ \A u \in Threads : WriterSound(u)'
<1> USE ProtocolTypes
<1>1. ASSUME NEW u \in Threads \ {t}, call[u].hnd = h
      PROVE  ~Holds(u)
  BY <1>1, Exclusion
<1>2. LifeSound'
  <2>1. \A g \in Handles \ {h}, u \in Threads : Flushing(u, g)' => Flushing(u, g)
    BY DEF Flushing
  <2>2. \A u \in Threads : Flushing(u, h)' => u = t
    BY <1>1 DEF Flushing, Holds
  <2> QED BY <2>1, <2>2 DEF Writing, LifeSound, Flushing
<1>3. ASSUME NEW u \in Threads \ {t}
      PROVE  WriterSound(u)'
  BY <1>1 DEF Writing, WriterSound, Holds, HasHandle
<1> QED BY <1>2, <1>3

\* A step of t that changes the file only as HDFS lets t do, and no writer of a
\* handle that another goroutine works on
LEMMA LeaseStep ==
  ASSUME Typed, Protocol, LeaseSound, NEW t \in Threads,
         \A u \in Threads \ {t} : pc'[u] = pc[u] /\ call'[u] = call[u],
         \A u \in Threads \ {t} : pc[u] = "flushClose" => writer'[call[u].hnd] = writer[call[u].hnd],
         file' = file \/ file'.lease \in {None, t},
         file'.lease # None => file'.exists,
         pc'[t] = "flushClose" /\ file'.lease = t => file'.data = writer'[call'[t].hnd].stage
  PROVE  LeaseSound'
BY DEF LeaseSound

\* The operations on HDFS are such steps.
LEMMA HdfsLease ==
  ASSUME Typed, LeaseSound, NEW t \in Threads,
         \/ HdfsRemove \/ CreateSucceeds(t) \/ CreateFails(t)
         \/ CloseSucceeds(t) \/ CloseFails(t)
  PROVE  /\ file' = file \/ file'.lease \in {None, t}
         /\ file'.lease # None => file'.exists
<1>1. file \in HdfsFiles
  BY DEF Typed, TypeOK, HdfsFiles
<1> QED BY <1>1 DEF LeaseSound, HdfsFiles, HdfsRemove, Absent, CreateSucceeds, CreateFails, HdfsCreates,
          CloseSucceeds, CloseFails, Completes

\* A step that leaves the writers and the states of the handles alone
LEMMA SameWriters ==
  ASSUME Typed, Protocol, Writing, NEW t \in Threads, UNCHANGED <<writer, hstate>>,
         \A u \in Threads \ {t} : pc'[u] = pc[u] /\ call'[u] = call[u],
         \A h \in Handles : Flushing(t, h)' => Flushing(t, h),
         WriterSound(t)'
  PROVE  LifeSound' /\ \A u \in Threads : WriterSound(u)'
<1>1. \A u \in Threads, h \in Handles : Flushing(u, h)' => Flushing(u, h)
  BY DEF Flushing
<1>2. LifeSound'
  BY <1>1 DEF Writing, LifeSound
<1> QED BY <1>2 DEF Writing, WriterSound

\* An open begins with no writer.
LEMMA OpenWriting ==
  ASSUME Typed, Protocol, Writing, NEW t \in Threads, NEW h \in Handles,
         OpenLazy(t, h) \/ OpenTruncate(t, h) \/ OpenAppend(t, h)
  PROVE  Writing'
<1> USE ProtocolTypes
<1>1. CASE OpenLazy(t, h)
  BY <1>1 DEF OpenLazy, hdfs, threads, Writing, LifeSound, LeaseSound, WriterSound, Flushing
<1>2. ASSUME NEW p \in {"newRemove", "oldStage"}, StartOpen(t, h, p)
      PROVE  Writing'
  <2>1. /\ \A u \in Threads \ {t} : pc'[u] = pc[u] /\ call'[u] = call[u]
        /\ pc'[t] = p /\ call'[t] = Request("open", h)
        /\ hstate' = [hstate EXCEPT ![h] = "opening"] /\ hstate[h] = "free"
        /\ UNCHANGED <<writer, file>>
    BY <1>2 DEF StartOpen, Goto, hdfs
  <2>2. LifeSound'
    BY <2>1 DEF Writing, LifeSound, Flushing
  <2>3. LeaseSound'
    BY <2>1 DEF Writing, LeaseSound
  <2>4. \A u \in Threads : WriterSound(u)'
    BY <2>1 DEF Request, Writing, WriterSound
  <2> QED BY <2>2, <2>3, <2>4 DEF Writing
<1> QED BY <1>1, <1>2 DEF OpenTruncate, OpenAppend

\* The request ends; its handle has no writer, or keeps the one it has.
LEMMA NotEnabledWriting ==
  ASSUME Typed, Protocol, Writing, NEW t \in Threads, pc[t] \in OpenPcs, NotEnabled(t)
  PROVE  LifeSound' /\ (\A u \in Threads : WriterSound(u)') /\ UNCHANGED writer
         /\ pc'[t] = "idle" /\ \A u \in Threads \ {t} : pc'[u] = pc[u] /\ call'[u] = call[u]
<1> USE ProtocolTypes
<1> DEFINE h == call[t].hnd
<1>1. /\ h \in Handles /\ UNCHANGED writer /\ pc'[t] = "idle" /\ call'[t] = Idle
      /\ \A u \in Threads \ {t} : pc'[u] = pc[u] /\ call'[u] = call[u]
  BY DEF HasHandle, NotEnabled, Answer, Goto
<1>2. WriterSound(t)'
  BY <1>1 DEF WriterSound
<1>3. CASE call[t].op = "open"
  <2>1. hstate' = [hstate EXCEPT ![h] = "free"] /\ hstate[h] = "opening"
    BY <1>1, <1>3 DEF NotEnabled, Protocol, ThreadSound, StateSound, RequestSound
  <2>2. ~writer[h].live /\ ~writer[h].dirty
    BY <1>1, <2>1 DEF Writing, LifeSound
  <2> QED BY <1>1, <1>2, <1>3, <2>1, <2>2, LifeStep
<1>4. CASE call[t].op # "open"
  BY <1>1, <1>2, <1>4, SameWriters DEF NotEnabled, Flushing
<1> QED BY <1>1, <1>3, <1>4

\* A fresh writer is clean, and its handle is open.
LEMMA EnabledWriting ==
  ASSUME Typed, Protocol, Writing, NEW t \in Threads, NEW data, pc[t] \in OpenPcs, Enabled(t, data)
  PROVE  LifeSound' /\ (\A u \in Threads : WriterSound(u)')
         /\ (\A u \in Threads \ {t} : pc[u] = "flushClose" => writer'[call[u].hnd] = writer[call[u].hnd])
         /\ pc'[t] # "flushClose" /\ \A u \in Threads \ {t} : pc'[u] = pc[u] /\ call'[u] = call[u]
<1> USE ProtocolTypes
<1> DEFINE h == call[t].hnd
<1>1. h \in Handles /\ writer \in [Handles -> Writers] /\ (call[t].op = "open" \/ Holds(t))
  BY DEF HasHandle, Protocol, ThreadSound, RequestSound, Holds, Typed, TypeOK
<1>2. /\ writer'[h] = NewWriter(data) /\ \A g \in Handles \ {h} : writer'[g] = writer[g]
      /\ \A u \in Threads \ {t} : pc'[u] = pc[u] /\ call'[u] = call[u]
      /\ \A g \in Handles \ {h} : hstate'[g] = hstate[g]
      /\ pc'[t] \in {"idle", "writeAt"}
      /\ pc'[t] = "writeAt" => call'[t] = call[t]
  BY <1>1 DEF Enabled, Answer, Goto
<1>3. NewWriter(data).live /\ ~NewWriter(data).dirty
  BY DEF NewWriter
<1>4. hstate'[h] = "open"
  BY <1>1 DEF Enabled, Protocol, ThreadSound, StateSound, RequestSound
<1>5. WriterSound(t)'
  BY <1>2, <1>3 DEF WriterSound
<1>6. \A u \in Threads \ {t} : pc[u] = "flushClose" => call[u].hnd \in Handles \ {h}
  BY <1>1, Exclusion DEF HasHandle, Holds
<1> QED BY <1>1, <1>2, <1>3, <1>4, <1>5, <1>6, LifeStep

\* NewFileHandleWriter changes the writer of its own handle only.
LEMMA NewWriterWriting ==
  ASSUME Typed, Protocol, Writing, NEW t \in Threads,
         NewRemove(t) \/ NewCreate(t) \/ NewStage(t) \/ OldStage(t) \/ OldCopy(t)
  PROVE  Writing'
<1> USE ProtocolTypes
<1>1. ASSUME pc[t] \in OpenPcs, NEW p \in OpenPcs, Goto(t, p), UNCHANGED <<handles, call>>
      PROVE  LifeSound' /\ (\A u \in Threads : WriterSound(u)') /\ UNCHANGED writer
             /\ pc'[t] # "flushClose" /\ \A u \in Threads \ {t} : pc'[u] = pc[u] /\ call'[u] = call[u]
  <2>1. pc'[t] = p /\ \A u \in Threads \ {t} : pc'[u] = pc[u]
    BY <1>1 DEF Goto
  <2>2. WriterSound(t)'
    BY <1>1, <2>1 DEF handles, Writing, WriterSound
  <2> QED BY <1>1, <2>1, <2>2, SameWriters DEF handles, Flushing
<1>2. /\ file' = file \/ file'.lease \in {None, t}
      /\ file'.lease # None => file'.exists
  BY HdfsLease DEF NewRemove, NewCreate, NewStage, OldStage, OldCopy, Writing, LeaseSound
<1> QED BY <1>1, <1>2, NotEnabledWriting, EnabledWriting, LeaseStep
        DEF NewRemove, NewCreate, NewStage, OldStage, OldCopy, ghosts, Writing

\* A Write finds the writer there and leaves it dirty or as it was.
LEMMA WriteWriting ==
  ASSUME Typed, Protocol, Writing, NEW t \in Threads,
         WriteAt(t) \/ \E h \in Handles : WriteStart(t, h)
  PROVE  Writing'
<1> USE ProtocolTypes
<1>1. ASSUME NEW h \in Handles, WriteStart(t, h)
      PROVE  Writing'
  <2>1. /\ \A u \in Threads \ {t} : pc'[u] = pc[u] /\ call'[u] = call[u]
        /\ pc'[t] = IF writer[h].live THEN "writeAt" ELSE "oldStage"
        /\ call'[t] = Request("write", h) /\ UNCHANGED <<file, writer, hstate>>
    BY <1>1 DEF WriteStart, Accept, Goto, hdfs
  <2>2. WriterSound(t)'
    BY <2>1 DEF Request, WriterSound
  <2>3. LifeSound' /\ \A u \in Threads : WriterSound(u)'
    BY <2>1, <2>2, SameWriters DEF Flushing
  <2>4. LeaseSound'
    BY <2>1, LeaseStep DEF Writing, LeaseSound
  <2> QED BY <2>3, <2>4 DEF Writing
<1>2. CASE WriteAt(t)
  <2> DEFINE h == call[t].hnd
  <2>1. /\ \A u \in Threads \ {t} : pc'[u] = pc[u] /\ call'[u] = call[u]
        /\ pc[t] = "writeAt" /\ pc'[t] = "idle" /\ UNCHANGED <<file, hstate>> /\ Holds(t)
        /\ h \in Handles /\ hstate[h] = "open"
    BY <1>2 DEF WriteAt, Answer, Goto, Holds, HasHandle, Protocol, ThreadSound, StateSound, RequestSound
  <2>2. \A g \in Handles \ {h} : writer'[g] = writer[g]
    BY <1>2 DEF WriteAt, Typed, TypeOK
  <2>3. LifeSound' /\ \A u \in Threads : WriterSound(u)'
    <3>1. PICK d, b : writer' = [writer EXCEPT ![h] = Staged(writer[h], d, b)]
      BY <1>2 DEF WriteAt
    <3>2. writer'[h].live
      <4>1. writer[h].live /\ writer \in [Handles -> Writers]
        BY <2>1 DEF Writing, WriterSound, Typed, TypeOK
      <4> QED BY <2>1, <3>1, <4>1 DEF Staged
    <3> QED BY <2>1, <2>2, <3>2, LifeStep DEF WriterSound
  <2>4. \A u \in Threads \ {t} : pc[u] = "flushClose" => call[u].hnd \in Handles \ {h}
    BY <2>1, Exclusion DEF HasHandle, Holds
  <2>5. LeaseSound'
    BY <2>1, <2>2, <2>4, LeaseStep DEF Writing, LeaseSound
  <2> QED BY <2>3, <2>5 DEF Writing
<1> QED BY <1>1, <1>2

\* After its flush a clean handle may be closed.
LEMMA FlushReturnsWriting ==
  ASSUME Typed, Protocol, Writing, NEW t \in Threads, NEW failed \in BOOLEAN,
         pc[t] \in FlushPcs \cup {"fsyncFlush"}, FlushReturns(t, failed), UNCHANGED <<file, writer>>
  PROVE  Writing'
<1> USE ProtocolTypes
<1> DEFINE h == call[t].hnd
<1>1. /\ \A u \in Threads \ {t} : pc'[u] = pc[u] /\ call'[u] = call[u]
      /\ pc'[t] \in {"idle", "fsync"} /\ Holds(t) /\ h \in Handles
      /\ call[t].op # "fsync" => pc[t] \in FlushPcs
      /\ hstate' = IF call[t].op = "close" THEN [hstate EXCEPT ![h] = "closed"] ELSE hstate
  BY DEF FlushReturns, Answer, Goto, Holds, HasHandle, Protocol, ThreadSound, RequestSound
<1>2. WriterSound(t)'
  BY <1>1 DEF WriterSound
<1>3. LifeSound' /\ \A u \in Threads : WriterSound(u)'
  <2>1. CASE call[t].op = "close"
    <3>1. ~writer[h].dirty
      BY <1>1, <2>1 DEF Writing, WriterSound
    <3> QED BY <1>1, <1>2, <2>1, <3>1, LifeStep
  <2>2. CASE call[t].op # "close"
    BY <1>1, <1>2, <2>2, SameWriters DEF Flushing
  <2> QED BY <2>1, <2>2
<1>4. LeaseSound'
  BY <1>1, LeaseStep DEF Writing, LeaseSound
<1> QED BY <1>3, <1>4 DEF Writing

\* BytesWritten is reset and the flush begins.
LEMMA StartFlushWriting ==
  ASSUME Typed, Protocol, Writing, NEW t \in Threads, NEW h \in Handles,
         StartFlush(t, h), \A u \in Threads \ {t} : call[u].hnd = h => ~Holds(u),
         pc'[t] = "flushRemove", call'[t].hnd = h,
         \A u \in Threads \ {t} : pc'[u] = pc[u] /\ call'[u] = call[u],
         hstate[h] \in {"open", "closing"}, hstate'[h] \in {"open", "closing"},
         \A g \in Handles \ {h} : hstate'[g] = hstate[g], UNCHANGED file
  PROVE  Writing'
<1> USE ProtocolTypes
<1>1. /\ writer \in [Handles -> Writers] /\ ~writer'[h].dirty
      /\ \A g \in Handles \ {h} : writer'[g] = writer[g]
  BY DEF StartFlush, Typed, TypeOK, Writers
<1>2. LifeSound'
  <2>1. \A u \in Threads, g \in Handles \ {h} : Flushing(u, g)' => Flushing(u, g)
    BY DEF Flushing
  <2> QED BY <1>1, <2>1 DEF Writing, LifeSound
<1>3. \A u \in Threads : WriterSound(u)'
  BY <1>1 DEF Writing, WriterSound, Holds, HasHandle
<1>4. LeaseSound'
  BY <1>1, LeaseStep DEF Writing, LeaseSound, Holds, HasHandle
<1> QED BY <1>2, <1>3, <1>4 DEF Writing

\* A flush leaves its writer clean, and uploads the staging file.
LEMMA FlushWriting ==
  ASSUME Typed, Protocol, Writing, NEW t \in Threads,
         \/ \E h \in Handles, op \in {"flush", "close"} : Flush(t, h, op)
         \/ FlushRemove(t) \/ FlushCreate(t) \/ FlushUpload(t) \/ FlushClose(t)
         \/ FlushDone(t)
  PROVE  Writing'
<1> USE ProtocolTypes
<1>1. ASSUME NEW h \in Handles, NEW op \in {"flush", "close"}, Flush(t, h, op)
      PROVE  Writing'
  <2>0. lock[h] = None /\ \A u \in Threads : call[u].hnd = h => ~Holds(u)
    BY <1>1 DEF Flush, Free, Protocol, ThreadSound, LockSound
  <2>1. CASE writer[h].dirty
    <3>1. /\ \A u \in Threads \ {t} : pc'[u] = pc[u] /\ call'[u] = call[u]
          /\ pc'[t] = "flushRemove" /\ call'[t] = Request(op, h)
          /\ hstate[h] = "open" /\ StartFlush(t, h) /\ UNCHANGED file
          /\ hstate' = IF op = "close" THEN [hstate EXCEPT ![h] = "closing"] ELSE hstate
      BY <1>1, <2>1 DEF Flush, Accept, Goto, hdfs
    <3> QED BY <2>0, <3>1, StartFlushWriting DEF Request
  <2>2. CASE ~writer[h].dirty
    <3>1. /\ UNCHANGED <<pc, call, writer, file>>
          /\ hstate' = [hstate EXCEPT ![h] = "closed"]
      BY <1>1, <2>2 DEF Flush, threads, hdfs
    <3>2. \A u \in Threads : ~Flushing(u, h)
      BY <2>0 DEF Flushing, Holds
    <3> QED BY <2>2, <3>1, <3>2 DEF Writing, LifeSound, LeaseSound, WriterSound, Flushing
  <2> QED BY <2>1, <2>2
\* A step of the attempt
<1>2. ASSUME pc[t] \in FlushPcs, NEW p \in FlushPcs, Goto(t, p), UNCHANGED <<writer, hstate>>,
             call' = call \/ \E e : call' = [call EXCEPT ![t] = EndedWith(@, e)]
                          \/ call' = [call EXCEPT ![t] = Again(@)]
      PROVE  /\ LifeSound' /\ \A u \in Threads : WriterSound(u)'
             /\ pc'[t] = p /\ call'[t].hnd = call[t].hnd
             /\ \A u \in Threads \ {t} : pc'[u] = pc[u] /\ call'[u] = call[u]
  <2>1. /\ pc'[t] = p /\ SameRequest(call'[t], call[t])
        /\ \A u \in Threads \ {t} : pc'[u] = pc[u] /\ call'[u] = call[u]
    BY <1>2, UpdatedRequest DEF Goto, SameRequest
  <2>2. WriterSound(t)'
    BY <1>2, <2>1 DEF SameRequest, Writing, WriterSound
  <2> QED BY <1>2, <2>1, <2>2, SameWriters DEF SameRequest, Flushing
<1>3. FlushRemove(t) \/ FlushCreate(t) \/ FlushClose(t) =>
        /\ file' = file \/ file'.lease \in {None, t}
        /\ file'.lease # None => file'.exists
  BY HdfsLease DEF FlushRemove, FlushCreate, FlushClose, Writing
<1>4. CASE FlushRemove(t)
  BY <1>2, <1>3, <1>4, LeaseStep DEF FlushRemove, handles, Writing
<1>5. CASE FlushCreate(t)
  BY <1>2, <1>3, <1>5, LeaseStep DEF FlushCreate, AttemptFails, handles, Writing
<1>6. CASE FlushUpload(t)
  <2>1. /\ file' = file \/ file'.lease \in {None, t}
        /\ file'.lease # None => file'.exists
        /\ Goto(t, "flushClose") /\ file'.lease = t => file'.data = writer[call[t].hnd].stage
    <3>1. file \in HdfsFiles
      BY DEF Typed, TypeOK, HdfsFiles
    <3>2. CASE Uploads(t, writer[call[t].hnd].stage)
      BY <3>1, <3>2 DEF Uploads, HdfsFiles, Writing, LeaseSound
    <3>3. CASE Goto(t, "flushDone")
      <4>1. ~Goto(t, "flushClose")
        BY <3>3 DEF Goto
      <4> QED BY <1>6, <3>1, <3>3, <4>1 DEF FlushUpload, Uploads, HdfsFiles, Writing, LeaseSound
    <3> QED BY <1>6, <3>2, <3>3 DEF FlushUpload, AttemptFails
  <2>2. CASE Goto(t, "flushClose") /\ UNCHANGED call
    BY <1>2, <1>6, <2>1, <2>2, LeaseStep DEF FlushUpload, handles, Writing
  <2>3. CASE \E e : AttemptFails(t, e)
    BY <1>2, <1>6, <2>1, <2>3, LeaseStep DEF FlushUpload, AttemptFails, handles, Writing
  <2> QED BY <1>6, <2>2, <2>3 DEF FlushUpload
<1>7. CASE FlushClose(t)
  BY <1>2, <1>3, <1>7, LeaseStep DEF FlushClose, AttemptFails, handles, Writing
<1>8. CASE FlushDone(t)
  <2>1. CASE GivesUp(call[t].err, call[t].attempt)
    BY <1>8, <2>1, FlushReturnsWriting DEF FlushDone, hdfs
  <2>2. CASE ~GivesUp(call[t].err, call[t].attempt)
    BY <1>2, <1>8, <2>2, LeaseStep DEF FlushDone, hdfs, Writing, LeaseSound
  <2> QED BY <2>1, <2>2
<1> QED BY <1>1, <1>4, <1>5, <1>6, <1>7, <1>8

\* The flushes that an fsync begins are like the others.
LEMMA FsyncWriting ==
  ASSUME Typed, Protocol, Writing, NEW t \in Threads,
         \/ \E h \in Handles : FsyncStart(t, h) \/ FsyncLock(t, h)
         \/ FsyncFlush(t) \/ FsyncReturn(t)
  PROVE  Writing'
<1> USE ProtocolTypes
\* A step that changes the goroutine only
<1>1. ASSUME UNCHANGED <<file, writer, hstate>>, pc'[t] \in {"idle", "fsync", "fsyncFlush"},
             \A u \in Threads \ {t} : pc'[u] = pc[u] /\ call'[u] = call[u]
      PROVE  Writing'
  <2>1. WriterSound(t)'
    BY <1>1 DEF WriterSound
  <2>2. LifeSound' /\ \A u \in Threads : WriterSound(u)'
    BY <1>1, <2>1, SameWriters DEF Flushing
  <2> QED BY <1>1, <2>2, LeaseStep DEF Writing, LeaseSound
<1>2. ASSUME NEW h \in Handles, FsyncStart(t, h)
      PROVE  Writing'
  BY <1>1, <1>2 DEF FsyncStart, Goto, hdfs, handles
<1>3. ASSUME NEW h \in Handles, FsyncLock(t, h)
      PROVE  Writing'
  BY <1>1, <1>3 DEF FsyncLock, Goto, hdfs
<1>4. CASE FsyncFlush(t)
  <2> DEFINE h == call[t].hnd
  <2>1. CASE Answer(t) /\ UNCHANGED <<hstate, writer>>
    BY <1>1, <1>4, <2>1 DEF FsyncFlush, Answer, Goto, hdfs
  <2>2. CASE FlushReturns(t, FALSE) /\ UNCHANGED writer
    BY <1>4, <2>2, FlushReturnsWriting DEF FsyncFlush, hdfs
  <2>3. CASE writer[h].dirty /\ StartFlush(t, h) /\ Goto(t, "flushRemove") /\ UNCHANGED <<hstate, lock, call>>
    <3>1. h \in Handles /\ Holds(t) /\ hstate[h] \in {"open", "closing"}
      BY <1>4, <2>3 DEF FsyncFlush, HasHandle, Holds, Writing, LifeSound
    <3>2. \A u \in Threads \ {t} : call[u].hnd = h => ~Holds(u)
      BY <3>1, Exclusion
    <3>3. pc'[t] = "flushRemove" /\ \A u \in Threads \ {t} : pc'[u] = pc[u] /\ call'[u] = call[u]
      BY <2>3 DEF Goto
    <3> QED BY <1>4, <2>3, <3>1, <3>2, <3>3, StartFlushWriting DEF FsyncFlush, hdfs
  <2> QED BY <1>4, <2>1, <2>2, <2>3 DEF FsyncFlush
<1>5. CASE FsyncReturn(t)
  BY <1>1, <1>5 DEF FsyncReturn, Answer, Goto, hdfs, handles
<1> QED BY <1>2, <1>3, <1>4, <1>5

\* Release disturbs a goroutine only between the check for a writer and its use.
LEMMA ReleaseWriting ==
  ASSUME Typed, Protocol, Writing, NEW h \in Handles, Release(h)
  PROVE  Writing'
<1> USE ProtocolTypes
<1>1. /\ UNCHANGED <<pc, call, file>> /\ hstate[h] = "closed" /\ \A u \in Threads : call[u].fd # h
      /\ hstate' = [hstate EXCEPT ![h] = "free"] /\ writer' = [writer EXCEPT ![h] = NilWriter]
      /\ writer \in [Handles -> Writers] /\ ~NilWriter.live /\ ~NilWriter.dirty
  BY DEF Release, threads, hdfs, Typed, TypeOK, NilWriter
<1>2. \A u \in Threads : Holds(u) /\ call[u].hnd = h => pc[u] = "fsyncFlush"
  BY <1>1 DEF Writing, LifeSound, Flushing, Holds, Protocol, ThreadSound, RequestSound
<1>3. LifeSound'
  BY <1>1 DEF Writing, LifeSound, Flushing
<1>4. \A u \in Threads : WriterSound(u)'
  BY <1>1, <1>2 DEF Writing, WriterSound, Holds, HasHandle
<1>5. LeaseSound'
  BY <1>1, <1>2 DEF Writing, LeaseSound, Holds, HasHandle
<1> QED BY <1>3, <1>4, <1>5 DEF Writing

\* The life of the writers goes as described throughout.
LEMMA WritingInvariant ==
  /\ Init => Writing
  /\ Typed /\ Protocol /\ Writing /\ [Next]_vars => Writing'
<1>1. Init => Writing
  BY DEF Init, NilWriter, Writing, LifeSound, LeaseSound, WriterSound, Flushing
<1>2. ASSUME Typed, Protocol, Writing, [Next]_vars
      PROVE  Writing'
  <2>1. ASSUME NEW t \in Threads, NEW h \in Handles, Arrive(t, h) \/ FsyncLock(t, h)
        PROVE  Writing'
    BY <1>2, <2>1, OpenWriting, WriteWriting, FlushWriting, FsyncWriting DEF Arrive
  <2>2. ASSUME NEW t \in Threads, Step(t)
        PROVE  Writing'
    BY <1>2, <2>2, NewWriterWriting, WriteWriting, FlushWriting, FsyncWriting DEF Step
  <2>3. CASE UNCHANGED vars
    BY <1>2, <2>3 DEF vars, hdfs, handles, threads, Writing, LifeSound, LeaseSound, WriterSound, Flushing
  <2> QED BY <1>2, <2>1, <2>2, <2>3, ReleaseWriting DEF Next
<1> QED BY <1>1, <1>2

-----------------------------------------------------------------------------
(* What is owed to the callers *)

\* Handles with acknowledged writes whose loss no caller has been told of
Pending == unsynced \ flushFailed

\* A handle with no writer, or with a clean one that nobody flushes, owes nothing.
LEMMA NothingPending ==
  ASSUME Typed, History, NEW h \in Handles,
         \/ ~writer[h].live
         \/ ~writer[h].dirty /\ \A t \in Threads : ~Flushing(t, h)
  PROVE  h \notin Pending
BY DEF History, NoUnreportedLoss, Pending

\* A step of t that settles the handles in S, and no other: their writes are
\* stored, or the error goes to a caller.
LEMMA HistoryStep ==
  ASSUME Typed, History, NEW t \in Threads, NEW S,
         \A u \in Threads \ {t} : pc'[u] = pc[u] /\ call'[u] = call[u],
         \A u \in Threads \ {t} : needs'[u] = needs[u] \ S,
         Pending' = Pending \ S, unsynced' \subseteq unsynced,
         \A h \in Pending' :
           /\ writer'[h].live = writer[h].live
           /\ writer[h].dirty \/ Flushing(t, h) => writer'[h].dirty \/ Flushing(t, h)',
         FlushSound(t)', FsyncSound(t)'
  PROVE  History'
<1>1. NoUnreportedLoss'
  <2>1. \A u \in Threads \ {t}, h \in Handles : Flushing(u, h)' <=> Flushing(u, h)
    BY DEF Flushing
  <2>2. Pending \subseteq Handles
    BY DEF Typed, TypeOK, Pending
  <2> SUFFICES ASSUME NEW h \in Pending'
               PROVE  writer'[h].live /\ (writer'[h].dirty \/ \E u \in Threads : Flushing(u, h)')
    BY DEF NoUnreportedLoss, Pending
  <2>3. h \in Pending /\ h \in Handles
    BY <2>2
  <2>4. writer[h].live /\ (writer[h].dirty \/ \E u \in Threads : Flushing(u, h))
    BY <2>3 DEF History, NoUnreportedLoss, Pending
  <2> QED BY <2>1, <2>3, <2>4
<1>2. ASSUME NEW u \in Threads \ {t}
      PROVE  FlushSound(u)' /\ FsyncSound(u)'
  BY <1>2 DEF History, FlushSound, FsyncSound, Holds, Pending
<1> QED BY <1>1, <1>2 DEF History

\* A step that leaves the history alone
LEMMA QuietHistory ==
  ASSUME Typed, History, NEW t \in Threads, UNCHANGED <<unsynced, flushFailed, needs>>,
         \A u \in Threads \ {t} : pc'[u] = pc[u] /\ call'[u] = call[u],
         \A h \in Pending :
           /\ writer'[h].live = writer[h].live
           /\ writer[h].dirty \/ Flushing(t, h) => writer'[h].dirty \/ Flushing(t, h)',
         FlushSound(t)', FsyncSound(t)'
  PROVE  History'
<1>1. Pending' = Pending \ {} /\ \A u \in Threads : needs'[u] = needs[u] \ {}
  BY DEF Pending
<1> QED BY <1>1, HistoryStep

\* A handle that is opened owes nothing from its earlier life.
LEMMA OpenHistory ==
  ASSUME Typed, Protocol, Writing, History, NEW t \in Threads, NEW h \in Handles,
         OpenLazy(t, h) \/ OpenTruncate(t, h) \/ OpenAppend(t, h)
  PROVE  h \notin Pending /\ History'
<1> USE ProtocolTypes
<1>1. /\ hstate[h] = "free" /\ UNCHANGED <<writer, needs>> /\ pc[t] = "idle"
      /\ unsynced' = unsynced \ {h} /\ flushFailed' = flushFailed \ {h}
      /\ \A u \in Threads \ {t} : pc'[u] = pc[u] /\ call'[u] = call[u]
      /\ (pc'[t] = "idle" /\ call' = call) \/ (pc'[t] \in {"newRemove", "oldStage"} /\ call'[t].op = "open")
  BY DEF OpenLazy, OpenTruncate, OpenAppend, StartOpen, Goto, Request, threads
<1>2. h \notin Pending
  BY <1>1, NothingPending DEF Writing, LifeSound
<1>3. Pending' = Pending \ {} /\ unsynced' \subseteq unsynced /\ \A u \in Threads : needs'[u] = needs[u] \ {}
  BY <1>1, <1>2 DEF Pending
<1>4. FlushSound(t)' /\ FsyncSound(t)' /\ \A g : ~Flushing(t, g)
  BY <1>1 DEF FlushSound, FsyncSound, Protocol, ThreadSound, RequestSound, Idle, Request, Flushing
<1>5. History'
  BY <1>1, <1>3, <1>4, HistoryStep
<1> QED BY <1>2, <1>5

\* The end of a request that is not a flush settles nothing.
LEMMA AnswerHistory ==
  ASSUME Typed, History, NEW t \in Threads, Answer(t), UNCHANGED <<unsynced, flushFailed, writer>>,
         \A u \in Threads \ {t} : needs'[u] = needs[u], pc[t] \notin FlushPcs
  PROVE  History'
<1>1. /\ \A u \in Threads \ {t} : pc'[u] = pc[u] /\ call'[u] = call[u]
      /\ pc'[t] = "idle" /\ call'[t].op = "none"
  BY ProtocolTypes DEF Answer, Goto, Idle, Request
<1>2. /\ Pending' = Pending \ {} /\ \A u \in Threads \ {t} : needs'[u] = needs[u] \ {}
      /\ FlushSound(t)' /\ FsyncSound(t)'
  BY <1>1 DEF Pending, FlushSound, FsyncSound
<1> QED BY <1>1, <1>2, HistoryStep DEF Flushing

\* The writer that is replaced by a fresh one owed nothing.
LEMMA NewWriterHistory ==
  ASSUME Typed, Protocol, Writing, History, NEW t \in Threads,
         NewRemove(t) \/ NewCreate(t) \/ NewStage(t) \/ OldStage(t) \/ OldCopy(t)
  PROVE  History'
<1> USE ProtocolTypes
<1>1. /\ pc[t] \in OpenPcs /\ call[t].op \in {"open", "write"}
      /\ \A h : ~Flushing(t, h)
  BY DEF NewRemove, NewCreate, NewStage, OldStage, OldCopy, Protocol, ThreadSound, RequestSound, Flushing
<1>2. ASSUME NEW p \in OpenPcs, Goto(t, p), UNCHANGED <<handles, call, unsynced, flushFailed, needs>>
      PROVE  History'
  <2>1. FlushSound(t)' /\ FsyncSound(t)' /\ \A u \in Threads \ {t} : pc'[u] = pc[u]
    BY <1>1, <1>2 DEF Goto, FlushSound, FsyncSound
  <2> QED BY <1>1, <1>2, <2>1, QuietHistory DEF handles
<1>3. ASSUME NEW data, Enabled(t, data)
      PROVE  History'
  <2> DEFINE h == call[t].hnd
  <2>1. h \in Handles /\ h \notin Pending
    <3>1. h \in Handles /\ h = call[t].fd
      BY <1>1 DEF HasHandle, Protocol, ThreadSound, RequestSound
    <3>2. ~writer[h].live
      BY <1>1, <3>1 DEF Protocol, ThreadSound, StateSound, Writing, LifeSound, WriterSound
    <3> QED BY <3>1, <3>2, NothingPending
  <2>2. \A g \in Handles \ {h} : writer'[g] = writer[g]
    BY <1>3 DEF Enabled, Typed, TypeOK
  <2>3. /\ \A u \in Threads \ {t} : pc'[u] = pc[u] /\ call'[u] = call[u]
        /\ pc'[t] \in {"idle", "writeAt"} /\ call'[t].op # "fsync"
    BY <1>1, <1>3 DEF Enabled, Answer, Goto, Idle, Request
  <2>4. FlushSound(t)' /\ FsyncSound(t)' /\ Pending \subseteq Handles
    BY <2>3 DEF FlushSound, FsyncSound, Pending, Typed, TypeOK
  <2> QED BY <1>1, <1>3, <2>1, <2>2, <2>3, <2>4, QuietHistory DEF Enabled, ghosts
<1>4. CASE NotEnabled(t)
  BY <1>1, <1>4, AnswerHistory DEF NotEnabled
<1> QED BY <1>2, <1>3, <1>4 DEF NewRemove, NewCreate, NewStage, OldStage, OldCopy, ghosts

\* An acknowledged write leaves the writer dirty.
LEMMA WriteHistory ==
  ASSUME Typed, Protocol, Writing, History, NEW t \in Threads,
         WriteAt(t) \/ \E h \in Handles : WriteStart(t, h)
  PROVE  History'
<1> USE ProtocolTypes
<1>1. ASSUME NEW h \in Handles, WriteStart(t, h)
      PROVE  History'
  <2>1. /\ \A u \in Threads \ {t} : pc'[u] = pc[u] /\ call'[u] = call[u]
        /\ pc[t] = "idle" /\ pc'[t] \in {"writeAt", "oldStage"} /\ call'[t].op = "write"
        /\ UNCHANGED <<writer, unsynced, flushFailed, needs>>
    BY <1>1 DEF WriteStart, Accept, Goto, Request, ghosts
  <2> QED BY <2>1, QuietHistory DEF FlushSound, FsyncSound, Flushing
<1>2. CASE WriteAt(t)
  <2> DEFINE h == call[t].hnd
  <2>1. /\ \A u \in Threads \ {t} : pc'[u] = pc[u] /\ call'[u] = call[u]
        /\ pc[t] = "writeAt" /\ pc'[t] = "idle" /\ call'[t].op = "none" /\ UNCHANGED needs
        /\ h \in Handles /\ writer[h].live /\ Holds(t)
    BY <1>2 DEF WriteAt, Answer, Goto, Idle, Request, HasHandle, Writing, WriterSound, Holds
  <2>2. FlushSound(t)' /\ FsyncSound(t)' /\ \A g : ~Flushing(t, g)
    BY <2>1 DEF FlushSound, FsyncSound, Flushing
  <2>3. writer \in [Handles -> Writers]
    BY DEF Typed, TypeOK
  <2>4. CASE UNCHANGED <<unsynced, flushFailed>> /\ \E d : writer' = [writer EXCEPT ![h] = Staged(@, d, @.dirty)]
    <3>1. \A g \in Handles : writer'[g].live = writer[g].live /\ writer'[g].dirty = writer[g].dirty
      <4>1. PICK d : writer' = [writer EXCEPT ![h] = Staged(writer[h], d, writer[h].dirty)]
        BY <2>4
      <4>2. /\ Staged(writer[h], d, writer[h].dirty).live = writer[h].live
            /\ Staged(writer[h], d, writer[h].dirty).dirty = writer[h].dirty
        BY DEF Staged
      <4> QED BY <2>1, <2>3, <4>1, <4>2
    <3>2. Pending \subseteq Handles
      BY DEF Pending, Typed, TypeOK
    <3> QED BY <2>1, <2>2, <2>4, <3>1, <3>2, QuietHistory
  <2>5. CASE /\ \E d : writer' = [writer EXCEPT ![h] = Staged(@, d, TRUE)]
             /\ unsynced' = unsynced \cup {h} /\ flushFailed' = flushFailed \ {h}
    <3>1. /\ \A g \in Handles \ {h} : writer'[g] = writer[g]
          /\ writer'[h].live /\ writer'[h].dirty
      BY <2>1, <2>3, <2>5 DEF Staged
    <3>2. \A u \in Threads, g \in Handles : Flushing(u, g)' <=> Flushing(u, g)
      BY <2>1, <2>2 DEF Flushing
    <3>3. NoUnreportedLoss'
      BY <2>5, <3>1, <3>2 DEF NoUnreportedLoss, History, Typed, TypeOK
    <3>4. ASSUME NEW u \in Threads \ {t}
          PROVE  FlushSound(u)' /\ FsyncSound(u)'
      <4>1. FlushSound(u)'
        BY <2>1, <2>5, Exclusion DEF Holds, History, FlushSound
      <4>2. FsyncSound(u)'
        BY <2>1, <2>5 DEF History, FsyncSound, Holds
      <4> QED BY <4>1, <4>2
    <3> QED BY <2>2, <3>3, <3>4 DEF History
  <2> QED BY <1>2, <2>4, <2>5 DEF WriteAt
<1> QED BY <1>1, <1>2

\* The flush of the handle is over; if it has not failed the handle owes nothing.
LEMMA FlushReturnsHistory ==
  ASSUME Typed, Protocol, Writing, History, NEW t \in Threads, NEW failed \in BOOLEAN,
         FlushReturns(t, failed), UNCHANGED <<writer, unsynced>>,
         NEW h, h = call[t].hnd, Holds(t), h \notin Pending',
         ~failed => UNCHANGED <<flushFailed, needs>>,
         failed => /\ flushFailed' = flushFailed \cup {h}
                   /\ \A u \in Threads : needs'[u] = needs[u] \ {h}
  PROVE  History'
<1> USE ProtocolTypes
<1>1. /\ \A u \in Threads \ {t} : pc'[u] = pc[u] /\ call'[u] = call[u]
      /\ pc'[t] \in {"idle", "fsync"}
  BY DEF FlushReturns, Answer, Goto
<1>2. Pending' = Pending \ {h} /\ \A u \in Threads : needs'[u] \subseteq needs[u]
  BY DEF Pending
<1>3. FsyncSound(t)'
  <2>1. CASE call[t].op = "fsync"
    <3>1. /\ call'[t] = FsyncRequest(call[t].fd, call[t].todo, call[t].failed \/ failed)
          /\ pc'[t] = "fsync"
      BY <2>1 DEF FlushReturns, Goto, YetToVisit, RetErr
    <3>2. CASE ~failed /\ ~call[t].failed
      <4>1. needs[t] \subseteq Pending /\ needs[t] \subseteq call[t].todo \cup {h}
        BY <2>1, <3>2 DEF History, FsyncSound, Pending
      <4>2. call'[t].todo = call[t].todo /\ needs' = needs /\ h \notin Pending
        BY <3>1, <3>2 DEF FsyncRequest, Pending
      <4> QED BY <4>1, <4>2 DEF FsyncSound, Pending
    <3>3. CASE failed \/ call[t].failed
      <4>1. call'[t].failed = (call[t].failed \/ failed)
        BY <3>1 DEF FsyncRequest
      <4> QED BY <3>3, <4>1 DEF FsyncSound
    <3> QED BY <3>2, <3>3
  <2>2. CASE call[t].op # "fsync"
    BY <2>2 DEF FlushReturns, Answer, Idle, Request, FsyncSound
  <2> QED BY <2>1, <2>2
<1>4. FlushSound(t)'
  BY <1>1 DEF FlushSound
<1>5. \A g \in Pending' : ~Flushing(t, g)
  BY DEF Flushing
<1>6. CASE failed
  BY <1>1, <1>2, <1>3, <1>4, <1>5, <1>6, HistoryStep
<1>7. CASE ~failed
  <2>1. Pending' = Pending \ {} /\ \A u \in Threads : needs'[u] = needs[u] \ {}
    BY <1>7 DEF Pending
  <2> QED BY <1>1, <1>3, <1>4, <1>5, <2>1, HistoryStep
<1> QED BY <1>6, <1>7

\* BytesWritten is reset; the writer stays.
LEMMA StartFlushKeeps ==
  ASSUME Typed, NEW t, NEW h \in Handles, StartFlush(t, h)
  PROVE  \A g \in Handles : /\ writer'[g].live = writer[g].live
                            /\ writer'[g].stage = writer[g].stage
                            /\ g # h => writer'[g] = writer[g]
<1>1. writer \in [Handles -> Writers]
  BY DEF Typed, TypeOK
<1>2. /\ writer'[h] = [writer[h] EXCEPT !.dirty = FALSE]
      /\ \A g \in Handles \ {h} : writer'[g] = writer[g]
  BY <1>1 DEF StartFlush
<1>3. writer[h] \in Writers
  BY <1>1
<1>4. writer'[h].live = writer[h].live /\ writer'[h].stage = writer[h].stage
  BY <1>2, <1>3 DEF Writers
<1> QED BY <1>2, <1>4

\* A flush that succeeds stores, one that fails tells its caller.
LEMMA FlushHistory ==
  ASSUME Typed, Protocol, Writing, History, NEW t \in Threads,
         \/ \E h \in Handles, op \in {"flush", "close"} : Flush(t, h, op)
         \/ FlushRemove(t) \/ FlushCreate(t) \/ FlushUpload(t) \/ FlushClose(t)
         \/ FlushDone(t)
  PROVE  History'
<1> USE ProtocolTypes
<1>1. ASSUME NEW h \in Handles, NEW op \in {"flush", "close"}, Flush(t, h, op)
      PROVE  History'
  <2>1. CASE writer[h].dirty
    <3>1. /\ \A u \in Threads \ {t} : pc'[u] = pc[u] /\ call'[u] = call[u]
          /\ pc[t] = "idle" /\ pc'[t] = "flushRemove" /\ call'[t] = Request(op, h)
          /\ UNCHANGED <<unsynced, flushFailed, needs>>
          /\ StartFlush(t, h)
      BY <1>1, <2>1 DEF Flush, Accept, Goto, ghosts
    <3>2. FlushSound(t)' /\ FsyncSound(t)' /\ Flushing(t, h)' /\ \A g : ~Flushing(t, g)
      BY <3>1 DEF Request, FlushSound, FsyncSound, Flushing
    <3>3. \A g \in Handles : writer'[g].live = writer[g].live /\ (g # h => writer'[g].dirty = writer[g].dirty)
      BY <3>1, StartFlushKeeps
    <3>4. Pending \subseteq Handles
      BY DEF Pending, Typed, TypeOK
    <3> QED BY <3>1, <3>2, <3>3, <3>4, QuietHistory
  <2>2. CASE ~writer[h].dirty
    <3>1. UNCHANGED <<pc, call, writer, unsynced, flushFailed, needs>>
      BY <1>1, <2>2 DEF Flush, threads, ghosts
    <3> QED BY <3>1 DEF History, NoUnreportedLoss, Flushing, FlushSound, FsyncSound, Holds
  <2> QED BY <2>1, <2>2
\* A step of the attempt
<1>2. ASSUME pc[t] \in FlushPcs, NEW p \in FlushPcs, Goto(t, p),
             \/ p # "flushDone" /\ UNCHANGED call
             \/ p # "flushDone" /\ call' = [call EXCEPT ![t] = Again(@)]
             \/ \E e : call' = [call EXCEPT ![t] = EndedWith(@, e)] /\ (e = "none" => call[t].hnd \notin unsynced')
      PROVE  /\ \A u \in Threads \ {t} : pc'[u] = pc[u] /\ call'[u] = call[u]
             /\ pc'[t] = p /\ SameRequest(call'[t], call[t])
             /\ FlushSound(t)' /\ Holds(t)' /\ Holds(t) /\ \A g : Flushing(t, g) <=> Flushing(t, g)'
  <2>1. /\ pc'[t] = p /\ SameRequest(call'[t], call[t])
        /\ \A u \in Threads \ {t} : pc'[u] = pc[u] /\ call'[u] = call[u]
    BY <1>2, UpdatedRequest DEF Goto, SameRequest
  <2>2. CASE p # "flushDone"
    BY <1>2, <2>1, <2>2 DEF FlushSound, Flushing, SameRequest, Holds
  <2>3. CASE p = "flushDone"
    <3>1. PICK e : call' = [call EXCEPT ![t] = EndedWith(@, e)] /\ (e = "none" => call[t].hnd \notin unsynced')
      BY <1>2, <2>3
    <3>2. call'[t].err = e /\ call'[t].hnd = call[t].hnd
      BY <3>1, UpdatedRequest DEF SameRequest
    <3> QED BY <1>2, <2>1, <3>1, <3>2 DEF FlushSound, Flushing, SameRequest, Holds
  <2> QED BY <2>1, <2>2, <2>3
\* ... that stores nothing
<1>3. ASSUME pc[t] \in FlushPcs, NEW p \in FlushPcs, Goto(t, p),
             \/ p # "flushDone" /\ UNCHANGED call
             \/ p # "flushDone" /\ call' = [call EXCEPT ![t] = Again(@)]
             \/ \E e \in {"EOF", "other"} : call' = [call EXCEPT ![t] = EndedWith(@, e)],
             UNCHANGED <<writer, unsynced, flushFailed, needs>>
      PROVE  History'
  <2>1. /\ \A u \in Threads \ {t} : pc'[u] = pc[u] /\ call'[u] = call[u]
        /\ SameRequest(call'[t], call[t])
        /\ FlushSound(t)' /\ Holds(t)' /\ Holds(t) /\ \A g : Flushing(t, g) <=> Flushing(t, g)'
    BY <1>2, <1>3
  <2>2. FsyncSound(t)'
    BY <1>3, <2>1 DEF History, FsyncSound, SameRequest
  <2> QED BY <1>3, <2>1, <2>2, QuietHistory
<1>4. CASE FlushRemove(t)
  BY <1>3, <1>4 DEF FlushRemove, handles, ghosts
<1>5. CASE FlushCreate(t)
  BY <1>3, <1>5 DEF FlushCreate, AttemptFails, handles
<1>6. CASE FlushUpload(t)
  BY <1>3, <1>6 DEF FlushUpload, AttemptFails, handles, ghosts
<1>7. CASE FlushClose(t)
  <2> DEFINE h == call[t].hnd
  <2>1. CASE Stored(h) /\ Goto(t, "flushDone") /\ call' = [call EXCEPT ![t] = EndedWith(@, "none")]
    <3>1. pc[t] = "flushClose" /\ UNCHANGED writer /\ h \notin unsynced'
      BY <1>7, <2>1 DEF FlushClose, handles, Stored
    <3>2. /\ \A u \in Threads \ {t} : pc'[u] = pc[u] /\ call'[u] = call[u]
          /\ SameRequest(call'[t], call[t])
          /\ FlushSound(t)' /\ Holds(t)' /\ Holds(t) /\ \A g : Flushing(t, g) <=> Flushing(t, g)'
      BY <1>2, <2>1, <3>1
    <3>3. Pending' = Pending \ {h} /\ unsynced' \subseteq unsynced /\ \A u \in Threads : needs'[u] = needs[u] \ {h}
      BY <2>1 DEF Stored, Pending
    <3>4. FsyncSound(t)'
      <4> SUFFICES ASSUME call'[t].op = "fsync" /\ ~call'[t].failed
                   PROVE  /\ needs'[t] \subseteq Pending'
                          /\ needs'[t] \subseteq call'[t].todo \cup {call'[t].hnd}
        BY <3>2 DEF FsyncSound, Pending
      <4>1. /\ call[t].op = "fsync" /\ ~call[t].failed
            /\ call'[t].todo = call[t].todo /\ call'[t].hnd = call[t].hnd
        BY <3>2 DEF SameRequest
      <4>2. needs[t] \subseteq Pending /\ needs[t] \subseteq call[t].todo \cup {call[t].hnd}
        BY <3>2, <4>1 DEF History, FsyncSound, Pending
      <4>3. needs'[t] = needs[t] \ {h}
        BY <3>3
      <4> HIDE DEF h, Pending
      <4> QED BY <3>3, <4>1, <4>2, <4>3
    <3> QED BY <3>1, <3>2, <3>3, <3>4, HistoryStep
  <2>2. CASE UNCHANGED <<unsynced, flushFailed, needs>> /\ \E e \in {"EOF", "other"} : AttemptFails(t, e)
    BY <1>3, <1>7, <2>2 DEF FlushClose, AttemptFails, handles
  <2> QED BY <1>7, <2>1, <2>2 DEF FlushClose
<1>8. CASE FlushDone(t)
  <2> DEFINE h == call[t].hnd
  <2>0. pc[t] = "flushDone" /\ Holds(t) /\ UNCHANGED writer
    BY <1>8 DEF FlushDone, Holds
  <2>1. CASE GivesUp(call[t].err, call[t].attempt) /\ call[t].err = "none"
    <3>1. FlushReturns(t, FALSE) /\ UNCHANGED <<unsynced, flushFailed, needs>>
      BY <1>8, <2>1 DEF FlushDone, ghosts
    <3>2. h \notin Pending'
      BY <2>0, <2>1, <3>1 DEF History, FlushSound, Pending
    <3> QED BY <2>0, <3>1, <3>2, FlushReturnsHistory
  <2>2. CASE GivesUp(call[t].err, call[t].attempt) /\ call[t].err # "none"
    <3>1. FlushReturns(t, TRUE) /\ NotStored(t, h)
      BY <1>8, <2>2 DEF FlushDone
    <3> QED BY <2>0, <3>1, FlushReturnsHistory DEF NotStored, Pending
  <2>3. CASE ~GivesUp(call[t].err, call[t].attempt)
    BY <1>3, <1>8, <2>3 DEF FlushDone, ghosts
  <2> QED BY <2>1, <2>2, <2>3
<1> QED BY <1>1, <1>4, <1>5, <1>6, <1>7, <1>8

\* An fsync passes only handles that owe it nothing.
LEMMA FsyncHistory ==
  ASSUME Typed, Protocol, Writing, History, NEW t \in Threads,
         \/ \E h \in Handles : FsyncStart(t, h) \/ FsyncLock(t, h)
         \/ FsyncFlush(t) \/ FsyncReturn(t)
  PROVE  History'
<1> USE ProtocolTypes
<1>1. ASSUME NEW h \in Handles, FsyncStart(t, h)
      PROVE  History'
  <2>1. /\ \A u \in Threads \ {t} : pc'[u] = pc[u] /\ call'[u] = call[u]
        /\ \A u \in Threads \ {t} : needs'[u] = needs[u]
        /\ pc[t] = "idle" /\ pc'[t] = "fsync" /\ call'[t] = FsyncRequest(h, active, FALSE)
        /\ needs'[t] = Pending /\ UNCHANGED <<writer, unsynced, flushFailed>>
    BY <1>1 DEF FsyncStart, Goto, GetActiveHandles, handles, Pending, Typed, TypeOK
  <2>2. Pending \subseteq active
    BY DEF Pending, History, NoUnreportedLoss, Typed, TypeOK, Writing, LifeSound, Protocol, ActiveSound,
           HandleStates
  <2>3. FlushSound(t)' /\ FsyncSound(t)' /\ \A g : ~Flushing(t, g)
    BY <2>1, <2>2 DEF FlushSound, FsyncSound, FsyncRequest, Flushing, Pending
  <2>4. Pending' = Pending \ {} /\ \A u \in Threads \ {t} : needs'[u] = needs[u] \ {}
    BY <2>1 DEF Pending
  <2> QED BY <2>1, <2>3, <2>4, HistoryStep
<1>2. ASSUME NEW h \in Handles, FsyncLock(t, h)
      PROVE  History'
  <2>1. /\ \A u \in Threads \ {t} : pc'[u] = pc[u] /\ call'[u] = call[u]
        /\ pc[t] = "fsync" /\ pc'[t] \in {"fsync", "fsyncFlush"} /\ ~Holds(t)
        /\ UNCHANGED <<writer, unsynced, flushFailed, needs>>
    BY <1>2 DEF FsyncLock, Goto, Holds, ghosts
  <2>2. CASE writer[h].live
    <3>1. /\ call'[t].todo = call[t].todo \ {h} /\ call'[t].hnd = h /\ call'[t].failed = call[t].failed
          /\ call'[t].op = call[t].op /\ pc'[t] = "fsyncFlush"
      BY <1>2, <2>2, UpdatedRequest DEF FsyncLock, Goto, SameRequest, Requests
    <3>2. FsyncSound(t)'
      BY <2>1, <3>1 DEF History, FsyncSound, Holds
    <3> QED BY <2>1, <3>1, <3>2, QuietHistory DEF FlushSound, Flushing
  <2>3. CASE ~writer[h].live
    <3>1. /\ call'[t].todo = call[t].todo \ {h} /\ call'[t].failed = call[t].failed
          /\ call'[t].op = call[t].op /\ h \notin Pending
      BY <1>2, <2>3, UpdatedRequest, NothingPending DEF FsyncLock, SameRequest, Requests
    <3>2. FsyncSound(t)'
      BY <2>1, <3>1 DEF History, FsyncSound, Pending
    <3> QED BY <2>1, <3>1, <3>2, QuietHistory DEF FlushSound, Flushing
  <2> QED BY <2>2, <2>3
<1>3. CASE FsyncFlush(t)
  <2> DEFINE h == call[t].hnd
  <2>1. /\ pc[t] = "fsyncFlush" /\ Holds(t) /\ h \in Handles /\ UNCHANGED <<unsynced, flushFailed>>
        /\ \A g : ~Flushing(t, g)
    BY <1>3 DEF FsyncFlush, HasHandle, Holds, Flushing
  <2>2. CASE Answer(t) /\ needs' = [needs EXCEPT ![t] = {}] /\ UNCHANGED writer
    BY <2>1, <2>2, AnswerHistory
  <2>3. CASE ~writer[h].dirty /\ FlushReturns(t, FALSE) /\ UNCHANGED <<writer, needs>>
    <3>1. \A u \in Threads : ~Flushing(u, h)
      BY <2>1, Exclusion DEF Flushing, Holds
    <3>2. h \notin Pending
      BY <2>1, <2>3, <3>1, NothingPending
    <3>3. h \notin Pending'
      BY <2>1, <3>2 DEF Pending
    <3> QED BY <2>1, <2>3, <3>3, FlushReturnsHistory
  <2>4. CASE StartFlush(t, h) /\ Goto(t, "flushRemove") /\ UNCHANGED <<call, needs>>
    <3>1. /\ \A u \in Threads \ {t} : pc'[u] = pc[u] /\ call'[u] = call[u]
          /\ pc'[t] = "flushRemove" /\ Flushing(t, h)' /\ Holds(t)'
      BY <2>4 DEF Goto, Flushing, Holds
    <3>2. \A g \in Handles : writer'[g].live = writer[g].live /\ (g # h => writer'[g].dirty = writer[g].dirty)
      BY <2>1, <2>4, StartFlushKeeps
    <3>3. FlushSound(t)' /\ FsyncSound(t)' /\ Pending \subseteq Handles
      BY <2>1, <2>4, <3>1 DEF History, FlushSound, FsyncSound, Pending, Typed, TypeOK
    <3> QED BY <2>1, <2>4, <3>1, <3>2, <3>3, QuietHistory
  <2> QED BY <1>3, <2>2, <2>3, <2>4 DEF FsyncFlush
<1>4. CASE FsyncReturn(t)
  BY <1>4, AnswerHistory DEF FsyncReturn, handles
<1> QED BY <1>1, <1>2, <1>3, <1>4

\* Release finds nothing to flush: the last flush was over before.
LEMMA ReleaseHistory ==
  ASSUME Typed, Protocol, Writing, History, NEW h \in Handles, Release(h)
  PROVE  History'
<1>1. /\ UNCHANGED <<pc, call, unsynced, flushFailed, needs>>
      /\ \A g \in Handles \ {h} : writer'[g] = writer[g]
      /\ hstate[h] = "closed"
  BY DEF Release, threads, ghosts, Typed, TypeOK
<1>2. h \notin Pending
  BY <1>1, NothingPending DEF Writing, LifeSound
<1> QED BY <1>1, <1>2 DEF Pending, History, NoUnreportedLoss, Flushing, FlushSound, FsyncSound, Holds, Typed, TypeOK

\* What is owed to the callers is accounted for throughout.
LEMMA HistoryInvariant ==
  /\ Init => History
  /\ Typed /\ Protocol /\ Writing /\ History /\ [Next]_vars => History'
<1>1. Init => History
  BY DEF Init, Idle, Request, History, NoUnreportedLoss, FlushSound, FsyncSound
<1>2. ASSUME Typed, Protocol, Writing, History, [Next]_vars
      PROVE  History'
  <2>1. ASSUME NEW t \in Threads, NEW h \in Handles, Arrive(t, h) \/ FsyncLock(t, h)
        PROVE  History'
    BY <1>2, <2>1, OpenHistory, WriteHistory, FlushHistory, FsyncHistory DEF Arrive
  <2>2. ASSUME NEW t \in Threads, Step(t)
        PROVE  History'
    BY <1>2, <2>2, NewWriterHistory, WriteHistory, FlushHistory, FsyncHistory DEF Step
  <2>3. CASE UNCHANGED vars
    BY <1>2, <2>3 DEF vars, hdfs, handles, threads, ghosts, History, NoUnreportedLoss, Flushing, FlushSound,
       FsyncSound, Holds
  <2> QED BY <1>2, <2>1, <2>2, <2>3, ReleaseHistory DEF Next
<1> QED BY <1>1, <1>2

-----------------------------------------------------------------------------
(* The safety properties *)

\* The invariant holds at first.
LEMMA InvInit == Init => Inv
BY TypeInit, ProtocolInvariant, WritingInvariant, HistoryInvariant DEF Inv

\* Every step keeps the invariant.
LEMMA InvStep == Inv /\ [Next]_vars => Inv'
BY TypeStep, ProtocolInvariant, WritingInvariant, HistoryInvariant DEF Inv

\* Bytes whose Write was acknowledged are stored by a later flush, or the error
\* of that flush goes to a caller: nothing that HDFS, the other goroutines or
\* Release do makes FileHandle forget them (FileHandleWriter.go:107,
\* FileHandle.go:119-123).
THEOREM AcknowledgedNotForgotten == Spec => []NoUnreportedLoss
<1>1. Inv => NoUnreportedLoss
  BY DEF Inv, History
<1> QED BY <1>1, InvInit, InvStep, PTL DEF Spec

\* A goroutine's step changes no other goroutine.
LEMMA OthersStay ==
  ASSUME NEW t \in Threads, NEW u \in Threads \ {t},
         Step(t) \/ \E h \in Handles : Arrive(t, h) \/ FsyncLock(t, h),
         pc \in [Threads -> Pcs], call \in [Threads -> Requests]
  PROVE  pc'[u] = pc[u] /\ call'[u] = call[u]
<1>1. ASSUME \E p : Goto(t, p)
      PROVE  pc'[u] = pc[u]
  BY <1>1 DEF Goto
<1>2. ASSUME Answer(t)
      PROVE  pc'[u] = pc[u] /\ call'[u] = call[u]
  BY <1>1, <1>2 DEF Answer
<1>3. ASSUME NEW op, NEW h, NEW p, Accept(t, op, h, p)
      PROVE  pc'[u] = pc[u] /\ call'[u] = call[u]
  BY <1>1, <1>3 DEF Accept
<1>4. ASSUME NEW failed, FlushReturns(t, failed)
      PROVE  pc'[u] = pc[u] /\ call'[u] = call[u]
  BY <1>1, <1>2, <1>4 DEF FlushReturns
<1>5. ASSUME NEW e, AttemptFails(t, e)
      PROVE  pc'[u] = pc[u] /\ call'[u] = call[u]
  BY <1>1, <1>5 DEF AttemptFails
<1>6. ASSUME NEW h \in Handles, Arrive(t, h)
      PROVE  pc'[u] = pc[u] /\ call'[u] = call[u]
  BY <1>1, <1>3, <1>6 DEF Arrive, OpenLazy, OpenTruncate, OpenAppend, StartOpen, WriteStart, FsyncStart, Flush, threads
<1>7. ASSUME NEW h \in Handles, FsyncLock(t, h)
      PROVE  pc'[u] = pc[u] /\ call'[u] = call[u]
  BY <1>1, <1>7 DEF FsyncLock
<1>8. ASSUME NewRemove(t) \/ NewCreate(t) \/ NewStage(t) \/ OldStage(t) \/ OldCopy(t) \/ WriteAt(t)
      PROVE  pc'[u] = pc[u] /\ call'[u] = call[u]
  BY <1>1, <1>2, <1>8 DEF NewRemove, NewCreate, NewStage, OldStage, OldCopy, WriteAt, Enabled, NotEnabled
<1>9. ASSUME FlushRemove(t) \/ FlushCreate(t) \/ FlushUpload(t) \/ FlushClose(t) \/ FlushDone(t)
      PROVE  pc'[u] = pc[u] /\ call'[u] = call[u]
  BY <1>1, <1>4, <1>5, <1>9 DEF FlushRemove, FlushCreate, FlushUpload, FlushClose, FlushDone
<1>10. ASSUME FsyncFlush(t) \/ FsyncReturn(t)
       PROVE  pc'[u] = pc[u] /\ call'[u] = call[u]
  BY <1>1, <1>2, <1>4, <1>10 DEF FsyncFlush, FsyncReturn
<1> QED BY <1>6, <1>7, <1>8, <1>9, <1>10 DEF Step

\* Only the close of the upload ends "flushClose", only an FsyncReturn leads
\* from "fsync" to "idle".
LEMMA EndOfStep ==
  ASSUME Typed, NEW t \in Threads, [Next]_vars, pc'[t] # pc[t]
  PROVE  /\ pc[t] = "flushClose" => FlushClose(t)
         /\ pc[t] = "fsync" /\ pc'[t] = "idle" => FsyncReturn(t)
<1> USE ProtocolTypes
<1>1. Step(t) \/ \E h \in Handles : Arrive(t, h) \/ FsyncLock(t, h)
  BY OthersStay DEF Next, vars, threads, Release
<1>2. \A h \in Handles : Arrive(t, h) => pc[t] = "idle"
  BY DEF Arrive, OpenLazy, OpenTruncate, OpenAppend, StartOpen, WriteStart, FsyncStart, Flush, Accept
<1>3. \A h \in Handles : FsyncLock(t, h) => pc[t] = "fsync" /\ pc'[t] \in {"fsync", "fsyncFlush"}
  BY DEF FsyncLock, Goto
<1>4. CASE Step(t)
  BY <1>4 DEF Step, NewRemove, NewCreate, NewStage, OldStage, OldCopy, WriteAt,
     FlushRemove, FlushCreate, FlushUpload, FlushClose, FlushDone, FsyncFlush, FsyncReturn
<1> QED BY <1>1, <1>2, <1>3, <1>4

\* A flush that returns nil has stored the whole staging file, whatever the other
\* handles have done to the file during the upload (FileHandleWriter.go:127-160).
THEOREM SuccessfulFlushIsDurable == Spec => FlushSuccessIsDurable
<1>1. ASSUME Inv, [Next]_vars, NEW t \in Threads,
             pc[t] = "flushClose", pc'[t] = "flushDone", call'[t].err = "none"
      PROVE  file' = [exists |-> TRUE, data |-> writer[call[t].hnd].stage, lease |-> None]
  <2>1. FlushClose(t)
    BY <1>1, EndOfStep DEF Inv
  <2>2. ~ \E e \in {"EOF", "other"} : AttemptFails(t, e)
    <3>1. ASSUME NEW e \in {"EOF", "other"}, call' = [call EXCEPT ![t] = EndedWith(call[t], e)]
          PROVE  call'[t].err = e
      BY <1>1, <3>1, ProtocolTypes, UpdatedRequest DEF Inv
    <3> QED BY <1>1, <3>1 DEF AttemptFails
  <2>3. file.lease = t /\ file' = [file EXCEPT !.lease = None]
    BY <2>1, <2>2 DEF FlushClose, CloseSucceeds, Completes
  <2>4. file \in HdfsFiles /\ t # None
    BY <1>1 DEF Inv, Typed, TypeOK, HdfsFiles
  <2>5. file.exists /\ file.data = writer[call[t].hnd].stage
    BY <1>1, <2>3, <2>4 DEF Inv, Writing, LeaseSound
  <2> QED BY <2>3, <2>4, <2>5 DEF HdfsFiles
<1>2. Inv /\ [Next]_vars =>
        [\A t \in Threads :
           (pc[t] = "flushClose" /\ pc'[t] = "flushDone" /\ call'[t].err = "none") =>
             file' = [exists |-> TRUE, data |-> writer[call[t].hnd].stage, lease |-> None]]_vars
  BY <1>1
<1> QED BY <1>2, InvInit, InvStep, PTL DEF Spec, FlushSuccessIsDurable

\* When File.Fsync returns nil, every write acknowledged before it started has
\* been flushed since, or the error of its flush went to the caller that flushed
\* it (File.go:112-122).
THEOREM FsyncAnswersForAll == Spec => FsyncCovers
<1>1. ASSUME Inv, [Next]_vars, NEW t \in Threads,
             pc[t] = "fsync", pc'[t] = "idle", ~call[t].failed
      PROVE  needs[t] = {}
  <2>1. call[t].todo = {} /\ call[t].op = "fsync" /\ ~Holds(t)
    BY <1>1, EndOfStep DEF FsyncReturn, Inv, Protocol, ThreadSound, RequestSound, Holds
  <2> QED BY <1>1, <2>1 DEF Inv, History, FsyncSound
<1>2. Inv /\ [Next]_vars =>
        [\A t \in Threads :
           (pc[t] = "fsync" /\ pc'[t] = "idle" /\ ~call[t].failed) => needs[t] = {}]_vars
  BY <1>1
<1> QED BY <1>2, InvInit, InvStep, PTL DEF Spec, FsyncCovers

-----------------------------------------------------------------------------
(* FileHandle implements DurableFile *)

\* The abstract variables: per goroutine, the handle it flushes for a process;
\* whether its fsync is bound to fail.
FlushedBy(t) == IF call[t].op \in {"flush", "close"} THEN call[t].hnd ELSE None
Failing(t)   == \/ call[t].failed
                \/ pc[t] = "fsyncFlush" /\ ~writer[call[t].hnd].live
FlushingMap == [t \in Threads |-> FlushedBy(t)]
FsyncingMap == {t \in Threads : call[t].op = "fsync"}
FailingMap  == {t \in Threads : Failing(t)}

\* The steps of DurableFile in terms of these
LEMMA AbstractSteps ==
  ASSUME NEW h \in Handles, NEW t \in Threads
  PROVE  /\ /\ unsynced' = unsynced \cup {h} /\ flushFailed' = flushFailed \ {h}
            /\ UNCHANGED <<needs, FlushingMap, FsyncingMap, FailingMap>>
            => Durable!Acknowledge(h)
         /\ Stored(h) /\ UNCHANGED <<FlushingMap, FsyncingMap, FailingMap>>
            => Durable!Store(h)
         /\ /\ NotStored(t, h) /\ UNCHANGED FsyncingMap
            /\ \/ /\ FlushingMap[t] = h /\ FlushingMap[t] # None
                  /\ FlushingMap' = [FlushingMap EXCEPT ![t] = None] /\ UNCHANGED FailingMap
               \/ t \in FsyncingMap /\ FailingMap' = FailingMap \cup {t} /\ UNCHANGED FlushingMap
            => Durable!Tell(t, h)
         /\ /\ FlushingMap[t] = None /\ FlushingMap' = [FlushingMap EXCEPT ![t] = h]
            /\ UNCHANGED <<unsynced, flushFailed, needs, FsyncingMap, FailingMap>>
            => Durable!FlushStart(t, h)
         /\ /\ FlushingMap[t] # None /\ FlushingMap' = [FlushingMap EXCEPT ![t] = None]
            /\ FlushingMap[t] \notin unsynced
            /\ UNCHANGED <<unsynced, flushFailed, needs, FsyncingMap, FailingMap>>
            => Durable!FlushReturn(t)
         /\ /\ h \notin unsynced \ flushFailed
            /\ unsynced' = unsynced \ {h} /\ flushFailed' = flushFailed \ {h}
            /\ UNCHANGED <<needs, FlushingMap, FsyncingMap, FailingMap>>
            => Durable!Forget(h)
         /\ /\ t \notin FsyncingMap /\ FsyncingMap' = FsyncingMap \cup {t}
            /\ needs' = [needs EXCEPT ![t] = unsynced \ flushFailed]
            /\ UNCHANGED <<unsynced, flushFailed, FlushingMap, FailingMap>>
            => Durable!FsyncStart(t)
         /\ /\ t \in FsyncingMap /\ FsyncingMap' = FsyncingMap \ {t}
            /\ needs[t] = {} \/ t \in FailingMap
            /\ needs' = [needs EXCEPT ![t] = {}] /\ FailingMap' = FailingMap \ {t}
            /\ UNCHANGED <<unsynced, flushFailed, FlushingMap>>
            => Durable!FsyncReturn(t)
         /\ UNCHANGED <<unsynced, flushFailed, needs, FlushingMap, FsyncingMap, FailingMap>>
            => UNCHANGED Durable!vars
BY ZenonT(60) DEF FlushingMap, FsyncingMap, FailingMap, FlushedBy, Failing, Stored, NotStored,
   Durable!Acknowledge, Durable!Store, Durable!Tell, Durable!FlushStart, Durable!FlushReturn,
   Durable!Forget, Durable!FsyncStart, Durable!FsyncReturn, Durable!vars, Durable!data,
   Durable!Settled, Durable!FlushOver

\* What a step of t makes of the abstract variables: it takes the writer away
\* from no other goroutine that is about to flush it.
LEMMA MapStep ==
  ASSUME NEW t \in Threads,
         \A u \in Threads \ {t} : pc'[u] = pc[u] /\ call'[u] = call[u],
         \A u \in Threads \ {t} : pc[u] = "fsyncFlush" =>
            writer'[call[u].hnd].live = writer[call[u].hnd].live
  PROVE  /\ FlushingMap' = [FlushingMap EXCEPT ![t] = FlushedBy(t)']
         /\ FlushedBy(t)' = FlushedBy(t) => UNCHANGED FlushingMap
         /\ call'[t].op = "fsync" => FsyncingMap' = FsyncingMap \cup {t}
         /\ call'[t].op # "fsync" => FsyncingMap' = FsyncingMap \ {t}
         /\ Failing(t)' => FailingMap' = FailingMap \cup {t}
         /\ ~Failing(t)' => FailingMap' = FailingMap \ {t}
         /\ FlushingMap[t] = FlushedBy(t)
         /\ t \in FsyncingMap <=> call[t].op = "fsync"
         /\ t \in FailingMap <=> Failing(t)
<1>1. \A u \in Threads \ {t} : FlushedBy(u)' = FlushedBy(u) /\ (Failing(u)' <=> Failing(u))
  BY DEF FlushedBy, Failing
<1>2. FlushingMap' = [FlushingMap EXCEPT ![t] = FlushedBy(t)']
  BY <1>1 DEF FlushingMap
<1>3. FlushedBy(t)' = FlushedBy(t) => UNCHANGED FlushingMap
  BY <1>1 DEF FlushingMap
<1>4. /\ call'[t].op = "fsync" => FsyncingMap' = FsyncingMap \cup {t}
      /\ call'[t].op # "fsync" => FsyncingMap' = FsyncingMap \ {t}
      /\ t \in FsyncingMap <=> call[t].op = "fsync"
  BY DEF FsyncingMap
<1>5. /\ Failing(t)' => FailingMap' = FailingMap \cup {t}
      /\ ~Failing(t)' => FailingMap' = FailingMap \ {t}
      /\ t \in FailingMap <=> Failing(t)
  BY <1>1 DEF FailingMap
<1>6. FlushingMap[t] = FlushedBy(t)
  BY DEF FlushingMap
<1> QED BY <1>2, <1>3, <1>4, <1>5, <1>6

\* A goroutine that works on a handle may change its writer.
LEMMA OthersWriters ==
  ASSUME Typed, Protocol, NEW t \in Threads, Holds(t) \/ call[t].op = "open",
         \A g \in Handles \ {call[t].hnd} : writer'[g] = writer[g],
         NEW u \in Threads \ {t}, pc[u] = "fsyncFlush"
  PROVE  writer'[call[u].hnd].live = writer[call[u].hnd].live
<1>1. call[u].hnd \in Handles /\ call[u].hnd # call[t].hnd
  BY ProtocolTypes, Exclusion DEF HasHandle, Holds
<1> QED BY <1>1

\* Only an fsync can fail as an fsync.
LEMMA NotFsync ==
  ASSUME Typed, Protocol, NEW t \in Threads, call[t].op # "fsync"
  PROVE  ~Failing(t)
BY DEF Protocol, ThreadSound, RequestSound, Failing

\* A step of t that starts and ends no fsync, and settles the fate of none
LEMMA QuietMap ==
  ASSUME NEW t \in Threads,
         \A u \in Threads \ {t} : pc'[u] = pc[u] /\ call'[u] = call[u],
         \A u \in Threads \ {t} : pc[u] = "fsyncFlush" =>
            writer'[call[u].hnd].live = writer[call[u].hnd].live,
         call'[t].op = "fsync" <=> call[t].op = "fsync",
         Failing(t)' <=> Failing(t)
  PROVE  /\ FsyncingMap' = FsyncingMap /\ FailingMap' = FailingMap
         /\ FlushedBy(t)' = FlushedBy(t) => FlushingMap' = FlushingMap
<1>1. FsyncingMap' = FsyncingMap
  <2>1. CASE call[t].op = "fsync"
    <3>1. FsyncingMap' = FsyncingMap \cup {t} /\ t \in FsyncingMap
      BY <2>1, MapStep
    <3> QED BY <3>1
  <2>2. CASE call[t].op # "fsync"
    <3>1. FsyncingMap' = FsyncingMap \ {t} /\ t \notin FsyncingMap
      BY <2>2, MapStep
    <3> QED BY <3>1
  <2> QED BY <2>1, <2>2
<1>2. FailingMap' = FailingMap
  <2>1. CASE Failing(t)
    <3>1. FailingMap' = FailingMap \cup {t} /\ t \in FailingMap
      BY <2>1, MapStep
    <3> QED BY <3>1
  <2>2. CASE ~Failing(t)
    <3>1. FailingMap' = FailingMap \ {t} /\ t \notin FailingMap
      BY <2>2, MapStep
    <3> QED BY <3>1
  <2> QED BY <2>1, <2>2
<1> QED BY <1>1, <1>2, MapStep

\* A step within a request that is not an fsync, or between two such requests
LEMMA NotFsyncStep ==
  ASSUME Typed, Protocol, Protocol', NEW t \in Threads,
         \A u \in Threads \ {t} : pc'[u] = pc[u] /\ call'[u] = call[u],
         \A u \in Threads \ {t} : pc[u] = "fsyncFlush" =>
            writer'[call[u].hnd].live = writer[call[u].hnd].live,
         call[t].op # "fsync", call'[t].op # "fsync"
  PROVE  /\ FsyncingMap' = FsyncingMap /\ FailingMap' = FailingMap
         /\ FlushedBy(t)' = FlushedBy(t) => FlushingMap' = FlushingMap
<1>1. ~Failing(t) /\ ~Failing(t)'
  BY NotFsync DEF Protocol, ThreadSound, RequestSound, Failing
<1> QED BY <1>1, QuietMap

AbstractStep == [Durable!Next]_(Durable!vars)

\* A step of DurableFile with a handle and a goroutine
LEMMA StepsOfNext ==
  ASSUME NEW h \in Handles, NEW t \in Threads,
         \/ Durable!Acknowledge(h) \/ Durable!Store(h) \/ Durable!Forget(h)
         \/ Durable!Tell(t, h) \/ Durable!FlushStart(t, h)
         \/ Durable!FlushReturn(t) \/ Durable!FsyncStart(t) \/ Durable!FsyncReturn(t)
         \/ Durable!Trouble \/ UNCHANGED Durable!vars
  PROVE  AbstractStep
BY Zenon DEF AbstractStep, Durable!Next

\* A step that the abstract file does not see
LEMMA Stutter ==
  ASSUME NEW t \in Threads, UNCHANGED <<unsynced, flushFailed, needs>>,
         FlushingMap' = FlushingMap, FsyncingMap' = FsyncingMap, FailingMap' = FailingMap
  PROVE  AbstractStep
<1>1. UNCHANGED Durable!vars
  BY ZenonT(60) DEF FlushingMap, FsyncingMap, FailingMap, FlushedBy, Failing, Durable!vars, Durable!data
<1> QED BY <1>1 DEF AbstractStep

\* An open forgets what the handle was before.
LEMMA OpenRefines ==
  ASSUME Inv, Protocol', NEW t \in Threads, NEW h \in Handles,
         OpenLazy(t, h) \/ OpenTruncate(t, h) \/ OpenAppend(t, h)
  PROVE  AbstractStep
<1> USE ProtocolTypes DEF Inv
<1>1. /\ UNCHANGED <<writer, needs>> /\ pc[t] = "idle"
      /\ unsynced' = unsynced \ {h} /\ flushFailed' = flushFailed \ {h}
      /\ \A u \in Threads \ {t} : pc'[u] = pc[u] /\ call'[u] = call[u]
      /\ call' = call \/ call'[t].op = "open"
  BY DEF OpenLazy, OpenTruncate, OpenAppend, StartOpen, Goto, Request, threads
<1>2. call[t].op = "none" /\ call'[t].op \in {"none", "open"}
  BY <1>1 DEF Protocol, ThreadSound, RequestSound, Idle, Request
<1>3. UNCHANGED <<FlushingMap, FsyncingMap, FailingMap>>
  BY <1>1, <1>2, NotFsyncStep DEF FlushedBy
<1>4. h \notin unsynced \ flushFailed
  BY OpenHistory DEF Pending
<1> QED BY <1>1, <1>3, <1>4, AbstractSteps, StepsOfNext

\* The abstract file sees nothing of the making of a writer.
LEMMA NewWriterRefines ==
  ASSUME Inv, Protocol', NEW t \in Threads,
         NewRemove(t) \/ NewCreate(t) \/ NewStage(t) \/ OldStage(t) \/ OldCopy(t)
  PROVE  AbstractStep
<1> USE ProtocolTypes DEF Inv
<1>1. /\ pc[t] \in OpenPcs /\ call[t].op \in {"open", "write"}
      /\ Holds(t) \/ call[t].op = "open"
  BY DEF NewRemove, NewCreate, NewStage, OldStage, OldCopy, Protocol, ThreadSound, RequestSound, Holds
<1>2. /\ UNCHANGED <<unsynced, flushFailed, needs>>
      /\ \A u \in Threads \ {t} : pc'[u] = pc[u] /\ call'[u] = call[u]
  BY OthersStay DEF Step, NewRemove, NewCreate, NewStage, OldStage, OldCopy, Enabled, NotEnabled, ghosts
<1>3. /\ \A g \in Handles \ {call[t].hnd} : writer'[g] = writer[g]
      /\ call' = call \/ call'[t] = Idle
  BY DEF NewRemove, NewCreate, NewStage, OldStage, OldCopy, Enabled, NotEnabled, Answer, handles,
     Typed, TypeOK
<1>4. FlushingMap' = FlushingMap /\ FsyncingMap' = FsyncingMap /\ FailingMap' = FailingMap
  BY <1>1, <1>2, <1>3, OthersWriters, NotFsyncStep DEF FlushedBy, Idle, Request
<1> QED BY <1>2, <1>4, Stutter

\* A Write that succeeds is acknowledged.
LEMMA WriteRefines ==
  ASSUME Inv, Protocol', NEW t \in Threads,
         WriteAt(t) \/ \E h \in Handles : WriteStart(t, h)
  PROVE  AbstractStep
<1> USE ProtocolTypes DEF Inv
<1>1. ASSUME NEW h \in Handles, WriteStart(t, h)
      PROVE  AbstractStep
  <2>1. /\ \A u \in Threads \ {t} : pc'[u] = pc[u] /\ call'[u] = call[u]
        /\ call[t].op = "none" /\ call'[t].op = "write"
        /\ UNCHANGED <<writer, unsynced, flushFailed, needs>>
    BY <1>1 DEF WriteStart, Accept, Goto, Request, ghosts, Protocol, ThreadSound, RequestSound, Idle
  <2>2. FlushingMap' = FlushingMap /\ FsyncingMap' = FsyncingMap /\ FailingMap' = FailingMap
    BY <2>1, NotFsyncStep DEF FlushedBy
  <2> QED BY <2>1, <2>2, Stutter
<1>2. CASE WriteAt(t)
  <2> DEFINE h == call[t].hnd
  <2>1. /\ \A u \in Threads \ {t} : pc'[u] = pc[u] /\ call'[u] = call[u]
        /\ pc[t] = "writeAt" /\ call'[t].op = "none" /\ UNCHANGED needs
    BY <1>2 DEF WriteAt, Answer, Goto, Idle, Request
  <2>2. call[t].op = "write" /\ h \in Handles /\ Holds(t)
    BY <2>1 DEF HasHandle, Holds, Protocol, ThreadSound, RequestSound
  <2>3. \A g \in Handles \ {h} : writer'[g] = writer[g]
    BY <1>2 DEF WriteAt, Typed, TypeOK
  <2>4. FlushingMap' = FlushingMap /\ FsyncingMap' = FsyncingMap /\ FailingMap' = FailingMap
    BY <2>1, <2>2, <2>3, OthersWriters, NotFsyncStep DEF FlushedBy
  <2>5. CASE UNCHANGED <<unsynced, flushFailed>>
    BY <2>1, <2>4, <2>5, Stutter
  <2>6. CASE unsynced' = unsynced \cup {h} /\ flushFailed' = flushFailed \ {h}
    BY <2>1, <2>4, <2>6, <2>2, AbstractSteps, StepsOfNext
  <2> QED BY <1>2, <2>5, <2>6 DEF WriteAt
<1> QED BY <1>1, <1>2

\* The flush of a handle is over: how the request that made it goes on
LEMMA FlushReturnsMap ==
  ASSUME Inv, Protocol', NEW t \in Threads, NEW failed \in BOOLEAN,
         FlushReturns(t, failed), UNCHANGED writer, pc[t] \in FlushPcs \cup {"fsyncFlush"}
  PROVE  /\ FsyncingMap' = FsyncingMap
         /\ call[t].op # "fsync" =>
              /\ FlushingMap[t] = call[t].hnd /\ FlushingMap' = [FlushingMap EXCEPT ![t] = None]
              /\ FailingMap' = FailingMap
         /\ call[t].op = "fsync" =>
              /\ t \in FsyncingMap /\ FlushingMap' = FlushingMap
              /\ failed => FailingMap' = FailingMap \cup {t}
              /\ ~failed /\ (pc[t] = "fsyncFlush" => writer[call[t].hnd].live) => FailingMap' = FailingMap
<1> USE ProtocolTypes DEF Inv
<1>1. \A u \in Threads \ {t} : pc'[u] = pc[u] /\ call'[u] = call[u]
  BY DEF FlushReturns, Answer, Goto
<1>2. CASE call[t].op # "fsync"
  <2>1. call'[t].op = "none" /\ call[t].op \in {"flush", "close"}
    BY <1>2 DEF FlushReturns, Answer, Idle, Request, Protocol, ThreadSound, RequestSound
  <2> QED BY <1>1, <1>2, <2>1, NotFsyncStep, MapStep DEF FlushedBy
<1>3. CASE call[t].op = "fsync"
  <2>1. /\ call'[t] = FsyncRequest(call[t].fd, call[t].todo, call[t].failed \/ failed)
        /\ pc'[t] = "fsync"
    BY <1>3 DEF FlushReturns, Goto, YetToVisit, RetErr
  <2>2. call'[t].op = "fsync" /\ call'[t].failed = (call[t].failed \/ failed)
    BY <2>1 DEF FsyncRequest
  <2>3. FlushedBy(t)' = FlushedBy(t)
    BY <1>3, <2>2 DEF FlushedBy
  <2>4. FsyncingMap' = FsyncingMap /\ t \in FsyncingMap
    <3>1. FsyncingMap' = FsyncingMap \cup {t} /\ t \in FsyncingMap
      BY <1>1, <1>3, <2>2, MapStep
    <3> QED BY <3>1
  <2>5. CASE failed
    <3>1. Failing(t)'
      BY <2>2, <2>5 DEF Failing
    <3> QED BY <1>1, <1>3, <2>3, <2>4, <2>5, <3>1, MapStep
  <2>6. CASE ~failed /\ (pc[t] = "fsyncFlush" => writer[call[t].hnd].live)
    <3>1. Failing(t)' <=> Failing(t)
      BY <2>1, <2>2, <2>6 DEF Failing
    <3> QED BY <1>1, <1>3, <2>2, <2>3, <2>4, <2>6, <3>1, QuietMap
  <2>7. FlushingMap' = FlushingMap
    BY <1>1, <2>3, MapStep
  <2> QED BY <1>3, <2>4, <2>5, <2>6, <2>7
<1> QED BY <1>2, <1>3

\* A flush begins, stores, and returns or tells its caller.
LEMMA FlushRefines ==
  ASSUME Inv, Protocol', NEW t \in Threads,
         \/ \E h \in Handles, op \in {"flush", "close"} : Flush(t, h, op)
         \/ FlushRemove(t) \/ FlushCreate(t) \/ FlushUpload(t) \/ FlushClose(t)
         \/ FlushDone(t)
  PROVE  AbstractStep
<1> USE ProtocolTypes DEF Inv
<1>1. ASSUME NEW h \in Handles, NEW op \in {"flush", "close"}, Flush(t, h, op)
      PROVE  AbstractStep
  <2>1. CASE writer[h].dirty
    <3>1. /\ \A u \in Threads \ {t} : pc'[u] = pc[u] /\ call'[u] = call[u]
          /\ pc[t] = "idle" /\ call'[t] = Request(op, h) /\ StartFlush(t, h)
          /\ UNCHANGED <<unsynced, flushFailed, needs>>
      BY <1>1, <2>1 DEF Flush, Accept, Goto, ghosts
    <3>2. call[t].op = "none" /\ call'[t].op = op /\ call'[t].hnd = h
      BY <3>1 DEF Protocol, ThreadSound, RequestSound, Idle, Request
    <3>3. \A u \in Threads \ {t} : pc[u] = "fsyncFlush" =>
             writer'[call[u].hnd].live = writer[call[u].hnd].live
      BY <3>1, StartFlushKeeps DEF HasHandle
    <3>4. FsyncingMap' = FsyncingMap /\ FailingMap' = FailingMap
      BY <3>1, <3>2, <3>3, NotFsyncStep
    <3>5. FlushingMap[t] = None /\ FlushingMap' = [FlushingMap EXCEPT ![t] = h]
      BY <3>1, <3>2, <3>3, MapStep DEF FlushedBy
    <3> QED BY <3>1, <3>4, <3>5, AbstractSteps, StepsOfNext
  <2>2. CASE ~writer[h].dirty
    <3>1. UNCHANGED <<pc, call, writer, unsynced, flushFailed, needs>>
      BY <1>1, <2>2 DEF Flush, threads, ghosts
    <3>2. FlushingMap' = FlushingMap /\ FsyncingMap' = FsyncingMap /\ FailingMap' = FailingMap
      BY <3>1 DEF FlushingMap, FsyncingMap, FailingMap, FlushedBy, Failing
    <3> QED BY <3>1, <3>2, Stutter
  <2> QED BY <2>1, <2>2
\* A step of the attempt
<1>2. ASSUME pc[t] \in FlushPcs, NEW p \in FlushPcs, Goto(t, p), UNCHANGED writer,
             \/ UNCHANGED call \/ call' = [call EXCEPT ![t] = Again(@)]
             \/ \E e : call' = [call EXCEPT ![t] = EndedWith(@, e)]
      PROVE  FlushingMap' = FlushingMap /\ FsyncingMap' = FsyncingMap /\ FailingMap' = FailingMap
  <2>1. /\ pc'[t] = p /\ SameRequest(call'[t], call[t])
        /\ \A u \in Threads \ {t} : pc'[u] = pc[u] /\ call'[u] = call[u]
    BY <1>2, UpdatedRequest DEF Goto, SameRequest
  <2>2. (Failing(t)' <=> Failing(t)) /\ FlushedBy(t)' = FlushedBy(t)
    BY <1>2, <2>1 DEF Failing, FlushedBy, SameRequest
  <2> QED BY <1>2, <2>1, <2>2, QuietMap DEF SameRequest
<1>3. CASE FlushRemove(t)
  BY <1>2, <1>3, Stutter DEF FlushRemove, handles, ghosts
<1>4. CASE FlushCreate(t)
  BY <1>2, <1>4, Stutter DEF FlushCreate, AttemptFails, handles
<1>5. CASE FlushUpload(t)
  BY <1>2, <1>5, Stutter DEF FlushUpload, AttemptFails, handles, ghosts
<1>6. CASE FlushClose(t)
  <2>1. FlushingMap' = FlushingMap /\ FsyncingMap' = FsyncingMap /\ FailingMap' = FailingMap
    BY <1>2, <1>6 DEF FlushClose, AttemptFails, handles
  <2>2. CASE Stored(call[t].hnd)
    <3>1. call[t].hnd \in Handles
      BY <1>6 DEF FlushClose, HasHandle
    <3> QED BY <2>1, <2>2, <3>1, AbstractSteps, StepsOfNext
  <2>3. CASE UNCHANGED <<unsynced, flushFailed, needs>>
    BY <2>1, <2>3, Stutter
  <2> QED BY <1>6, <2>2, <2>3 DEF FlushClose
<1>7. CASE FlushDone(t)
  <2> DEFINE h == call[t].hnd
  <2>1. pc[t] = "flushDone" /\ UNCHANGED writer /\ h \in Handles
    BY <1>7 DEF FlushDone, HasHandle
  <2>2. CASE GivesUp(call[t].err, call[t].attempt) /\ call[t].err = "none"
    <3>1. FlushReturns(t, FALSE) /\ UNCHANGED <<unsynced, flushFailed, needs>>
      BY <1>7, <2>2 DEF FlushDone, ghosts
    <3>2. h \notin unsynced /\ FsyncingMap' = FsyncingMap
      BY <2>1, <2>2, <3>1, FlushReturnsMap DEF History, FlushSound
    <3>3. CASE call[t].op # "fsync"
      <4>1. /\ FlushingMap[t] = h /\ FlushingMap' = [FlushingMap EXCEPT ![t] = None]
            /\ FailingMap' = FailingMap
        BY <2>1, <3>1, <3>3, FlushReturnsMap
      <4> QED BY <2>1, <3>1, <3>2, <4>1, AbstractSteps, StepsOfNext
    <3>4. CASE call[t].op = "fsync"
      <4>1. FlushingMap' = FlushingMap /\ FailingMap' = FailingMap
        BY <2>1, <3>1, <3>4, FlushReturnsMap
      <4> QED BY <3>1, <3>2, <4>1, Stutter
    <3> QED BY <3>3, <3>4
  <2>3. CASE GivesUp(call[t].err, call[t].attempt) /\ call[t].err # "none"
    <3>1. FlushReturns(t, TRUE) /\ NotStored(t, h)
      BY <1>7, <2>3 DEF FlushDone
    <3>2. /\ FsyncingMap' = FsyncingMap
          /\ \/ /\ FlushingMap[t] = h /\ FlushingMap[t] # None
                /\ FlushingMap' = [FlushingMap EXCEPT ![t] = None] /\ FailingMap' = FailingMap
             \/ t \in FsyncingMap /\ FailingMap' = FailingMap \cup {t} /\ FlushingMap' = FlushingMap
      BY <2>1, <3>1, FlushReturnsMap
    <3> QED BY <2>1, <3>1, <3>2, AbstractSteps, StepsOfNext
  <2>4. CASE ~GivesUp(call[t].err, call[t].attempt)
    BY <1>2, <1>7, <2>4, Stutter DEF FlushDone, ghosts
  <2> QED BY <2>2, <2>3, <2>4
<1> QED BY <1>1, <1>3, <1>4, <1>5, <1>6, <1>7

\* An fsync begins and returns; between, its flushes are seen.
LEMMA FsyncRefines ==
  ASSUME Inv, Protocol', NEW t \in Threads,
         \/ \E h \in Handles : FsyncStart(t, h) \/ FsyncLock(t, h)
         \/ FsyncFlush(t) \/ FsyncReturn(t)
  PROVE  AbstractStep
<1> USE ProtocolTypes DEF Inv
<1>1. ASSUME NEW h \in Handles, FsyncStart(t, h)
      PROVE  AbstractStep
  <2>1. /\ \A u \in Threads \ {t} : pc'[u] = pc[u] /\ call'[u] = call[u]
        /\ pc[t] = "idle" /\ pc'[t] = "fsync" /\ call'[t] = FsyncRequest(h, active, FALSE)
        /\ needs' = [needs EXCEPT ![t] = unsynced \ flushFailed]
        /\ UNCHANGED <<writer, unsynced, flushFailed>>
    BY <1>1 DEF FsyncStart, Goto, GetActiveHandles, handles
  <2>2. call[t].op = "none" /\ call'[t].op = "fsync" /\ ~Failing(t) /\ ~Failing(t)'
    BY <2>1 DEF Protocol, ThreadSound, RequestSound, Idle, Request, FsyncRequest, Failing
  <2>3. t \notin FsyncingMap /\ FsyncingMap' = FsyncingMap \cup {t}
    BY <2>1, <2>2, MapStep
  <2>4. FailingMap' = FailingMap \ {t} /\ t \notin FailingMap /\ FlushingMap' = FlushingMap
    BY <2>1, <2>2, MapStep DEF FlushedBy
  <2>5. FailingMap' = FailingMap
    BY <2>4
  <2> QED BY <2>1, <2>3, <2>4, <2>5, AbstractSteps, StepsOfNext
<1>2. ASSUME NEW h \in Handles, FsyncLock(t, h)
      PROVE  AbstractStep
  <2>1. /\ \A u \in Threads \ {t} : pc'[u] = pc[u] /\ call'[u] = call[u]
        /\ pc[t] = "fsync" /\ call[t].op = "fsync"
        /\ UNCHANGED <<writer, unsynced, flushFailed, needs>>
    BY <1>2 DEF FsyncLock, Goto, ghosts, Protocol, ThreadSound, RequestSound
  <2>2. /\ call'[t].failed = call[t].failed /\ call'[t].op = call[t].op
        /\ \/ pc'[t] = "fsyncFlush" /\ call'[t].hnd = h /\ writer[h].live
           \/ pc'[t] = "fsync"
    BY <1>2, UpdatedRequest DEF FsyncLock, Goto, SameRequest, Requests
  <2>3. (Failing(t)' <=> Failing(t)) /\ FlushedBy(t)' = FlushedBy(t)
    BY <2>1, <2>2 DEF Failing, FlushedBy
  <2> QED BY <2>1, <2>2, <2>3, QuietMap, Stutter
<1>3. CASE FsyncFlush(t)
  <2> DEFINE h == call[t].hnd
  <2>1. /\ pc[t] = "fsyncFlush" /\ h \in Handles /\ UNCHANGED <<unsynced, flushFailed>>
        /\ call[t].op = "fsync"
    BY <1>3 DEF FsyncFlush, HasHandle, Protocol, ThreadSound, RequestSound
  <2>2. CASE ~writer[h].live /\ Answer(t) /\ needs' = [needs EXCEPT ![t] = {}] /\ UNCHANGED writer
    <3>1. /\ \A u \in Threads \ {t} : pc'[u] = pc[u] /\ call'[u] = call[u]
          /\ pc'[t] = "idle" /\ call'[t].op = "none" /\ ~call'[t].failed /\ Failing(t) /\ ~Failing(t)'
      BY <2>1, <2>2 DEF Answer, Goto, Idle, Request, Failing
    <3>2. /\ t \in FsyncingMap /\ FsyncingMap' = FsyncingMap \ {t}
          /\ t \in FailingMap /\ FailingMap' = FailingMap \ {t} /\ FlushingMap' = FlushingMap
      BY <2>1, <2>2, <3>1, MapStep DEF FlushedBy
    <3> QED BY <2>1, <2>2, <3>2, AbstractSteps, StepsOfNext
  <2>3. CASE writer[h].live /\ FlushReturns(t, FALSE) /\ UNCHANGED <<writer, needs>>
    BY <2>1, <2>3, FlushReturnsMap, Stutter
  <2>4. CASE writer[h].dirty /\ StartFlush(t, h) /\ Goto(t, "flushRemove") /\ UNCHANGED <<call, needs>>
    <3>1. /\ \A u \in Threads \ {t} : pc'[u] = pc[u] /\ call'[u] = call[u]
          /\ pc'[t] = "flushRemove" /\ writer[h].live
      BY <2>1, <2>4 DEF Goto, Writing, LifeSound
    <3>2. \A u \in Threads \ {t} : pc[u] = "fsyncFlush" =>
             writer'[call[u].hnd].live = writer[call[u].hnd].live
      BY <2>1, <2>4, StartFlushKeeps DEF HasHandle
    <3>3. (Failing(t)' <=> Failing(t)) /\ FlushedBy(t)' = FlushedBy(t)
      BY <2>1, <2>4, <3>1 DEF Failing, FlushedBy
    <3> QED BY <2>1, <2>4, <3>1, <3>2, <3>3, QuietMap, Stutter
  <2> QED BY <1>3, <2>2, <2>3, <2>4 DEF FsyncFlush
<1>4. CASE FsyncReturn(t)
  <2>1. /\ \A u \in Threads \ {t} : pc'[u] = pc[u] /\ call'[u] = call[u]
        /\ pc[t] = "fsync" /\ pc'[t] = "idle" /\ call'[t].op = "none" /\ ~call'[t].failed
        /\ call[t].todo = {} /\ call[t].op = "fsync" /\ call[t].fd \in Handles /\ ~Holds(t)
        /\ needs' = [needs EXCEPT ![t] = {}] /\ UNCHANGED <<writer, unsynced, flushFailed>>
    BY <1>4 DEF FsyncReturn, Answer, Goto, Idle, Request, handles, Holds, Protocol, ThreadSound, RequestSound
  <2>2. ~Failing(t)' /\ (call[t].failed => Failing(t))
    BY <2>1 DEF Failing
  <2>3. /\ t \in FsyncingMap /\ FsyncingMap' = FsyncingMap \ {t}
        /\ FailingMap' = FailingMap \ {t} /\ FlushingMap' = FlushingMap
        /\ t \in FailingMap <=> Failing(t)
    BY <2>1, <2>2, MapStep DEF FlushedBy
  <2>4. needs[t] = {} \/ t \in FailingMap
    BY <2>1, <2>2, <2>3 DEF History, FsyncSound
  <2> QED BY <2>1, <2>3, <2>4, AbstractSteps, StepsOfNext
<1> QED BY <1>1, <1>2, <1>3, <1>4

\* Release takes the writer away from the fsyncs that are about to flush it.
LEMMA ReleaseRefines ==
  ASSUME Inv, NEW h \in Handles, Release(h)
  PROVE  AbstractStep
<1>1. /\ UNCHANGED <<pc, call, unsynced, flushFailed, needs>>
      /\ \A g \in Handles \ {h} : writer'[g] = writer[g]
      /\ writer \in [Handles -> Writers] /\ writer'[h] = NilWriter /\ ~NilWriter.live
  BY DEF Release, threads, ghosts, Inv, Typed, TypeOK, NilWriter
<1>2. \A t \in Threads : Failing(t) => Failing(t)'
  BY <1>1, ProtocolTypes DEF Inv, Failing, HasHandle
<1>3. \A t \in Threads : Failing(t)' => call[t].op = "fsync"
  BY <1>1 DEF Inv, Protocol, ThreadSound, RequestSound, Failing
<1>4. /\ FlushingMap' = FlushingMap /\ FsyncingMap' = FsyncingMap
      /\ FailingMap \subseteq FailingMap' /\ FailingMap' \subseteq FsyncingMap
  BY <1>1, <1>2, <1>3 DEF FlushingMap, FsyncingMap, FailingMap, FlushedBy
<1>5. Durable!Trouble
  BY <1>1, <1>4 DEF FlushingMap, FsyncingMap, FailingMap, FlushedBy, Failing, Durable!Trouble, Durable!data
<1> QED BY <1>5 DEF AbstractStep, Durable!Next

\* Every step of FileHandle is one of DurableFile, or none.
LEMMA RefinementStep == Inv /\ [Next]_vars => AbstractStep
<1> SUFFICES ASSUME Inv, [Next]_vars
             PROVE  AbstractStep
  OBVIOUS
<1>0. Protocol'
  BY InvStep DEF Inv
<1>1. ASSUME NEW t \in Threads, NEW h \in Handles, Arrive(t, h) \/ FsyncLock(t, h)
      PROVE  AbstractStep
  BY <1>0, <1>1, OpenRefines, WriteRefines, FlushRefines, FsyncRefines DEF Arrive
<1>2. ASSUME NEW t \in Threads, Step(t)
      PROVE  AbstractStep
  BY <1>0, <1>2, NewWriterRefines, WriteRefines, FlushRefines, FsyncRefines DEF Step
<1>3. CASE UNCHANGED vars
  <2>1. UNCHANGED <<pc, call, writer, unsynced, flushFailed, needs>>
    BY <1>3 DEF vars, handles, threads, ghosts
  <2> QED BY <2>1 DEF AbstractStep, Durable!vars, Durable!data
<1> QED BY <1>1, <1>2, <1>3, ReleaseRefines DEF Next

\* FileHandle implements DurableFile: acknowledged writes are stored or their
\* loss is reported, a handle is not reused before, and fsync answers for all
\* handles (FileHandle.go:50-127, File.go:112-122).
THEOREM FileHandleIsDurable == Spec => ImplementsDurableFile
<1>1. Init => Durable!Init
  BY DEF Init, Idle, Request, Durable!Init
<1>2. Inv /\ [Next]_vars => [Durable!Next]_(Durable!vars)
  BY RefinementStep DEF AbstractStep
<1> QED BY <1>1, <1>2, InvInit, InvStep, PTL DEF Spec, ImplementsDurableFile, Durable!Spec
=============================================================================
