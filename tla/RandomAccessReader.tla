------------------------- MODULE RandomAccessReader -------------------------
(***************************************************************************)
(* RandomAccessReader.go: concurrent random access to one HDFS file by a   *)
(* pool of readers, kept by the position they are at, so that sequential   *)
(* reads meet the reader that is already there.  The readers are           *)
(* FileHandleAsReadSeekCloser objects, the ones that File.OpenRead makes.  *)
(*                                                                         *)
(* The pool's lock is held for get and return only; between them a         *)
(* goroutine works with a reader it has taken out of the pool.             *)
(***************************************************************************)
EXTENDS Integers, FiniteSets, Sequences

CONSTANTS Threads,    \* goroutines that call ReadAt
          Readers,    \* readers; a closed one stands for the next one opened
          Requests,   \* the reads asked for: [offset : Nat, size : Nat]
          Length,     \* length of the file
          MaxReaders, \* randomAccessReaderImpl.MaxReaders
          MaxFaults,  \* bound on the failures of the readers
          None        \* nil

ASSUME RequestsAssumption == Requests \subseteq [offset : Nat, size : Nat]
ASSUME BoundsAssumption   == Length \in Nat /\ MaxReaders \in Nat /\ MaxFaults \in Nat
ASSUME NoneAssumption     == None \notin Readers

VARIABLES
  pool,    \* Pool: a function from positions to readers
  closed,  \* Pool = nil
  rstate,  \* the readers: "none", "open", "closing" (a goroutine will close it)
  pos,     \* position of each reader (0 when closed)
  faults,  \* failures so far
  pc,      \* the step of ReadAt each goroutine is at
  calls,   \* the read it serves
  held,    \* the reader it works with
  buffer,  \* what it has read so far
  result   \* what its last ReadAt returned

readers == <<rstate, pos>>
vars == <<pool, closed, readers, faults, pc, calls, held, buffer, result>>

\* The abstract reader: calls, closed and result are its variables.
Abstract == INSTANCE ReaderAt WITH closed <- closed, calls <- calls, result <- result

Init ==
  /\ pool = <<>>
  /\ rstate = [r \in Readers |-> "none"]
  /\ pos = [r \in Readers |-> 0]
  /\ faults = 0
  /\ pc = [t \in Threads |-> "idle"]
  /\ held = [t \in Threads |-> None]
  /\ buffer = [t \in Threads |-> <<>>]
  /\ Abstract!Init

-----------------------------------------------------------------------------
Goto(t, p) == pc' = [pc EXCEPT ![t] = p]
Fails == faults < MaxFaults /\ faults' = faults + 1
Offset(t) == calls[t].request.offset
Missing(t) == calls[t].request.size - Len(buffer[t])

\* Error, the reader (if any) having been dealt with
ReturnError(t) ==
  /\ Goto(t, "idle") /\ calls' = [calls EXCEPT ![t] = Abstract!NoCall]
  /\ result' = [result EXCEPT ![t] = Abstract!Failed]
  /\ held' = [held EXCEPT ![t] = None] /\ buffer' = [buffer EXCEPT ![t] = <<>>]

\* A reader that nobody is to use any more: go reader.Close()
CloseSoon(r) == rstate' = [rstate EXCEPT ![r] = "closing"]

\* ReadAt's deferred function, when err # nil
FailAndClose(t) == Fails /\ CloseSoon(held[t]) /\ ReturnError(t) /\ UNCHANGED <<pool, closed, pos>>

-----------------------------------------------------------------------------
ReadAt(t, req) ==
  /\ pc[t] = "idle" /\ Goto(t, "get")
  /\ calls' = [calls EXCEPT ![t] = Abstract!Call(req, closed)]
  /\ result' = [result EXCEPT ![t] = Abstract!Failed]
  /\ UNCHANGED <<pool, closed, readers, faults, held, buffer>>

\* The keys getReaderFromPool may choose from: the reader at the requested
\* offset if there is one, else whatever the map's enumeration yields.
Candidates(offset) == IF offset \in DOMAIN pool THEN {offset} ELSE DOMAIN pool

\* Mutants: the reader taken stays in the pool; its entry is set to nil.
WithoutNothing(k) == pool
WithNil(k) == [j \in DOMAIN pool |-> IF j = k THEN None ELSE pool[j]]

\* The pool without, and with, an entry
Without(k) == [j \in DOMAIN pool \ {k} |-> pool[j]]
With(k, r) == [j \in DOMAIN pool \cup {k} |-> IF j = k THEN r ELSE pool[j]]

\* getReaderFromPool
Get(t) ==
  /\ pc[t] = "get"
  /\ \/ closed /\ ReturnError(t) /\ UNCHANGED pool
     \/ /\ ~closed /\ DOMAIN pool = {}
        /\ Goto(t, "open") /\ UNCHANGED <<pool, calls, held, buffer, result>>
     \/ \E k \in Candidates(Offset(t)) :
          /\ held' = [held EXCEPT ![t] = pool[k]]
          /\ pool' = Without(k)
          /\ Goto(t, "seek") /\ UNCHANGED <<calls, buffer, result>>
  /\ UNCHANGED <<closed, readers, faults>>

\* File.OpenRead
Open(t) ==
  /\ pc[t] = "open"
  /\ \/ \E r \in Readers :
          /\ rstate[r] = "none"
          /\ rstate' = [rstate EXCEPT ![r] = "open"] /\ pos' = [pos EXCEPT ![r] = 0]
          /\ held' = [held EXCEPT ![t] = r]
          /\ Goto(t, "seek") /\ UNCHANGED <<faults, calls, buffer, result>>
     \/ Fails /\ ReturnError(t) /\ UNCHANGED readers
  /\ UNCHANGED <<pool, closed>>

\* Mutant: the error of Seek is ignored.
ReadsAnyway == "read"
AfterFailedSeek == "returnError"

\* reader.Position, and reader.Seek if it is not the offset wanted.  The error
\* of Seek is assigned to a variable of the inner block: the deferred function
\* sees err = nil and returns the reader to the pool.
Seek(t) ==
  LET r == held[t] IN
  /\ pc[t] = "seek"
  /\ \/ /\ Goto(t, "read") /\ pos' = [pos EXCEPT ![r] = Offset(t)]
        /\ UNCHANGED <<pool, closed, rstate, faults, calls, held, buffer, result>>
     \/ /\ pos[r] # Offset(t) /\ Fails /\ Goto(t, AfterFailedSeek)
        /\ UNCHANGED <<pool, closed, readers, calls, held, buffer, result>>
     \/ FailAndClose(t)

\* Mutant: off by one at the end of the file.
AvailableButOne(p, n) == IF p + n < Length THEN n ELSE IF p < Length - 1 THEN Length - 1 - p ELSE 0

\* One Read of io.ReadFull: all that is missing, as far as the file goes.  At
\* the end of the file it returns no bytes and no error.
Available(p, n) == IF p + n <= Length THEN n ELSE IF p < Length THEN Length - p ELSE 0

ReadFull(t) ==
  LET r == held[t]
      n == Available(pos[r], Missing(t)) IN
  /\ pc[t] = "read"
  /\ \/ /\ buffer' = [buffer EXCEPT ![t] = @ \o [i \in 1..n |-> pos[r] + i - 1]]
        /\ pos' = [pos EXCEPT ![r] = @ + n]
        /\ Goto(t, IF n = Missing(t) THEN "return" ELSE "read")
        /\ UNCHANGED <<pool, closed, rstate, faults, calls, held, result>>
     \/ Missing(t) > 0 /\ FailAndClose(t)

\* Mutants of the conditions and steps of returnReaderToPool that follow.
FullTooLate == Cardinality(DOMAIN pool) > MaxReaders
DiscardsWhenFull == Cardinality(DOMAIN pool) >= MaxReaders
KeyAsRequested(t) == Offset(t)
ForgetPrevious(k) == UNCHANGED rstate

\* returnReaderToPool
Full == Cardinality(DOMAIN pool) >= MaxReaders
Discards == closed \/ Full
Key(t) == pos[held[t]]
ClosePrevious(k) == IF k \in DOMAIN pool THEN CloseSoon(pool[k]) ELSE UNCHANGED rstate

ReturnReader(t) ==
  \/ Discards /\ CloseSoon(held[t]) /\ UNCHANGED <<pool, faults>>
  \/ ~Discards /\ Fails /\ CloseSoon(held[t]) /\ UNCHANGED pool   \* Position failed
  \/ ~Discards /\ ClosePrevious(Key(t)) /\ pool' = With(Key(t), held[t]) /\ UNCHANGED faults

Return(t) ==
  /\ pc[t] = "return"
  /\ ReturnReader(t)
  /\ Goto(t, "idle") /\ calls' = [calls EXCEPT ![t] = Abstract!NoCall]
  /\ result' = [result EXCEPT ![t] = [ok |-> TRUE, data |-> buffer[t]]]
  /\ held' = [held EXCEPT ![t] = None] /\ buffer' = [buffer EXCEPT ![t] = <<>>]
  /\ UNCHANGED <<closed, pos>>

ReturnAfterError(t) ==
  /\ pc[t] = "returnError"
  /\ ReturnReader(t) /\ ReturnError(t)
  /\ UNCHANGED <<closed, pos>>

\* The goroutine started by go reader.Close()
CloseReader(r) ==
  /\ rstate[r] = "closing"
  /\ rstate' = [rstate EXCEPT ![r] = "none"] /\ pos' = [pos EXCEPT ![r] = 0]
  /\ UNCHANGED <<pool, closed, faults, pc, calls, held, buffer, result>>

\* RandomAccessReader.Close: closes the readers in the pool, not those in use
InPool == {pool[k] : k \in DOMAIN pool}
Close ==
  /\ rstate' = [r \in Readers |-> IF r \in InPool THEN "none" ELSE rstate[r]]
  /\ pos' = [r \in Readers |-> IF r \in InPool THEN 0 ELSE pos[r]]
  /\ pool' = <<>> /\ closed' = TRUE
  /\ UNCHANGED <<faults, pc, calls, held, buffer, result>>

-----------------------------------------------------------------------------
Step(t) == \/ Get(t) \/ Open(t) \/ Seek(t) \/ ReadFull(t)
           \/ Return(t) \/ ReturnAfterError(t)

Next ==
  \/ Close
  \/ \E t \in Threads : Step(t) \/ \E req \in Requests : ReadAt(t, req)
  \/ \E r \in Readers : CloseReader(r)

\* Go's scheduler runs every goroutine; no step waits for another goroutine but
\* for the pool's lock, which is held for single steps.
Fairness == /\ \A t \in Threads : WF_vars(Step(t))
            /\ \A r \in Readers : WF_vars(CloseReader(r))

Spec == Init /\ [][Next]_vars
FairSpec == Spec /\ Fairness

-----------------------------------------------------------------------------
(* Properties *)
InUse  == {held[t] : t \in Threads} \ {None}

\* The variables stay in their types.
TypeOK ==
  /\ DOMAIN pool \subseteq Nat /\ InPool \subseteq Readers
  /\ closed \in BOOLEAN
  /\ rstate \in [Readers -> {"none", "open", "closing"}] /\ pos \in [Readers -> Nat]
  /\ faults \in 0..MaxFaults
  /\ pc \in [Threads -> {"idle", "get", "open", "seek", "read",
                         "return", "returnError"}]
  /\ \A t \in Threads :
       /\ calls[t] \in {Abstract!NoCall} \cup
                       {Abstract!Call(req, late) : req \in Requests, late \in BOOLEAN}
       /\ calls[t].pending <=> pc[t] # "idle"
  /\ held \in [Threads -> Readers \cup {None}]
  /\ buffer \in [Threads -> Seq(Nat)]

\* The readers are not safe for concurrent use: a reader one goroutine works
\* with is open, is not in the pool and is not used by another goroutine
\* (ReadSeekCloser.go:5-12, RandomAccessReader.go:116-117).
ExclusiveUse ==
  \A t \in Threads : held[t] # None =>
    /\ rstate[held[t]] = "open"
    /\ held[t] \notin InPool
    /\ \A u \in Threads \ {t} : held[u] # held[t]

\* A reader in the pool is open and at the position it is filed under, so a
\* reader is filed once (RandomAccessReader.go:23).
PoolSound == \A k \in DOMAIN pool : rstate[pool[k]] = "open" /\ pos[pool[k]] = k

\* The pool never holds more than MaxReaders readers (RandomAccessReader.go:25),
\* nor any after Close.
PoolBounded == /\ Cardinality(DOMAIN pool) <= MaxReaders
               /\ closed => pool = <<>>

\* No reader is lost: one that is open is in the pool or in use.
NoLeak == \A r \in Readers : rstate[r] = "open" => r \in InPool \cup InUse

\* The pool is invisible: a goroutine gets the bytes it asked for (or an
\* error), and an error for a call that came after Close.
ImplementsReaderAt == Abstract!Spec

\* After Close every reader gets closed, those in use at the time too, and none
\* is open again afterwards, although goroutines go on calling ReadAt.
CloseReleasesAll == closed ~> [](\A r \in Readers : rstate[r] = "none")

\* io.ReaderAt (RandomAccessReader.go:11): every ReadAt returns.
ReadAtReturns == \A t \in Threads : calls[t].pending ~> ~calls[t].pending
=============================================================================
