----------------------- MODULE RandomAccessReaderProofs -----------------------
(***************************************************************************)
(* Theorems about the pool of readers, for any number of goroutines,       *)
(* readers and requests, any length of the file and any size of the pool.  *)
(***************************************************************************)
EXTENDS RandomAccessReader, FiniteSetTheorems, SequenceTheorems, TLAPS

USE RequestsAssumption, BoundsAssumption, NoneAssumption

-----------------------------------------------------------------------------
(* The inductive invariant *)

\* What a goroutine has, at the step it is at: a reader from the one it got it
\* to the one it gives it back; bytes once it has begun to read.
Working(t) ==
  /\ held[t] = None <=> pc[t] \in {"idle", "get", "open"}
  /\ pc[t] \notin {"read", "return"} => buffer[t] = <<>>
  /\ pc[t] = "read" => Len(buffer[t]) <= calls[t].request.size

Typed == /\ TypeOK /\ IsFiniteSet(DOMAIN pool)
         /\ calls = [t \in Threads |-> calls[t]]
         /\ \A t \in Threads : Working(t)

\* The readers: each is in one place, which is filed under its position.
Pooling == ExclusiveUse /\ PoolSound /\ NoLeak /\ PoolBounded

\* The bytes that a goroutine has read are those it asked for, its reader is
\* where the next ones are, and it has got no reader after Close.
BytesFrom(offset, s) == \A i \in 1..Len(s) : s[i] = offset + i - 1
ReadingSound(t) ==
  /\ pc[t] = "read" =>
       /\ BytesFrom(Offset(t), buffer[t])
       /\ pos[held[t]] = Offset(t) + Len(buffer[t])
  /\ pc[t] = "return" =>
       /\ BytesFrom(Offset(t), buffer[t])
       /\ Len(buffer[t]) = calls[t].request.size
  /\ pc[t] # "idle" /\ calls[t].late => closed /\ pc[t] = "get"

Inv == Typed /\ Pooling /\ \A t \in Threads : ReadingSound(t)

-----------------------------------------------------------------------------
(* Type correctness *)

\* The two halves of the type invariant: the pool with its readers, and the
\* goroutines.
PoolTyped ==
  /\ DOMAIN pool \subseteq Nat /\ InPool \subseteq Readers /\ IsFiniteSet(DOMAIN pool)
  /\ closed \in BOOLEAN
  /\ rstate \in [Readers -> {"none", "open", "closing"}] /\ pos \in [Readers -> Nat]
  /\ faults \in 0..MaxFaults

Pcs == {"idle", "get", "open", "seek", "read", "return", "returnError"}
Calls == {Abstract!NoCall} \cup {Abstract!Call(req, late) : req \in Requests, late \in BOOLEAN}
CallsTyped ==
  /\ pc \in [Threads -> Pcs] /\ calls \in [Threads -> Calls]
  /\ held \in [Threads -> Readers \cup {None}] /\ buffer \in [Threads -> Seq(Nat)]
  /\ \A t \in Threads : (calls[t].pending <=> pc[t] # "idle") /\ Working(t)

\* The type invariant is that of the pool and that of the goroutines.
LEMMA TypedParts == Typed <=> PoolTyped /\ CallsTyped
<1>1. Typed => PoolTyped
  BY DEF Typed, TypeOK, PoolTyped
<1>2. Typed => CallsTyped
  <2> SUFFICES ASSUME Typed
               PROVE  CallsTyped
    OBVIOUS
  <2>1. calls \in [Threads -> Calls]
    BY DEF Typed, TypeOK, Calls
  <2> QED BY <2>1 DEF Typed, TypeOK, CallsTyped, Pcs
<1>3. PoolTyped /\ CallsTyped => Typed
  BY DEF Typed, TypeOK, PoolTyped, CallsTyped, Calls, Pcs
<1> QED BY <1>1, <1>2, <1>3

\* The same of the next state
LEMMA TypedPartsNext == Typed' <=> PoolTyped' /\ CallsTyped'
BY TypedParts, PTL

\* A call that is pending has a request; without one a goroutine is idle.
LEMMA PendingCall ==
  ASSUME CallsTyped, NEW t \in Threads, pc[t] # "idle"
  PROVE  /\ calls[t].request \in Requests /\ Offset(t) \in Nat /\ calls[t].request.size \in Nat
         /\ calls[t].late \in BOOLEAN
         /\ \E late \in BOOLEAN : calls[t] = Abstract!Call(calls[t].request, late)
<1>1. calls[t] \in Calls /\ calls[t].pending
  BY DEF CallsTyped
<1>2. PICK req \in Requests, late \in BOOLEAN : calls[t] = Abstract!Call(req, late)
  BY <1>1 DEF Calls, Abstract!NoCall
<1>3. calls[t].request = req /\ calls[t].late = late
  BY <1>2 DEF Abstract!Call
<1> QED BY <1>2, <1>3 DEF Offset

\* Pools with one entry less and one more
LEMMA WithoutEntry ==
  ASSUME PoolTyped, NEW k \in DOMAIN pool
  PROVE  /\ DOMAIN Without(k) = DOMAIN pool \ {k}
         /\ \A j \in DOMAIN pool \ {k} : Without(k)[j] = pool[j]
         /\ IsFiniteSet(DOMAIN Without(k))
         /\ Cardinality(DOMAIN Without(k)) = Cardinality(DOMAIN pool) - 1
BY FS_RemoveElement DEF PoolTyped, Without

\* The pool that Init makes, and that Close leaves, has no entries.
LEMMA EmptyPool == DOMAIN <<>> = {}
OBVIOUS

\* The types of the initial state
LEMMA TypeInit == Init => Typed
<1> SUFFICES ASSUME Init
             PROVE  PoolTyped /\ CallsTyped
  BY TypedParts
<1>1. PoolTyped
  <2>1. DOMAIN pool = {} /\ InPool = {}
    BY EmptyPool DEF Init, InPool
  <2>2. IsFiniteSet(DOMAIN pool)
    BY <2>1, FS_EmptySet
  <2>3. /\ rstate \in [Readers -> {"none", "open", "closing"}] /\ pos \in [Readers -> Nat]
        /\ faults \in 0..MaxFaults
    BY DEF Init
  <2>4. closed \in BOOLEAN
    BY DEF Init, Abstract!Init
  <2> QED BY <2>1, <2>2, <2>3, <2>4 DEF PoolTyped
<1>2. CallsTyped
  <2>1. Abstract!NoCall \in Calls /\ ~Abstract!NoCall.pending /\ <<>> \in Seq(Nat)
    BY EmptySeq DEF Calls, Abstract!NoCall
  <2> QED BY <2>1 DEF Init, CallsTyped, Working, Pcs, Abstract!Init
<1> QED BY <1>1, <1>2

\* The goroutine is idle again.
LEMMA IdleType ==
  ASSUME CallsTyped, NEW t \in Threads, Goto(t, "idle"),
         calls' = [calls EXCEPT ![t] = Abstract!NoCall],
         held' = [held EXCEPT ![t] = None], buffer' = [buffer EXCEPT ![t] = <<>>]
  PROVE  CallsTyped'
<1>1. Abstract!NoCall \in Calls /\ ~Abstract!NoCall.pending /\ <<>> \in Seq(Nat)
  BY EmptySeq DEF Calls, Abstract!NoCall
<1> QED BY <1>1 DEF Goto, CallsTyped, Working, Pcs

\* The goroutine goes on with its request, with a reader or none.
LEMMA StepType ==
  ASSUME CallsTyped, NEW t \in Threads, NEW p \in Pcs \ {"idle"}, NEW r \in Readers \cup {None},
         pc[t] # "idle", Goto(t, p), UNCHANGED calls,
         held' = [held EXCEPT ![t] = r], r = None <=> p \in {"get", "open"},
         UNCHANGED buffer, buffer[t] = <<>>
  PROVE  CallsTyped'
<1>1. Len(<<>>) = 0 /\ calls[t].request.size \in Nat
  BY PendingCall
<1>2. Working(t)'
  BY <1>1 DEF Goto, CallsTyped, Working
<1> QED BY <1>2 DEF Goto, CallsTyped, Working, Pcs

\* What the goroutines do to the readers and the pool: an entry less, or one
\* more, of a reader that is known.
LEMMA PoolType ==
  ASSUME PoolTyped,
         \/ UNCHANGED pool
         \/ \E k \in DOMAIN pool : pool' = Without(k)
         \/ \E k \in Nat, r \in Readers : pool' = With(k, r)
         \/ pool' = <<>>
  PROVE  DOMAIN pool' \subseteq Nat /\ InPool' \subseteq Readers /\ IsFiniteSet(DOMAIN pool')
<1>1. CASE UNCHANGED pool
  BY <1>1 DEF PoolTyped, InPool
<1>2. ASSUME NEW k \in DOMAIN pool, pool' = Without(k)
      PROVE  DOMAIN pool' \subseteq Nat /\ InPool' \subseteq Readers /\ IsFiniteSet(DOMAIN pool')
  BY <1>2, WithoutEntry DEF PoolTyped, InPool
<1>3. ASSUME NEW k \in Nat, NEW r \in Readers, pool' = With(k, r)
      PROVE  DOMAIN pool' \subseteq Nat /\ InPool' \subseteq Readers /\ IsFiniteSet(DOMAIN pool')
  <2>1. /\ DOMAIN pool' = DOMAIN pool \cup {k} /\ pool'[k] = r
        /\ \A j \in DOMAIN pool \ {k} : pool'[j] = pool[j]
    BY <1>3 DEF With
  <2>2. IsFiniteSet(DOMAIN pool')
    <3>1. IsFiniteSet(DOMAIN pool)
      BY DEF PoolTyped
    <3>2. IsFiniteSet(DOMAIN pool \cup {k})
      BY <3>1, FS_AddElement
    <3> QED BY <2>1, <3>2
  <2>3. \A j \in DOMAIN pool' : pool'[j] \in Readers
    BY <2>1 DEF PoolTyped, InPool
  <2> QED BY <2>1, <2>2, <2>3 DEF PoolTyped, InPool
<1>4. CASE pool' = <<>>
  <2>1. DOMAIN pool' = {} /\ InPool' = {}
    BY <1>4, EmptyPool DEF InPool
  <2> QED BY <2>1, FS_EmptySet
<1> QED BY <1>1, <1>2, <1>3, <1>4

\* A failure stays within the bound of the failures.
LEMMA FaultsType ==
  ASSUME PoolTyped, Fails \/ UNCHANGED faults
  PROVE  faults' \in 0..MaxFaults
BY DEF PoolTyped, Fails

\* What a return does to the pool: nothing, or one entry more
LEMMA ReturnType ==
  ASSUME Typed, NEW t \in Threads, held[t] \in Readers, ReturnReader(t), UNCHANGED <<closed, pos>>
  PROVE  PoolTyped'
<1> USE TypedParts
<1>1. Key(t) \in Nat
  BY DEF Key, PoolTyped
<1>2. rstate' \in [Readers -> {"none", "open", "closing"}]
  BY DEF ReturnReader, CloseSoon, ClosePrevious, PoolTyped
<1>3. faults' \in 0..MaxFaults
  BY FaultsType DEF ReturnReader
<1>4. DOMAIN pool' \subseteq Nat /\ InPool' \subseteq Readers /\ IsFiniteSet(DOMAIN pool')
  BY <1>1, PoolType DEF ReturnReader
<1> QED BY <1>2, <1>3, <1>4 DEF PoolTyped

\* What a Read of the bytes from p on adds to those that are there
LEMMA ReadBytes ==
  ASSUME NEW s \in Seq(Nat), NEW p \in Nat, NEW n \in Nat
  PROVE  LET b == [i \in 1..n |-> p + i - 1] IN
         /\ s \o b \in Seq(Nat) /\ Len(s \o b) = Len(s) + n
         /\ \A i \in 1..Len(s) + n : (s \o b)[i] = IF i <= Len(s) THEN s[i] ELSE p + i - Len(s) - 1
<1> DEFINE b == [i \in 1..n |-> p + i - 1]
<1>1. b \in [1..n -> Nat]
  OBVIOUS
<1>2. b \in Seq(Nat) /\ Len(b) = n
  BY <1>1, SeqDef, LenProperties
<1>3. \A i \in 1..n : b[i] = p + i - 1
  OBVIOUS
<1> HIDE DEF b
<1>4. Len(s) \in Nat
  BY LenProperties
<1>5. /\ s \o b \in Seq(Nat) /\ Len(s \o b) = Len(s) + n
      /\ \A i \in 1..Len(s) + n : (s \o b)[i] = IF i <= Len(s) THEN s[i] ELSE b[i - Len(s)]
  BY <1>2, ConcatProperties
<1>6. \A i \in 1..Len(s) + n : i > Len(s) => b[i - Len(s)] = p + i - Len(s) - 1
  BY <1>3, <1>4
<1>7. \A i \in 1..Len(s) + n : (s \o b)[i] = IF i <= Len(s) THEN s[i] ELSE p + i - Len(s) - 1
  BY <1>4, <1>5, <1>6
<1> QED BY <1>5, <1>7 DEF b

\* A successful Read of io.ReadFull: it reads n bytes, all that are missing or
\* what is left of the file.
ReadsBytes(t) ==
  LET n == Available(pos[held[t]], Missing(t)) IN
  /\ buffer' = [buffer EXCEPT ![t] = @ \o [i \in 1..n |-> pos[held[t]] + i - 1]]
  /\ pos' = [pos EXCEPT ![held[t]] = @ + n]
  /\ Goto(t, IF n = Missing(t) THEN "return" ELSE "read")
  /\ UNCHANGED <<pool, closed, rstate, faults, calls, held, result>>

\* It reads no more than is missing, and keeps what was read before.
LEMMA ReadsBytesType ==
  ASSUME Typed, NEW t \in Threads, pc[t] = "read", ReadsBytes(t)
  PROVE  LET n == Available(pos[held[t]], Missing(t)) IN
         /\ n \in Nat /\ n <= Missing(t) /\ held[t] \in Readers /\ Missing(t) \in Nat
         /\ buffer[t] \in Seq(Nat) /\ Len(buffer[t]) \in Nat /\ Offset(t) \in Nat
         /\ buffer' = [buffer EXCEPT ![t] = buffer[t] \o [i \in 1..n |-> pos[held[t]] + i - 1]]
         /\ buffer'[t] \in Seq(Nat) /\ Len(buffer'[t]) = Len(buffer[t]) + n
         /\ \A i \in 1..Len(buffer[t]) + n :
              buffer'[t][i] = IF i <= Len(buffer[t]) THEN buffer[t][i]
                              ELSE pos[held[t]] + i - Len(buffer[t]) - 1
<1> DEFINE n == Available(pos[held[t]], Missing(t))
<1>1. held[t] \in Readers
  BY TypedParts DEF CallsTyped, Working
<1>2. pos[held[t]] \in Nat
  BY <1>1, TypedParts DEF PoolTyped
<1>3. buffer[t] \in Seq(Nat) /\ buffer \in [Threads -> Seq(Nat)]
  BY TypedParts DEF CallsTyped
<1>4. Len(buffer[t]) \in Nat
  BY <1>3, LenProperties
<1>5. Missing(t) \in Nat /\ Offset(t) \in Nat
  BY <1>4, TypedParts, PendingCall DEF CallsTyped, Working, Missing
<1>6. n \in Nat /\ n <= Missing(t)
  BY <1>2, <1>5 DEF Available
<1>7. buffer' = [buffer EXCEPT ![t] = buffer[t] \o [i \in 1..n |-> pos[held[t]] + i - 1]]
  BY DEF ReadsBytes
<1> HIDE DEF n
<1>8. buffer'[t] = buffer[t] \o [i \in 1..n |-> pos[held[t]] + i - 1]
  BY <1>3, <1>7
<1>9. /\ buffer'[t] \in Seq(Nat) /\ Len(buffer'[t]) = Len(buffer[t]) + n
      /\ \A i \in 1..Len(buffer[t]) + n :
           buffer'[t][i] = IF i <= Len(buffer[t]) THEN buffer[t][i]
                           ELSE pos[held[t]] + i - Len(buffer[t]) - 1
  BY <1>2, <1>3, <1>6, <1>8, ReadBytes
<1> QED BY <1>1, <1>3, <1>4, <1>5, <1>6, <1>7, <1>9 DEF n

\* Every step keeps the types.
LEMMA TypeStep == Typed /\ [Next]_vars => Typed'
<1> SUFFICES ASSUME Typed, [Next]_vars
             PROVE  PoolTyped' /\ CallsTyped'
  BY TypedPartsNext
<1>1. PoolTyped /\ CallsTyped
  BY TypedParts
<1> HIDE DEF Typed
\* A step that leaves the pool and the readers alone
<1>2. ASSUME UNCHANGED <<pool, closed, readers>>, Fails \/ UNCHANGED faults
      PROVE  PoolTyped'
  BY <1>1, <1>2, FaultsType DEF PoolTyped, InPool, readers
<1>3. ASSUME NEW t \in Threads, NEW req \in Requests, ReadAt(t, req)
      PROVE  PoolTyped' /\ CallsTyped'
  <2>1. PoolTyped'
    BY <1>2, <1>3 DEF ReadAt
  <2>2. /\ pc[t] = "idle" /\ Goto(t, "get") /\ UNCHANGED <<held, buffer>>
        /\ calls' = [calls EXCEPT ![t] = Abstract!Call(req, closed)]
    BY <1>3 DEF ReadAt
  <2>3. closed \in BOOLEAN /\ Abstract!Call(req, closed).pending
    BY <1>1 DEF PoolTyped, Abstract!Call
  <2>4. Abstract!Call(req, closed) \in Calls /\ Abstract!Call(req, closed).pending
    BY <2>3 DEF Calls
  <2>5. CallsTyped'
    BY <1>1, <2>2, <2>4 DEF Goto, CallsTyped, Working, Pcs
  <2> QED BY <2>1, <2>5
\* A step that fails
<1>4. ASSUME NEW t \in Threads, ReturnError(t)
      PROVE  CallsTyped'
  BY <1>1, <1>4, IdleType DEF ReturnError
<1>5. ASSUME NEW t \in Threads, held[t] \in Readers, FailAndClose(t)
      PROVE  PoolTyped' /\ CallsTyped'
  BY <1>1, <1>4, <1>5, FaultsType DEF FailAndClose, CloseSoon, PoolTyped, InPool
<1>6. ASSUME NEW t \in Threads, Get(t)
      PROVE  PoolTyped' /\ CallsTyped'
  <2>1. pc[t] = "get" /\ UNCHANGED <<closed, readers, faults>> /\ held[t] = None /\ buffer[t] = <<>>
    BY <1>1, <1>6 DEF Get, CallsTyped, Working
  <2>2. CASE ReturnError(t) /\ UNCHANGED pool
    BY <1>2, <1>4, <2>1, <2>2
  <2>3. CASE Goto(t, "open") /\ UNCHANGED <<pool, calls, held, buffer>>
    <3>1. held' = [held EXCEPT ![t] = None]
      BY <1>1, <2>1, <2>3 DEF CallsTyped
    <3> QED BY <1>1, <1>2, <2>1, <2>3, <3>1, StepType DEF Pcs
  <2>4. ASSUME NEW k \in Candidates(Offset(t)), held' = [held EXCEPT ![t] = pool[k]],
               pool' = Without(k), Goto(t, "seek"), UNCHANGED <<calls, buffer>>
        PROVE  PoolTyped' /\ CallsTyped'
    <3>1. k \in DOMAIN pool /\ pool[k] \in Readers
      BY <1>1 DEF Candidates, PoolTyped, InPool
    <3>2. PoolTyped'
      BY <1>1, <2>1, <2>4, <3>1, PoolType DEF PoolTyped, readers
    <3> QED BY <1>1, <2>1, <2>4, <3>1, <3>2, StepType DEF Pcs
  <2> QED BY <1>6, <2>2, <2>3, <2>4 DEF Get
<1>7. ASSUME NEW t \in Threads, Open(t)
      PROVE  PoolTyped' /\ CallsTyped'
  <2>1. CASE Fails /\ ReturnError(t) /\ UNCHANGED readers
    BY <1>2, <1>4, <1>7, <2>1 DEF Open
  <2>2. ASSUME NEW r \in Readers, rstate' = [rstate EXCEPT ![r] = "open"], pos' = [pos EXCEPT ![r] = 0],
               held' = [held EXCEPT ![t] = r], Goto(t, "seek"), UNCHANGED <<faults, calls, buffer>>
        PROVE  PoolTyped' /\ CallsTyped'
    <3>1. pc[t] = "open" /\ UNCHANGED <<pool, closed>> /\ buffer[t] = <<>>
      BY <1>1, <1>7 DEF Open, CallsTyped, Working
    <3>2. PoolTyped'
      BY <1>1, <2>2, <3>1 DEF PoolTyped, InPool
    <3> QED BY <1>1, <2>2, <3>1, <3>2, StepType DEF Pcs
  <2> QED BY <1>7, <2>1, <2>2 DEF Open
<1>8. ASSUME NEW t \in Threads, Seek(t)
      PROVE  PoolTyped' /\ CallsTyped'
  <2>1. pc[t] = "seek" /\ held[t] \in Readers /\ buffer[t] = <<>> /\ Offset(t) \in Nat
    BY <1>1, <1>8, PendingCall DEF Seek, CallsTyped, Working
  <2>2. CASE /\ Goto(t, "read") /\ pos' = [pos EXCEPT ![held[t]] = Offset(t)]
             /\ UNCHANGED <<pool, closed, rstate, faults, calls, held, buffer>>
    <3>1. PoolTyped'
      BY <1>1, <2>1, <2>2 DEF PoolTyped, InPool
    <3>2. held' = [held EXCEPT ![t] = held[t]]
      BY <1>1, <2>2 DEF CallsTyped
    <3> QED BY <1>1, <2>1, <2>2, <3>1, <3>2, StepType DEF Pcs
  <2>3. CASE Fails /\ Goto(t, "returnError") /\ UNCHANGED <<pool, closed, readers, calls, held, buffer>>
    <3>1. held' = [held EXCEPT ![t] = held[t]]
      BY <1>1, <2>3 DEF CallsTyped
    <3> QED BY <1>1, <1>2, <2>1, <2>3, <3>1, StepType DEF Pcs
  <2> QED BY <1>5, <1>8, <2>1, <2>2, <2>3 DEF Seek, AfterFailedSeek
<1>9. ASSUME NEW t \in Threads, ReadFull(t)
      PROVE  PoolTyped' /\ CallsTyped'
  <2>1. pc[t] = "read" /\ held[t] \in Readers
    BY <1>1, <1>9 DEF ReadFull, CallsTyped, Working
  <2>2. CASE ReadsBytes(t)
    <3> DEFINE n == Available(pos[held[t]], Missing(t))
    <3>1. /\ n \in Nat /\ n <= Missing(t) /\ Missing(t) \in Nat /\ Len(buffer[t]) \in Nat
          /\ buffer'[t] \in Seq(Nat) /\ Len(buffer'[t]) = Len(buffer[t]) + n
      BY <2>1, <2>2, ReadsBytesType
    <3> HIDE DEF n
    <3>2. /\ \A u \in Threads \ {t} : buffer'[u] = buffer[u]
          /\ buffer' \in [Threads -> Seq(Nat)]
      BY <1>1, <2>2, <3>1 DEF ReadsBytes, CallsTyped
    <3>3. pos' = [pos EXCEPT ![held[t]] = @ + n] /\ UNCHANGED <<pool, closed, rstate, faults, calls, held>>
      BY <2>2 DEF ReadsBytes, n
    <3>4. PoolTyped'
      BY <1>1, <2>1, <3>1, <3>3 DEF PoolTyped, InPool
    <3>5. /\ \A u \in Threads \ {t} : pc'[u] = pc[u]
          /\ pc' \in [Threads -> Pcs] /\ pc'[t] \in {"read", "return"}
      BY <1>1, <2>1, <2>2 DEF ReadsBytes, Goto, CallsTyped, Pcs
    <3>6. Len(buffer'[t]) <= calls[t].request.size
      BY <1>1, <2>1, <3>1, PendingCall DEF Missing
    <3>7. CallsTyped'
      BY <1>1, <2>1, <3>2, <3>3, <3>5, <3>6 DEF CallsTyped, Working
    <3> QED BY <3>4, <3>7
  <2> QED BY <1>5, <1>9, <2>1, <2>2 DEF ReadFull, ReadsBytes
<1>10. ASSUME NEW t \in Threads, Return(t) \/ ReturnAfterError(t)
       PROVE  PoolTyped' /\ CallsTyped'
  <2>1. held[t] \in Readers
    BY <1>1, <1>10 DEF Return, ReturnAfterError, CallsTyped, Working
  <2> QED BY <1>1, <1>10, <2>1, ReturnType, IdleType DEF Return, ReturnAfterError, ReturnError
<1>11. ASSUME NEW r \in Readers, CloseReader(r)
       PROVE  PoolTyped' /\ CallsTyped'
  BY <1>1, <1>11 DEF CloseReader, PoolTyped, CallsTyped, InPool, Working
<1>12. CASE Close
  <2>1. CallsTyped'
    BY <1>1, <1>12 DEF Close, CallsTyped, Working
  <2>2. PoolTyped'
    BY <1>1, <1>12, PoolType DEF Close, PoolTyped
  <2> QED BY <2>1, <2>2
<1>13. CASE UNCHANGED vars
  BY <1>1, <1>13 DEF vars, readers, PoolTyped, CallsTyped, InPool, Working
<1> QED BY <1>3, <1>6, <1>7, <1>8, <1>9, <1>10, <1>11, <1>12, <1>13 DEF Next, Step

\* The pool and the goroutines stay in their types, for any number of them.
THEOREM TypeCorrect == Spec => []TypeOK
<1>1. Typed => TypeOK
  BY DEF Typed
<1> QED BY <1>1, TypeInit, TypeStep, PTL DEF Spec

-----------------------------------------------------------------------------
(* The readers are used by one goroutine at a time, and none is lost. *)

\* A reader is in one place: no goroutine has one that is in the pool or with
\* another goroutine, and the pool has each under one key.
LEMMA OnePlace ==
  ASSUME Typed, Pooling
  PROVE  /\ \A k \in DOMAIN pool : /\ pool[k] \in Readers /\ rstate[pool[k]] = "open"
                                   /\ \A t \in Threads : held[t] # pool[k]
         /\ \A k, j \in DOMAIN pool : pool[k] = pool[j] => k = j
         /\ \A t \in Threads : held[t] # None =>
              held[t] \in Readers /\ rstate[held[t]] = "open"
BY DEF Typed, TypeOK, Pooling, PoolSound, ExclusiveUse, InPool

\* A goroutine that asks for a reader, or has none: nothing changes hands.
LEMMA SamePooling ==
  ASSUME Pooling, UNCHANGED <<pool, rstate, pos, held>>, closed' = closed
  PROVE  Pooling'
BY DEF Pooling, ExclusiveUse, PoolSound, NoLeak, PoolBounded, InPool, InUse

\* The reader that getReaderFromPool takes moves from the pool to the goroutine.
LEMMA GetPooling ==
  ASSUME Typed, Pooling, NEW t \in Threads, Get(t)
  PROVE  Pooling'
<1>1. /\ pc[t] = "get" /\ UNCHANGED <<closed, rstate, pos>> /\ held[t] = None
      /\ held \in [Threads -> Readers \cup {None}]
  BY DEF Get, readers, Typed, TypeOK, Working
<1>2. CASE UNCHANGED pool /\ (ReturnError(t) \/ UNCHANGED held)
  <2>1. held' = held
    BY <1>1, <1>2 DEF ReturnError
  <2> QED BY <1>1, <1>2, <2>1, SamePooling
<1>3. ASSUME NEW k \in Candidates(Offset(t)), held' = [held EXCEPT ![t] = pool[k]], pool' = Without(k)
      PROVE  Pooling'
  <2>1. /\ k \in DOMAIN pool /\ DOMAIN pool' = DOMAIN pool \ {k}
        /\ \A j \in DOMAIN pool \ {k} : pool'[j] = pool[j]
        /\ Cardinality(DOMAIN pool') = Cardinality(DOMAIN pool) - 1
        /\ Cardinality(DOMAIN pool) \in Nat
    BY <1>3, WithoutEntry, TypedParts, FS_CardinalityType DEF Candidates, PoolTyped
  <2>2. held'[t] = pool[k] /\ \A u \in Threads \ {t} : held'[u] = held[u]
    BY <1>1, <1>3
  <2>3. InPool' = InPool \ {pool[k]}
    BY <2>1, OnePlace DEF InPool
  <2>4. ExclusiveUse'
    BY <1>1, <2>1, <2>2, <2>3, OnePlace DEF Pooling, ExclusiveUse, InPool
  <2>5. PoolSound'
    BY <1>1, <2>1 DEF Pooling, PoolSound
  <2>6. NoLeak'
    BY <1>1, <2>1, <2>2, <2>3, OnePlace DEF Pooling, NoLeak, InUse, InPool
  <2>7. PoolBounded'
    <3>1. ~closed
      BY <2>1, EmptyPool DEF Pooling, PoolBounded
    <3> QED BY <1>1, <2>1, <3>1 DEF Pooling, PoolBounded
  <2> QED BY <2>4, <2>5, <2>6, <2>7 DEF Pooling
<1> QED BY <1>2, <1>3 DEF Get

\* The reader that OpenRead makes is nobody else's.
LEMMA OpenPooling ==
  ASSUME Typed, Pooling, NEW t \in Threads, Open(t)
  PROVE  Pooling'
<1>1. /\ pc[t] = "open" /\ UNCHANGED <<closed, pool>> /\ held[t] = None
      /\ held \in [Threads -> Readers \cup {None}]
      /\ rstate \in [Readers -> {"none", "open", "closing"}] /\ pos \in [Readers -> Nat]
  BY DEF Open, Typed, TypeOK, Working
<1>2. CASE ReturnError(t) /\ UNCHANGED readers
  <2>1. held' = held
    BY <1>1, <1>2 DEF ReturnError
  <2> QED BY <1>1, <1>2, <2>1, SamePooling DEF readers
<1>3. ASSUME NEW r \in Readers, rstate[r] = "none", rstate' = [rstate EXCEPT ![r] = "open"],
             pos' = [pos EXCEPT ![r] = 0], held' = [held EXCEPT ![t] = r]
      PROVE  Pooling'
  <2>1. /\ \A q \in Readers \ {r} : rstate'[q] = rstate[q] /\ pos'[q] = pos[q]
        /\ rstate'[r] = "open" /\ held'[t] = r /\ \A u \in Threads \ {t} : held'[u] = held[u]
    BY <1>1, <1>3
  <2>2. r \notin InPool /\ InPool' = InPool /\ InPool \subseteq Readers /\ \A u \in Threads : held[u] # r
    BY <1>1, <1>3, OnePlace DEF InPool
  <2>3. ExclusiveUse'
    BY <2>1, <2>2, OnePlace DEF Pooling, ExclusiveUse
  <2>4. PoolSound'
    BY <1>1, <2>1, <2>2, OnePlace DEF Pooling, PoolSound, InPool
  <2>5. NoLeak'
    BY <1>1, <2>1, <2>2 DEF Pooling, NoLeak, InUse
  <2>6. PoolBounded'
    BY <1>1 DEF Pooling, PoolBounded
  <2> QED BY <2>3, <2>4, <2>5, <2>6 DEF Pooling
<1> QED BY <1>2, <1>3 DEF Open

\* The position of a reader that is in use moves.
LEMMA MovePooling ==
  ASSUME Typed, Pooling, NEW t \in Threads, held[t] \in Readers,
         UNCHANGED <<pool, closed, rstate, held>>,
         \A r \in Readers \ {held[t]} : pos'[r] = pos[r]
  PROVE  Pooling'
<1>1. \A k \in DOMAIN pool : pool[k] \in Readers \ {held[t]}
  BY OnePlace DEF InPool
<1> QED BY <1>1 DEF Pooling, ExclusiveUse, PoolSound, NoLeak, PoolBounded, InPool, InUse

\* The goroutine gives its reader up: it will be closed.
LEMMA GiveUpPooling ==
  ASSUME Typed, Pooling, NEW t \in Threads, held[t] \in Readers, CloseSoon(held[t]),
         held' = [held EXCEPT ![t] = None], UNCHANGED <<pool, closed, pos>>
  PROVE  Pooling'
<1>1. /\ held \in [Threads -> Readers \cup {None}]
      /\ rstate \in [Readers -> {"none", "open", "closing"}]
  BY DEF Typed, TypeOK
<1>2. /\ \A q \in Readers \ {held[t]} : rstate'[q] = rstate[q]
      /\ rstate'[held[t]] = "closing" /\ held'[t] = None /\ \A u \in Threads \ {t} : held'[u] = held[u]
  BY <1>1 DEF CloseSoon
<1>3. held[t] \notin InPool /\ InPool' = InPool /\ InPool \subseteq Readers
  BY OnePlace DEF InPool
<1>4. \A u \in Threads \ {t} : held[u] # None => held[u] \in Readers /\ held[u] # held[t]
  BY OnePlace DEF Pooling, ExclusiveUse
<1>5. ExclusiveUse'
  BY <1>2, <1>3, <1>4 DEF Pooling, ExclusiveUse
<1>6. PoolSound'
  BY <1>2, <1>3, OnePlace DEF Pooling, PoolSound, InPool
<1>7. NoLeak'
  BY <1>2, <1>3 DEF Pooling, NoLeak, InUse
<1> QED BY <1>5, <1>6, <1>7 DEF Pooling, PoolBounded

\* The reader comes back to the pool in the place of the one filed there before,
\* or is given up.
LEMMA ReturnPooling ==
  ASSUME Typed, Pooling, NEW t \in Threads, held[t] \in Readers, ReturnReader(t),
         held' = [held EXCEPT ![t] = None], UNCHANGED <<closed, pos>>
  PROVE  Pooling'
<1>1. CASE CloseSoon(held[t]) /\ UNCHANGED pool
  BY <1>1, GiveUpPooling
<1>2. CASE ~Discards /\ ClosePrevious(Key(t)) /\ pool' = With(Key(t), held[t])
  <2> DEFINE r == held[t]
             k == Key(t)
  <2>1. /\ held \in [Threads -> Readers \cup {None}] /\ pos \in [Readers -> Nat] /\ DOMAIN pool \subseteq Nat
        /\ rstate \in [Readers -> {"none", "open", "closing"}] /\ k \in Nat /\ rstate[r] = "open"
    BY OnePlace DEF Typed, TypeOK, Key
  <2>2. /\ DOMAIN pool' = DOMAIN pool \cup {k} /\ pool'[k] = r
        /\ \A j \in DOMAIN pool \ {k} : pool'[j] = pool[j]
        /\ Cardinality(DOMAIN pool') <= Cardinality(DOMAIN pool) + 1
        /\ Cardinality(DOMAIN pool) \in Nat /\ Cardinality(DOMAIN pool') \in Nat
    <3>1. pool' = With(k, r) /\ PoolTyped /\ k \in Nat /\ r \in Readers
      BY <1>2, <2>1, TypedParts
    <3> HIDE DEF k, r
    <3>2. /\ DOMAIN pool' = DOMAIN pool \cup {k} /\ pool'[k] = r
          /\ \A j \in DOMAIN pool \ {k} : pool'[j] = pool[j]
      BY <3>1 DEF With
    <3>3. IsFiniteSet(DOMAIN pool) /\ Cardinality(DOMAIN pool) \in Nat
      BY <3>1, FS_CardinalityType DEF PoolTyped
    <3>4. Cardinality(DOMAIN pool') = IF k \in DOMAIN pool THEN Cardinality(DOMAIN pool)
                                      ELSE Cardinality(DOMAIN pool) + 1
      <4>1. Cardinality(DOMAIN pool \cup {k}) = IF k \in DOMAIN pool THEN Cardinality(DOMAIN pool)
                                                ELSE Cardinality(DOMAIN pool) + 1
        BY <3>3, FS_AddElement
      <4> QED BY <3>2, <4>1
    <3> QED BY <3>2, <3>3, <3>4
  <2>3. held'[t] = None /\ \A u \in Threads \ {t} : held'[u] = held[u]
    BY <2>1
  \* The reader that was filed under k before
  <2>4. k \in DOMAIN pool => pool[k] \in Readers /\ pool[k] # r /\ rstate' = [rstate EXCEPT ![pool[k]] = "closing"]
    BY <1>2, OnePlace DEF ClosePrevious, CloseSoon
  <2>5. k \notin DOMAIN pool => rstate' = rstate
    BY <1>2 DEF ClosePrevious
  <2>6. \A q \in Readers : rstate'[q] = rstate[q] \/ (k \in DOMAIN pool /\ q = pool[k] /\ rstate'[q] = "closing")
    BY <2>1, <2>4, <2>5
  <2>7. rstate'[r] = "open"
    BY <2>1, <2>4, <2>6
  <2> HIDE DEF r, k
  <2>8. \A u \in Threads \ {t} : held[u] # None =>
          held[u] \in Readers /\ rstate'[held[u]] = "open" /\ held[u] # r /\ held[u] \notin InPool
    BY <2>4, <2>6, OnePlace DEF r, Pooling, ExclusiveUse, InPool
  <2>9. \A j \in DOMAIN pool \ {k} : rstate'[pool[j]] = "open" /\ pool[j] \in Readers
    BY <2>6, OnePlace
  <2>10. InPool' \subseteq InPool \cup {r} /\ r \in InPool' /\ \A q \in InPool : q \in InPool' \/ (k \in DOMAIN pool /\ q = pool[k])
    BY <2>2 DEF InPool
  <2>11. ExclusiveUse'
    BY <2>3, <2>8, <2>10 DEF Pooling, ExclusiveUse
  <2>12. PoolSound'
    BY <2>2, <2>7, <2>9 DEF Pooling, PoolSound, Key, r, k
  <2>13. NoLeak'
    <3> SUFFICES ASSUME NEW q \in Readers, rstate'[q] = "open"
                 PROVE  q \in InPool' \cup InUse'
      BY DEF NoLeak
    <3>1. rstate[q] = "open" /\ ~(k \in DOMAIN pool /\ q = pool[k])
      BY <2>4, <2>6, <2>1
    <3>2. q \in InPool \/ \E u \in Threads : q = held[u] /\ held[u] # None
      BY <3>1 DEF Pooling, NoLeak, InUse
    <3>3. CASE q \in InPool
      BY <2>10, <3>1, <3>3
    <3>4. ASSUME NEW u \in Threads, q = held[u], held[u] # None
          PROVE  q \in InPool' \cup InUse'
      BY <2>3, <2>10, <3>4 DEF InUse, r
    <3> QED BY <3>2, <3>3, <3>4
  <2>14. PoolBounded'
    BY <1>2, <2>2 DEF Discards, Full, Pooling, PoolBounded
  <2> QED BY <2>11, <2>12, <2>13, <2>14 DEF Pooling
<1> QED BY <1>1, <1>2 DEF ReturnReader

\* In the beginning there are no readers.
LEMMA PoolingInit == Init => Pooling
<1> SUFFICES ASSUME Init
             PROVE  Pooling
  OBVIOUS
<1>1. DOMAIN pool = {} /\ InPool = {} /\ pool = <<>>
  BY EmptyPool DEF Init, InPool
<1>2. Cardinality(DOMAIN pool) = 0
  BY <1>1, FS_EmptySet
<1>3. PoolBounded
  BY <1>1, <1>2 DEF PoolBounded
<1>4. ExclusiveUse /\ PoolSound /\ NoLeak
  BY <1>1 DEF Init, ExclusiveUse, PoolSound, NoLeak
<1> QED BY <1>3, <1>4 DEF Pooling

\* Every step leaves each reader in one place.
LEMMA PoolingStep == Typed /\ Pooling /\ [Next]_vars => Pooling'
<1> SUFFICES ASSUME Typed, Pooling, [Next]_vars
             PROVE  Pooling'
  OBVIOUS
<1>1. ASSUME NEW t \in Threads, NEW req \in Requests, ReadAt(t, req)
      PROVE  Pooling'
  BY <1>1, SamePooling DEF ReadAt, readers
<1>2. ASSUME NEW t \in Threads, FailAndClose(t), held[t] \in Readers
      PROVE  Pooling'
  BY <1>2, GiveUpPooling DEF FailAndClose, ReturnError
<1>3. ASSUME NEW t \in Threads, Seek(t)
      PROVE  Pooling'
  <2>1. held[t] \in Readers /\ pos \in [Readers -> Nat]
    BY <1>3, TypedParts DEF Seek, CallsTyped, PoolTyped, Working
  <2>2. CASE pos' = [pos EXCEPT ![held[t]] = Offset(t)] /\ UNCHANGED <<pool, closed, rstate, held>>
    BY <2>1, <2>2, MovePooling
  <2>3. CASE UNCHANGED <<pool, closed, readers, held>>
    BY <2>3, SamePooling DEF readers
  <2> QED BY <1>2, <1>3, <2>1, <2>2, <2>3 DEF Seek
<1>4. ASSUME NEW t \in Threads, ReadFull(t)
      PROVE  Pooling'
  <2>1. held[t] \in Readers /\ pos \in [Readers -> Nat]
    BY <1>4, TypedParts DEF ReadFull, CallsTyped, PoolTyped, Working
  <2>2. CASE ReadsBytes(t)
    BY <2>1, <2>2, MovePooling DEF ReadsBytes
  <2> QED BY <1>2, <1>4, <2>1, <2>2 DEF ReadFull, ReadsBytes
<1>5. ASSUME NEW t \in Threads, Return(t) \/ ReturnAfterError(t)
      PROVE  Pooling'
  <2>1. held[t] \in Readers
    BY <1>5, TypedParts DEF Return, ReturnAfterError, CallsTyped, Working
  <2> QED BY <1>5, <2>1, ReturnPooling DEF Return, ReturnAfterError, ReturnError
<1>6. ASSUME NEW r \in Readers, CloseReader(r)
      PROVE  Pooling'
  <2>1. /\ \A q \in Readers \ {r} : rstate'[q] = rstate[q] /\ pos'[q] = pos[q]
        /\ rstate[r] = "closing" /\ rstate'[r] = "none" /\ UNCHANGED <<pool, closed, held>>
    BY <1>6, TypedParts DEF CloseReader, PoolTyped
  <2>2. /\ \A k \in DOMAIN pool : pool[k] \in Readers \ {r}
        /\ \A t \in Threads : held[t] # None => held[t] \in Readers \ {r}
    BY <2>1, OnePlace
  <2> QED BY <2>1, <2>2, OnePlace DEF Pooling, ExclusiveUse, PoolSound, NoLeak, PoolBounded, InPool, InUse
<1>7. CASE Close
  <2>1. /\ pool' = <<>> /\ DOMAIN pool' = {} /\ InPool' = {} /\ held' = held
        /\ \A r \in Readers : rstate'[r] = IF r \in InPool THEN "none" ELSE rstate[r]
    BY <1>7, EmptyPool DEF Close, InPool
  <2>2. ExclusiveUse' /\ PoolSound' /\ NoLeak'
    BY <2>1, OnePlace DEF Pooling, ExclusiveUse, PoolSound, NoLeak, InUse
  <2>3. PoolBounded'
    BY <2>1, FS_EmptySet DEF PoolBounded
  <2> QED BY <2>2, <2>3 DEF Pooling
<1>8. CASE UNCHANGED vars
  BY <1>8, SamePooling DEF vars, readers
<1> QED BY <1>1, <1>3, <1>4, <1>5, <1>6, <1>7, <1>8, GetPooling, OpenPooling DEF Next, Step

\* The readers are in their places in every state.
LEMMA PoolingHolds == Spec => []Pooling
BY TypeInit, TypeStep, PoolingInit, PoolingStep, PTL DEF Spec

\* The readers are not safe for concurrent use: one that a goroutine works with
\* is open, is not in the pool for others to take, and is with no other goroutine
\* (RandomAccessReader.go:38-64, :92-147).
THEOREM ReaderUsedByOne == Spec => []ExclusiveUse
<1>1. Pooling => ExclusiveUse
  BY DEF Pooling
<1> QED BY <1>1, PoolingHolds, PTL

\* A reader in the pool is open and at the position it is filed under, although
\* readers return at positions where others are filed (RandomAccessReader.go:122-147).
THEOREM PoolIsFiled == Spec => []PoolSound
<1>1. Pooling => PoolSound
  BY DEF Pooling
<1> QED BY <1>1, PoolingHolds, PTL

\* The pool never holds more than MaxReaders readers, nor any after Close,
\* although those in use come back later (RandomAccessReader.go:25, :67-75, :125-129).
THEOREM PoolIsBounded == Spec => []PoolBounded
<1>1. Pooling => PoolBounded
  BY DEF Pooling
<1> QED BY <1>1, PoolingHolds, PTL

\* No reader is lost: whatever fails, one that is open is in the pool or with a
\* goroutine (RandomAccessReader.go:40-48, :122-147).
THEOREM NoReaderLost == Spec => []NoLeak
<1>1. Pooling => NoLeak
  BY DEF Pooling
<1> QED BY <1>1, PoolingHolds, PTL

-----------------------------------------------------------------------------
(* What a goroutine reads *)

Reading == \A t \in Threads : ReadingSound(t)

\* A step of t disturbs no other goroutine.
LEMMA ReadingOfOthers ==
  ASSUME Reading, NEW t \in Threads, closed' = closed,
         \A u \in Threads \ {t} :
           /\ pc'[u] = pc[u] /\ calls'[u] = calls[u] /\ held'[u] = held[u] /\ buffer'[u] = buffer[u]
           /\ pc[u] = "read" => pos'[held[u]] = pos[held[u]],
         ReadingSound(t)'
  PROVE  Reading'
<1>1. ASSUME NEW u \in Threads \ {t}
      PROVE  ReadingSound(u)'
  BY <1>1 DEF Reading, ReadingSound, BytesFrom, Offset
<1> QED BY <1>1 DEF Reading

\* A goroutine that has not begun to read, or has ended, has nothing to show.
LEMMA NotReading ==
  ASSUME Typed, Reading, NEW t \in Threads, NEW p \in {"idle", "get", "open", "seek", "returnError"},
         Goto(t, p), closed' = closed,
         p # "idle" => ~calls'[t].late \/ (closed /\ p = "get"),
         \A u \in Threads \ {t} :
           /\ calls'[u] = calls[u] /\ held'[u] = held[u] /\ buffer'[u] = buffer[u]
           /\ pc[u] = "read" => pos'[held[u]] = pos[held[u]]
  PROVE  Reading'
<1>1. pc'[t] = p /\ \A u \in Threads \ {t} : pc'[u] = pc[u]
  BY TypedParts DEF Goto, CallsTyped
<1>2. ReadingSound(t)'
  BY <1>1 DEF ReadingSound
<1> QED BY <1>1, <1>2, ReadingOfOthers

\* In the beginning no goroutine reads.
LEMMA ReadingInit == Init => Reading
BY DEF Init, Reading, ReadingSound

\* The readers that the other goroutines work with stay where they are when that
\* of t moves.
LEMMA OthersStay ==
  ASSUME Typed, Pooling, NEW t \in Threads, held[t] \in Readers,
         \A r \in Readers \ {held[t]} : pos'[r] = pos[r]
  PROVE  \A u \in Threads \ {t} : pc[u] = "read" => pos'[held[u]] = pos[held[u]]
<1> SUFFICES ASSUME NEW u \in Threads \ {t}, pc[u] = "read"
             PROVE  pos'[held[u]] = pos[held[u]]
  OBVIOUS
<1>1. held[u] \in Readers
  BY TypedParts DEF CallsTyped, Working
<1>2. held[u] # held[t]
  BY NoneAssumption DEF Pooling, ExclusiveUse
<1> QED BY <1>1, <1>2

\* A call that comes after Close is marked late.
LEMMA ReadAtReading ==
  ASSUME Typed, Reading, NEW t \in Threads, NEW req \in Requests, ReadAt(t, req)
  PROVE  Reading'
<1>1. /\ Goto(t, "get") /\ closed \in BOOLEAN /\ calls' = [calls EXCEPT ![t] = Abstract!Call(req, closed)]
      /\ UNCHANGED <<closed, pos, held, buffer>>
  BY TypedParts DEF ReadAt, readers, PoolTyped
<1>2. calls'[t].late = closed /\ \A u \in Threads \ {t} : calls'[u] = calls[u]
  BY <1>1, TypedParts DEF CallsTyped, Abstract!Call
<1> QED BY <1>1, <1>2, NotReading

\* The goroutine is idle again, after an error or not.
LEMMA IdleReading ==
  ASSUME Typed, Reading, NEW t \in Threads, Goto(t, "idle"), closed' = closed, UNCHANGED pos,
         calls' = [calls EXCEPT ![t] = Abstract!NoCall],
         held' = [held EXCEPT ![t] = None], buffer' = [buffer EXCEPT ![t] = <<>>]
  PROVE  Reading'
<1>1. \A u \in Threads \ {t} : calls'[u] = calls[u] /\ held'[u] = held[u] /\ buffer'[u] = buffer[u]
  BY TypedParts DEF CallsTyped
<1> QED BY <1>1, NotReading

\* A late call gets no reader: the pool is gone for good.
LEMMA GetReading ==
  ASSUME Typed, Pooling, Reading, NEW t \in Threads, Get(t)
  PROVE  Reading'
<1>1. pc[t] = "get" /\ UNCHANGED <<closed, pos>> /\ closed \in BOOLEAN
  BY TypedParts DEF Get, readers, PoolTyped
<1>2. CASE ReturnError(t)
  BY <1>1, <1>2, IdleReading DEF ReturnError
<1>3. ASSUME ~closed, NEW p \in {"open", "seek"}, Goto(t, p), UNCHANGED <<calls, buffer>>,
             \A u \in Threads \ {t} : held'[u] = held[u]
      PROVE  Reading'
  <2>1. ~calls[t].late
    BY <1>1, <1>3 DEF Reading, ReadingSound
  <2> QED BY <1>1, <1>3, <2>1, NotReading
<1>4. ASSUME NEW k \in Candidates(Offset(t)), held' = [held EXCEPT ![t] = pool[k]],
             Goto(t, "seek"), UNCHANGED <<calls, buffer>>
      PROVE  Reading'
  <2>1. ~closed
    BY EmptyPool DEF Candidates, Pooling, PoolBounded
  <2>2. \A u \in Threads \ {t} : held'[u] = held[u]
    BY <1>4, TypedParts DEF CallsTyped
  <2> QED BY <1>3, <1>4, <2>1, <2>2
<1> QED BY <1>1, <1>2, <1>3, <1>4 DEF Get

\* The reader that OpenRead makes is none that others read from.
LEMMA OpenReading ==
  ASSUME Typed, Pooling, Reading, NEW t \in Threads, Open(t)
  PROVE  Reading'
<1>1. pc[t] = "open" /\ UNCHANGED closed /\ ~calls[t].late
  <2>1. calls[t].late \in BOOLEAN
    BY TypedParts, PendingCall DEF Open
  <2> QED BY <2>1 DEF Open, Reading, ReadingSound
<1>2. CASE ReturnError(t) /\ UNCHANGED readers
  BY <1>1, <1>2, IdleReading DEF ReturnError, readers
<1>3. ASSUME NEW r \in Readers, rstate[r] = "none", pos' = [pos EXCEPT ![r] = 0],
             held' = [held EXCEPT ![t] = r], Goto(t, "seek"), UNCHANGED <<calls, buffer>>
      PROVE  Reading'
  <2>1. \A u \in Threads \ {t} : held'[u] = held[u]
    BY <1>3, TypedParts DEF CallsTyped
  <2>2. \A u \in Threads \ {t} : pc[u] = "read" => held[u] \in Readers \ {r}
    BY <1>3, TypedParts, OnePlace DEF CallsTyped, Working
  <2>3. \A u \in Threads \ {t} : pc[u] = "read" => pos'[held[u]] = pos[held[u]]
    BY <1>3, <2>2, TypedParts DEF PoolTyped
  <2> QED BY <1>1, <1>3, <2>1, <2>3, NotReading
<1> QED BY <1>2, <1>3 DEF Open

\* The goroutine begins to read at the offset it was asked for.
LEMMA SeekReading ==
  ASSUME Typed, Pooling, Reading, NEW t \in Threads, Seek(t)
  PROVE  Reading'
<1>1. pc[t] = "seek" /\ ~calls[t].late /\ held[t] \in Readers /\ buffer[t] = <<>> /\ pos \in [Readers -> Nat]
  <2>1. calls[t].late \in BOOLEAN
    BY TypedParts, PendingCall DEF Seek
  <2> QED BY <2>1, TypedParts DEF Seek, Reading, ReadingSound, CallsTyped, PoolTyped, Working
<1>2. CASE /\ Goto(t, "read") /\ pos' = [pos EXCEPT ![held[t]] = Offset(t)]
           /\ UNCHANGED <<closed, calls, held, buffer>>
  <2>1. pc'[t] = "read" /\ \A u \in Threads \ {t} : pc'[u] = pc[u]
    BY <1>2, TypedParts DEF Goto, CallsTyped
  <2>2. pos'[held[t]] = Offset(t) /\ \A r \in Readers \ {held[t]} : pos'[r] = pos[r]
    BY <1>1, <1>2
  <2>3. Offset(t) \in Nat /\ Len(<<>>) = 0
    BY <1>1, TypedParts, PendingCall
  <2>4. ReadingSound(t)'
    BY <1>1, <1>2, <2>1, <2>2, <2>3 DEF ReadingSound, BytesFrom, Offset
  <2> QED BY <1>1, <1>2, <2>1, <2>2, <2>4, OthersStay, ReadingOfOthers
<1>3. CASE Goto(t, "returnError") /\ UNCHANGED <<closed, readers, calls, held, buffer>>
  BY <1>1, <1>3, NotReading DEF readers
<1>4. CASE FailAndClose(t)
  BY <1>4, IdleReading DEF FailAndClose, ReturnError
<1> QED BY <1>2, <1>3, <1>4 DEF Seek, AfterFailedSeek

\* What a Read adds follows on what is there.
LEMMA ReadFullReading ==
  ASSUME Typed, Pooling, Reading, NEW t \in Threads, ReadFull(t)
  PROVE  Reading'
<1>1. pc[t] = "read" /\ ReadingSound(t)
  BY DEF ReadFull, Reading
<1>2. CASE FailAndClose(t)
  BY <1>2, IdleReading DEF FailAndClose, ReturnError
<1>3. CASE ReadsBytes(t)
  <2> DEFINE n == Available(pos[held[t]], Missing(t))
             b == buffer[t]
             s == Len(b)
  <2>1. /\ n \in Nat /\ n <= Missing(t) /\ held[t] \in Readers /\ Missing(t) \in Nat
        /\ s \in Nat /\ Offset(t) \in Nat /\ Len(buffer'[t]) = s + n
        /\ \A i \in 1..s + n : buffer'[t][i] = IF i <= s THEN b[i] ELSE pos[held[t]] + i - s - 1
    BY <1>1, <1>3, ReadsBytesType
  <2>2. /\ pos' = [pos EXCEPT ![held[t]] = @ + n] /\ UNCHANGED <<closed, calls, held>>
        /\ Goto(t, IF n = Missing(t) THEN "return" ELSE "read")
        /\ \A u \in Threads \ {t} : buffer'[u] = buffer[u]
    BY <1>3, TypedParts DEF ReadsBytes, CallsTyped
  <2>3. /\ pos[held[t]] = Offset(t) + s /\ \A i \in 1..s : b[i] = Offset(t) + i - 1
        /\ ~calls[t].late
    <3>1. calls[t].late \in BOOLEAN
      BY <1>1, TypedParts, PendingCall
    <3> QED BY <1>1, <3>1 DEF ReadingSound, BytesFrom
  <2>4. calls[t].request.size = s + Missing(t)
    <3>1. calls[t].request.size \in Nat
      BY <1>1, TypedParts, PendingCall
    <3> QED BY <2>1, <3>1 DEF Missing
  <2>5. /\ pos'[held[t]] = pos[held[t]] + n /\ \A r \in Readers \ {held[t]} : pos'[r] = pos[r]
    BY <2>1, <2>2, TypedParts DEF PoolTyped
  <2>6. /\ pc'[t] = IF n = Missing(t) THEN "return" ELSE "read"
        /\ \A u \in Threads \ {t} : pc'[u] = pc[u]
    BY <2>2, TypedParts DEF Goto, CallsTyped
  <2> HIDE DEF n, s, b
  <2>7. ASSUME NEW i \in 1..s + n
        PROVE  buffer'[t][i] = Offset(t) + i - 1
    <3>1. i \in Nat /\ (i <= s => i \in 1..s)
      BY <2>1
    <3>2. i <= s => buffer'[t][i] = b[i] /\ b[i] = Offset(t) + i - 1
      BY <2>1, <2>3, <3>1
    <3>3. ~(i <= s) => buffer'[t][i] = pos[held[t]] + i - s - 1
      BY <2>1
    <3>4. pos[held[t]] + i - s - 1 = Offset(t) + i - 1
      BY <2>1, <2>3, <3>1
    <3> QED BY <3>2, <3>3, <3>4
  <2>8. BytesFrom(Offset(t), buffer'[t])
    BY <2>1, <2>7 DEF BytesFrom
  <2>9. pos'[held[t]] = Offset(t) + Len(buffer'[t])
    BY <2>1, <2>3, <2>5
  <2>10. n = Missing(t) => Len(buffer'[t]) = calls[t].request.size
    BY <2>1, <2>4
  <2>11. ReadingSound(t)'
    BY <2>2, <2>3, <2>6, <2>8, <2>9, <2>10 DEF ReadingSound, BytesFrom, Offset
  <2> QED BY <2>1, <2>2, <2>5, <2>6, <2>11, OthersStay, ReadingOfOthers
<1> QED BY <1>2, <1>3 DEF ReadFull, ReadsBytes

\* Close leaves the readers in use alone, and closes nothing that goroutines work with.
LEMMA CloseReading ==
  ASSUME Typed, Pooling, Reading, Close \/ \E r \in Readers : CloseReader(r)
  PROVE  Reading'
<1>1. UNCHANGED <<pc, calls, held, buffer>> /\ (closed => closed')
  BY DEF Close, CloseReader
<1>2. \A t \in Threads : pc[t] = "read" => held[t] \in Readers /\ held[t] # None
  BY TypedParts DEF CallsTyped, Working
<1>3. \A t \in Threads : pc[t] = "read" => pos'[held[t]] = pos[held[t]]
  <2>1. CASE Close
    BY <1>2, <2>1 DEF Close, Pooling, ExclusiveUse
  <2>2. ASSUME NEW r \in Readers, CloseReader(r)
        PROVE  \A t \in Threads : pc[t] = "read" => pos'[held[t]] = pos[held[t]]
    <3>1. rstate[r] = "closing" /\ pos' = [pos EXCEPT ![r] = 0] /\ pos \in [Readers -> Nat]
      BY <2>2, TypedParts DEF CloseReader, PoolTyped
    <3> QED BY <1>2, <3>1, OnePlace
  <2> QED BY <2>1, <2>2
<1>4. ASSUME NEW t \in Threads
      PROVE  ReadingSound(t)'
  <2>1. ReadingSound(t) /\ (pc[t] # "idle" => calls[t].late \in BOOLEAN)
    BY TypedParts, PendingCall DEF Reading
  <2> QED BY <1>1, <1>3, <2>1 DEF ReadingSound, Offset, BytesFrom
<1> QED BY <1>4 DEF Reading

\* Every step leaves a goroutine with the bytes it asked for.
LEMMA ReadingStep == Typed /\ Pooling /\ Reading /\ [Next]_vars => Reading'
<1> SUFFICES ASSUME Typed, Pooling, Reading, [Next]_vars
             PROVE  Reading'
  OBVIOUS
<1>1. ASSUME NEW t \in Threads, Return(t) \/ ReturnAfterError(t)
      PROVE  Reading'
  BY <1>1, IdleReading DEF Return, ReturnAfterError, ReturnError
<1>2. CASE UNCHANGED vars
  BY <1>2 DEF vars, readers, Reading, ReadingSound, BytesFrom, Offset
<1> QED BY <1>1, <1>2, ReadAtReading, GetReading, OpenReading, SeekReading, ReadFullReading,
           CloseReading DEF Next, Step

\* The inductive invariant holds initially,
LEMMA InvInit == Init => Inv
BY TypeInit, PoolingInit, ReadingInit DEF Inv, Reading

\* and every step keeps it.
LEMMA InvStep == Inv /\ [Next]_vars => Inv'
<1>1. Inv <=> Typed /\ Pooling /\ Reading
  BY DEF Inv, Reading
<1>2. Inv' <=> Typed' /\ Pooling' /\ Reading'
  BY <1>1, PTL
<1> QED BY <1>1, <1>2, TypeStep, PoolingStep, ReadingStep

-----------------------------------------------------------------------------
(* The pool is invisible: it implements an io.ReaderAt. *)

\* A goroutine that returns its bytes returns those it asked for.
LEMMA BytesRead ==
  ASSUME Typed, Reading, NEW t \in Threads, pc[t] = "return"
  PROVE  buffer[t] = Abstract!Bytes(calls[t].request) /\ ~calls[t].late
<1>1. /\ \A i \in 1..Len(buffer[t]) : buffer[t][i] = Offset(t) + i - 1
      /\ Len(buffer[t]) = calls[t].request.size /\ ~calls[t].late
  <2>1. calls[t].late \in BOOLEAN
    BY TypedParts, PendingCall
  <2> QED BY <2>1 DEF Reading, ReadingSound, BytesFrom
<1>2. buffer[t] \in [1..Len(buffer[t]) -> Nat]
  BY TypedParts, LenProperties DEF CallsTyped
<1>3. buffer[t] = [i \in 1..Len(buffer[t]) |-> buffer[t][i]]
  BY <1>2
<1>4. buffer[t] = [i \in 1..calls[t].request.size |-> Offset(t) + i - 1]
  BY <1>1, <1>3
<1> QED BY <1>1, <1>4 DEF Abstract!Bytes, Offset

\* An error is an answer that an io.ReaderAt may always give.
LEMMA ErrorIsAnswer ==
  ASSUME Typed, NEW t \in Threads, pc[t] # "idle", ReturnError(t), UNCHANGED closed
  PROVE  Abstract!Return(t)
<1>1. calls[t].pending
  BY TypedParts DEF CallsTyped
<1> QED BY <1>1, ZenonT(60) DEF ReturnError, Abstract!Return, Abstract!Failed, Abstract!NoCall

\* Every step is one of the abstract reader, or changes nothing that its callers see.
LEMMA RefinementStep == Inv /\ [Next]_vars => [Abstract!Next]_(Abstract!vars)
<1> SUFFICES ASSUME Inv, [Next]_vars
             PROVE  Abstract!Next \/ UNCHANGED Abstract!vars
  OBVIOUS
<1>1. Typed /\ Reading
  BY DEF Inv, Reading
<1>2. ASSUME NEW t \in Threads, NEW req \in Requests, ReadAt(t, req)
      PROVE  Abstract!Next
  <2>1. ~calls[t].pending
    BY <1>1, <1>2, TypedParts DEF CallsTyped, ReadAt
  <2>2. Abstract!ReadAt(t, req)
    BY <1>2, <2>1, ZenonT(60) DEF ReadAt, Abstract!ReadAt, Abstract!Call, Abstract!Failed
  <2> QED BY <2>2 DEF Abstract!Next
<1>3. ASSUME NEW t \in Threads, pc[t] # "idle", ReturnError(t), UNCHANGED closed
      PROVE  Abstract!Next
  BY <1>1, <1>3, ErrorIsAnswer DEF Abstract!Next
<1>4. ASSUME NEW t \in Threads, Return(t)
      PROVE  Abstract!Next
  <2>1. calls[t].pending /\ buffer[t] = Abstract!Bytes(calls[t].request) /\ ~calls[t].late
    BY <1>1, <1>4, TypedParts, BytesRead DEF CallsTyped, Return
  <2>2. /\ result' = [result EXCEPT ![t] = Abstract!Answer(calls[t].request)]
        /\ calls' = [calls EXCEPT ![t] = Abstract!NoCall] /\ UNCHANGED closed
    BY <1>4, <2>1 DEF Return, Abstract!Answer
  <2>3. Abstract!Return(t)
    BY <2>1, <2>2, ZenonT(60) DEF Abstract!Return
  <2> QED BY <2>3 DEF Abstract!Next
<1>5. CASE Close
  BY <1>5, ZenonT(60) DEF Close, Abstract!Next, Abstract!Close
<1>6. ASSUME NEW t \in Threads, Get(t) \/ Open(t) \/ Seek(t) \/ ReadFull(t) \/ ReturnAfterError(t)
      PROVE  Abstract!Next \/ UNCHANGED Abstract!vars
  <2>1. pc[t] # "idle" /\ UNCHANGED closed /\ (ReturnError(t) \/ UNCHANGED <<calls, result>>)
    BY <1>6 DEF Get, Open, Seek, ReadFull, ReturnAfterError, FailAndClose
  <2> QED BY <1>3, <2>1, ZenonT(60) DEF Abstract!vars
<1>7. CASE UNCHANGED vars \/ \E r \in Readers : CloseReader(r)
  BY <1>7 DEF vars, CloseReader, Abstract!vars
<1> QED BY <1>2, <1>4, <1>5, <1>6, <1>7 DEF Next, Step

\* The readers that goroutines pass on through the pool are invisible: a ReadAt
\* that succeeds returns the bytes of the file at the offset it was asked for,
\* whatever the others do to the pool meanwhile, and one called after Close
\* fails (RandomAccessReader.go:11-19, :38-64).
THEOREM PoolIsReaderAt == Spec => ImplementsReaderAt
<1>1. Init => Abstract!Init
  BY DEF Init
<1> QED BY <1>1, InvInit, InvStep, RefinementStep, PTL DEF Spec, ImplementsReaderAt, Abstract!Spec
=============================================================================
