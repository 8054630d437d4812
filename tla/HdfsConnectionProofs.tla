------------------------ MODULE HdfsConnectionProofs ------------------------
(***************************************************************************)
(* Theorems about the connection to the name node, for any number of       *)
(* goroutines, connections, attempts and failures.                         *)
(***************************************************************************)
EXTENDS HdfsConnection, FiniteSetTheorems, TLAPS

USE BoundsAssumption, NoneAssumption

-----------------------------------------------------------------------------
(* The inductive invariant *)

\* Who uses the client: the goroutine that has the lock, and no other.  Until
\* main is past EnsureConnected there is none to use.
Using ==
  /\ ~started => client = None /\ \A t \in Threads : pc[t] = "idle"
  /\ client # None => conn[client] # "none"
  /\ \A t \in Threads :
       /\ pc[t] = "rpc" <=> lock = t
       /\ pc[t] = "rpc" => client # None /\ call[t].on = client

\* The connections that a failure has been counted for: those that broke, and
\* those that were forgotten.
Tainted == {c \in Clients : conn[c] = "bad"} \cup Abandoned
TaintPaid == IsFiniteSet(Tainted) /\ Cardinality(Tainted) <= faults

\* The failures an operation has met: one for each attempt that failed, and one
\* more if the client it is going to use, or uses, has broken meanwhile.
Wasted == IF client # None /\ conn[client] = "bad" THEN 1 ELSE 0
Paid(t) ==
  /\ pc[t] \in {"begin", "rpc"} => faults + 1 >= call[t].attempt + Wasted
  /\ pc[t] = "ended" /\ call[t].err = "other" => faults >= call[t].attempt
  /\ pc[t] = "close" => faults + 1 >= call[t].attempt
AttemptsPaid == \A t \in Threads : Paid(t)

Inv == TypeOK /\ Using /\ TaintPaid /\ AttemptsPaid

-----------------------------------------------------------------------------
(* Type correctness *)

\* A new operation, and one with another error, client, time or attempt
LEMMA OperationType ==
  /\ Idle \in Operations
  /\ \A kind \in Kinds : Operation(kind) \in Operations
  /\ \A op \in Operations :
       /\ op.attempt \in 1..MaxAttempts
       /\ [op EXCEPT !.expired = TRUE] \in Operations
       /\ \A e \in Errors : [op EXCEPT !.err = e] \in Operations
       /\ \A c \in Clients \cup {None} : [op EXCEPT !.on = c] \in Operations
       /\ op.attempt < MaxAttempts => [op EXCEPT !.attempt = @ + 1] \in Operations
<1>1. 1 \in 1..MaxAttempts
  OBVIOUS
<1>2. \A kind \in Kinds \cup {"none"} : Operation(kind) \in Operations
  BY <1>1 DEF Operations, Operation, Errors
<1>3. ASSUME NEW op \in Operations
      PROVE  /\ op.attempt \in 1..MaxAttempts
             /\ [op EXCEPT !.expired = TRUE] \in Operations
             /\ \A e \in Errors : [op EXCEPT !.err = e] \in Operations
             /\ \A c \in Clients \cup {None} : [op EXCEPT !.on = c] \in Operations
  BY DEF Operations
<1>4. ASSUME NEW op \in Operations, op.attempt < MaxAttempts
      PROVE  [op EXCEPT !.attempt = @ + 1] \in Operations
  <2>1. op.attempt + 1 \in 1..MaxAttempts
    <3>1. op.attempt \in 1..MaxAttempts
      BY <1>3
    <3>2. op.attempt < MaxAttempts
      BY <1>4
    <3> QED BY <3>1, <3>2
  <2> QED BY <2>1 DEF Operations
<1> QED BY <1>2, <1>3, <1>4 DEF Idle

\* The initial state is in the types.
LEMMA TypeInit == Init => TypeOK
<1>1. 0 \in 0..MaxFaults
  OBVIOUS
<1> QED BY <1>1, OperationType DEF Init, TypeOK

\* Every step keeps the types: the limit on the attempts may become 0 under an
\* operation, but it never grows.
LEMMA TypeStep == TypeOK /\ [Next]_vars => TypeOK'
<1> SUFFICES ASSUME TypeOK, [Next]_vars
             PROVE  TypeOK'
  OBVIOUS
<1>1. ASSUME NEW c \in Clients, Connect(c)
      PROVE  client' \in Clients \cup {None} /\ conn' \in [Clients -> {"none", "good", "bad"}]
  BY <1>1 DEF Connect, TypeOK
<1>2. ASSUME Fails
      PROVE  faults' \in 0..MaxFaults
  BY <1>2 DEF Fails, TypeOK
<1>3. CASE Startup
  BY <1>1, <1>2, <1>3 DEF Startup, TypeOK
<1>4. CASE Signal
  BY <1>4 DEF Signal, TypeOK
<1>5. ASSUME NEW c \in Clients, Break(c)
      PROVE  TypeOK'
  BY <1>2, <1>5 DEF Break, TypeOK
<1>6. ASSUME NEW t \in Threads, NEW kind \in Kinds, Start(t, kind)
      PROVE  TypeOK'
  BY <1>6, OperationType DEF Start, Goto, TypeOK
<1>7. ASSUME NEW t \in Threads, Expire(t)
      PROVE  TypeOK'
  <2>1. [call[t] EXCEPT !.expired = TRUE] \in Operations
    BY OperationType DEF TypeOK
  <2> QED BY <1>7, <2>1 DEF Expire, TypeOK
<1>8. ASSUME NEW t \in Threads, Begin(t)
      PROVE  TypeOK'
  <2>0. call[t] \in Operations
    BY DEF TypeOK
  <2>1. \A c \in Clients \cup {None} : [call[t] EXCEPT !.on = c] \in Operations
    BY <2>0, OperationType
  <2>2. [call[t] EXCEPT !.err = "other", !.on = None] \in Operations
    BY <2>0 DEF Operations, Errors
  <2>3. call' \in [Threads -> Operations]
    <3>1. PICK op \in Operations : call' = [call EXCEPT ![t] = op]
      <4>1. \/ \E c \in Clients \cup {None} : call' = [call EXCEPT ![t].on = c]
            \/ call' = [call EXCEPT ![t].err = "other", ![t].on = None]
        <5>1. client \in Clients \cup {None}
          BY DEF TypeOK
        <5> QED BY ONLY <1>8, <5>1 DEF Begin
      <4>2. call' = [call EXCEPT ![t].err = "other", ![t].on = None]
              => call' = [call EXCEPT ![t] = [call[t] EXCEPT !.err = "other", !.on = None]]
        OBVIOUS
      <4>3. \A c : call' = [call EXCEPT ![t].on = c] => call' = [call EXCEPT ![t] = [call[t] EXCEPT !.on = c]]
        OBVIOUS
      <4> HIDE DEF TypeOK
      <4> QED BY ONLY <2>1, <2>2, <4>1, <4>2, <4>3
    <3> QED BY <3>1 DEF TypeOK
  <2>4. lock' \in Threads \cup {None} /\ pc' \in [Threads -> {"idle", "begin", "rpc", "ended", "close"}]
    BY <1>8 DEF Begin, Goto, Unlocked, TypeOK
  <2>5. client' \in Clients \cup {None} /\ conn' \in [Clients -> {"none", "good", "bad"}]
    BY <1>1, <1>8 DEF Begin, TypeOK
  <2>6. faults' \in 0..MaxFaults
    BY <1>2, <1>8 DEF Begin, TypeOK
  <2> QED BY <1>8, <2>3, <2>4, <2>5, <2>6 DEF Begin, TypeOK
<1>9. ASSUME NEW t \in Threads, Rpc(t)
      PROVE  TypeOK'
  <2>1. PICK e \in Errors : Ended(t, e)
    BY <1>9 DEF Rpc
  <2>2. [call[t] EXCEPT !.err = e] \in Operations
    BY OperationType DEF TypeOK
  <2>3. call' \in [Threads -> Operations] /\ pc' \in [Threads -> {"idle", "begin", "rpc", "ended", "close"}]
    BY <2>1, <2>2 DEF Ended, Goto, TypeOK
  <2> QED BY <1>2, <1>9, <2>3 DEF Rpc, TypeOK
<1>10. ASSUME NEW t \in Threads, Answer(t)
       PROVE  TypeOK'
  BY <1>10, OperationType DEF Answer, Goto, TypeOK
<1>11. ASSUME NEW t \in Threads, Retry(t)
       PROVE  TypeOK'
  <2>1. call[t].attempt < MaxAttempts
    <3>1. call[t].attempt \in 1..MaxAttempts /\ limit \in {0, MaxAttempts}
      BY OperationType DEF TypeOK
    <3>2. call[t].attempt < limit
      BY <1>11 DEF Retry, GivesUp, ShouldRetry
    <3> QED BY <3>1, <3>2
  <2>2. [call[t] EXCEPT !.attempt = @ + 1] \in Operations
    BY <2>1, OperationType DEF TypeOK
  <2> QED BY <1>11, <2>2 DEF Retry, Goto, TypeOK
<1>12. ASSUME NEW t \in Threads, CloseClient(t)
       PROVE  TypeOK'
  BY <1>12 DEF CloseClient, Goto, TypeOK
<1>13. CASE UNCHANGED vars
  BY <1>13 DEF vars, TypeOK
<1> QED BY <1>3, <1>4, <1>5, <1>6, <1>7, <1>8, <1>9, <1>10, <1>11, <1>12, <1>13 DEF Next

\* The variables stay in their types, and no operation makes more than
\* MaxAttempts attempts (RetryPolicy.go:64, main.go:110).
THEOREM TypeCorrect == Spec => []TypeOK
BY TypeInit, TypeStep, PTL DEF Spec

-----------------------------------------------------------------------------
(* The client is used by one goroutine at a time. *)

\* In the beginning there is no client.
LEMMA UsingInit == Init => Using
BY DEF Init, Using

\* A new connection takes no client from anybody.
LEMMA Connecting ==
  ASSUME TypeOK, NEW c \in Clients, Connect(c)
  PROVE  /\ client' = c /\ client' # None /\ conn[c] = "none"
         /\ conn'[c] = "good" /\ \A d \in Clients \ {c} : conn'[d] = conn[d]
BY DEF Connect, TypeOK

\* Every step leaves the client with the goroutine that has the lock.
LEMMA UsingStep == TypeOK /\ Using /\ [Next]_vars => Using'
<1> SUFFICES ASSUME TypeOK, Using, [Next]_vars
             PROVE  Using'
  OBVIOUS
<1>1. CASE Startup
  BY <1>1, Connecting DEF Startup, Using
<1>2. CASE Signal
  BY <1>2 DEF Signal, Using
<1>3. ASSUME NEW c \in Clients, Break(c)
      PROVE  Using'
  BY <1>3 DEF Break, Using, TypeOK
<1>4. ASSUME NEW t \in Threads, NEW kind \in Kinds, Start(t, kind)
      PROVE  Using'
  BY <1>4 DEF Start, Goto, Using, TypeOK
<1>5. ASSUME NEW t \in Threads, Expire(t)
      PROVE  Using'
  <2>1. call'[t].on = call[t].on /\ \A u \in Threads \ {t} : call'[u] = call[u]
    BY <1>5 DEF Expire, TypeOK, Operations
  <2> QED BY <1>5, <2>1 DEF Expire, Using
<1>6. ASSUME NEW t \in Threads, Begin(t)
      PROVE  Using'
  <2>1. /\ started' = started /\ started /\ lock = None /\ pc[t] = "begin"
        /\ \A u \in Threads : pc[u] # "rpc"
    BY <1>6 DEF Begin, Using
  <2>2. ASSUME lock' = t, Goto(t, "rpc"), client' # None, conn'[client'] # "none",
               call' = [call EXCEPT ![t].on = client']
        PROVE  Using'
    <3>1. call'[t].on = client'
      BY <2>2 DEF TypeOK, Operations
    <3>2. pc'[t] = "rpc" /\ \A u \in Threads \ {t} : pc'[u] = pc[u]
      BY <2>2 DEF Goto, TypeOK
    <3> QED BY <2>1, <2>2, <3>1, <3>2 DEF Using
  <2>3. CASE Goto(t, "ended") /\ UNCHANGED <<lock, client, conn>>
    BY <2>1, <2>3 DEF Goto, Using, TypeOK
  <2>4. CASE client # None /\ lock' = t /\ Goto(t, "rpc") /\ call' = [call EXCEPT ![t].on = client]
             /\ UNCHANGED <<client, conn>>
    BY <2>2, <2>4 DEF Using
  <2>5. ASSUME NEW c \in Clients, Connect(c), call' = [call EXCEPT ![t].on = c], lock' = t, Goto(t, "rpc")
        PROVE  Using'
    BY <2>2, <2>5, Connecting
  <2> QED BY <1>6, <2>3, <2>4, <2>5 DEF Begin, Unlocked
<1>7. ASSUME NEW t \in Threads, Rpc(t)
      PROVE  Using'
  <2>1. /\ pc'[t] = "ended" /\ \A u \in Threads \ {t} : pc'[u] = pc[u] /\ call'[u] = call[u]
    BY <1>7 DEF Rpc, Ended, Goto, TypeOK
  <2>2. \A u \in Threads \ {t} : pc[u] # "rpc"
    BY <1>7 DEF Rpc, Using
  <2> QED BY <1>7, <2>1, <2>2 DEF Rpc, Using
<1>8. ASSUME NEW t \in Threads, Answer(t) \/ Retry(t)
      PROVE  Using'
  <2>1. /\ pc[t] = "ended" /\ pc'[t] \in {"idle", "close"} /\ UNCHANGED <<started, client, conn, lock>>
        /\ \A u \in Threads \ {t} : pc'[u] = pc[u] /\ call'[u] = call[u]
    BY <1>8 DEF Answer, Retry, Goto, TypeOK
  <2> QED BY <2>1 DEF Using
<1>9. ASSUME NEW t \in Threads, CloseClient(t)
      PROVE  Using'
  <2>1. /\ pc[t] = "close" /\ pc'[t] = "begin" /\ UNCHANGED <<started, lock, call>> /\ client' = None
        /\ lock = None /\ \A u \in Threads \ {t} : pc'[u] = pc[u]
    BY <1>9 DEF CloseClient, LockFree, Goto, TypeOK
  <2> QED BY <2>1 DEF Using
<1>10. CASE UNCHANGED vars
  BY <1>10 DEF vars, Using
<1> QED BY <1>1, <1>2, <1>3, <1>4, <1>5, <1>6, <1>7, <1>8, <1>9, <1>10 DEF Next

\* A client is used by one goroutine at a time and is not closed under it, although
\* any goroutine that retries closes whatever client there is
\* (HdfsAccessor.go:41, :362-371, FaultTolerantHdfsAccessor.go:47-48).
THEOREM ClientNotClosedInUse == Spec => []NoUseAfterClose
<1>1. Using => NoUseAfterClose
  BY DEF Using, NoUseAfterClose
<1> QED BY <1>1, TypeInit, TypeStep, UsingInit, UsingStep, PTL DEF Spec

-----------------------------------------------------------------------------
(* Clients are forgotten only by failures. *)

\* One connection more that has failed costs one failure.
LEMMA OneMore ==
  ASSUME TaintPaid, faults \in Nat, NEW c, NEW T, T \subseteq Tainted \cup {c}, faults' = faults + 1
  PROVE  IsFiniteSet(T) /\ Cardinality(T) <= faults'
<1>1. /\ IsFiniteSet(Tainted \cup {c})
      /\ Cardinality(Tainted \cup {c}) = IF c \in Tainted THEN Cardinality(Tainted) ELSE Cardinality(Tainted) + 1
  BY FS_AddElement DEF TaintPaid
<1>2. /\ IsFiniteSet(T) /\ Cardinality(T) <= Cardinality(Tainted \cup {c})
      /\ Cardinality(T) \in Nat
  BY <1>1, FS_Subset, FS_CardinalityType
<1>3. Cardinality(Tainted) \in Nat /\ Cardinality(Tainted) <= faults
  BY FS_CardinalityType DEF TaintPaid
<1> QED BY <1>1, <1>2, <1>3

\* None more costs nothing.
LEMMA NoneMore ==
  ASSUME TaintPaid, faults \in Nat, NEW T, T \subseteq Tainted, faults' \in {faults, faults + 1}
  PROVE  IsFiniteSet(T) /\ Cardinality(T) <= faults'
<1>1. /\ IsFiniteSet(T) /\ Cardinality(T) <= Cardinality(Tainted)
      /\ Cardinality(T) \in Nat /\ Cardinality(Tainted) \in Nat /\ Cardinality(Tainted) <= faults
  BY FS_Subset, FS_CardinalityType DEF TaintPaid
<1> QED BY <1>1

\* In the beginning no connection has failed.
LEMMA TaintInit == Init => TaintPaid
<1> SUFFICES ASSUME Init
             PROVE  TaintPaid
  OBVIOUS
<1>1. Tainted = {} /\ faults = 0
  BY DEF Init, Tainted, Abandoned
<1> QED BY <1>1, FS_EmptySet DEF TaintPaid

\* Every step forgets no client, but one for which a failure is counted.
LEMMA TaintStep == TypeOK /\ Using /\ TaintPaid /\ [Next]_vars => TaintPaid'
<1> SUFFICES ASSUME TypeOK, Using, TaintPaid, [Next]_vars
             PROVE  TaintPaid'
  OBVIOUS
<1>1. faults \in Nat
  BY DEF TypeOK
<1>2. ASSUME Tainted' \subseteq Tainted, faults' \in {faults, faults + 1}
      PROVE  TaintPaid'
  <2>1. IsFiniteSet(Tainted') /\ Cardinality(Tainted') <= faults'
    BY <1>1, <1>2, NoneMore
  <2> QED BY <2>1 DEF TaintPaid
<1>3. ASSUME NEW c, Tainted' \subseteq Tainted \cup {c}, Fails
      PROVE  TaintPaid'
  <2>1. IsFiniteSet(Tainted') /\ Cardinality(Tainted') <= faults'
    BY <1>1, <1>3, OneMore DEF Fails
  <2> QED BY <2>1 DEF TaintPaid
\* A new connection, when there is none
<1>4. ASSUME NEW c \in Clients, Connect(c), client = None, UNCHANGED faults
      PROVE  TaintPaid'
  <2>1. Tainted' \subseteq Tainted
    BY <1>4, Connecting DEF Tainted, Abandoned
  <2> QED BY <1>2, <1>4, <2>1
<1>5. ASSUME UNCHANGED <<client, conn>>, UNCHANGED faults \/ Fails
      PROVE  TaintPaid'
  BY <1>2, <1>5 DEF Fails, Tainted, Abandoned
<1>6. CASE Startup
  BY <1>4, <1>5, <1>6 DEF Startup, Using
<1>7. ASSUME NEW c \in Clients, Break(c)
      PROVE  TaintPaid'
  <2>1. Tainted' \subseteq Tainted \cup {c}
    BY <1>7 DEF Break, Tainted, Abandoned, TypeOK
  <2> QED BY <1>3, <1>7, <2>1 DEF Break
<1>8. ASSUME NEW t \in Threads, Begin(t)
      PROVE  TaintPaid'
  BY <1>4, <1>5, <1>8 DEF Begin
<1>9. ASSUME NEW t \in Threads, Rpc(t)
      PROVE  TaintPaid'
  <2>1. /\ client \in Clients /\ call[t].on = client /\ conn' = conn /\ conn[client] \in {"good", "bad"}
    BY <1>9 DEF Rpc, Using, TypeOK
  <2>2. CASE client' = client
    BY <1>5, <1>9, <2>1, <2>2 DEF Rpc
  \* The client is forgotten: it has failed now, or it broke before.
  <2>3. CASE client' = None /\ conn[client] = "bad"
    <3>1. Tainted' \subseteq Tainted
      BY <2>1, <2>3 DEF Tainted, Abandoned
    <3>2. UNCHANGED faults
      BY <1>9, <2>1, <2>3 DEF Rpc
    <3> QED BY <1>2, <3>1, <3>2
  <2>4. CASE client' # client /\ conn[client] = "good"
    <3>1. Tainted' \subseteq Tainted \cup {client}
      BY <2>1, <2>4 DEF Tainted, Abandoned
    <3>2. Fails
      BY <1>9, <2>1, <2>4 DEF Rpc, Keeps, Errors
    <3> QED BY <1>3, <3>1, <3>2
  <2> QED BY <1>9, <2>1, <2>2, <2>3, <2>4 DEF Rpc
<1>10. ASSUME NEW t \in Threads, CloseClient(t)
       PROVE  TaintPaid'
  <2>1. /\ \A c \in Clients \ {client} : conn'[c] = conn[c]
        /\ client \in Clients => conn'[client] = "none"
        /\ client' = None /\ UNCHANGED faults
    BY <1>10 DEF CloseClient, TypeOK
  <2>2. Tainted' \subseteq Tainted
    BY <2>1 DEF Tainted, Abandoned
  <2> QED BY <1>2, <2>1, <2>2
<1>11. ASSUME Signal \/ (\E t \in Threads : Expire(t) \/ Answer(t) \/ Retry(t))
              \/ (\E t \in Threads, kind \in Kinds : Start(t, kind)) \/ UNCHANGED vars
       PROVE  TaintPaid'
  BY <1>5, <1>11 DEF Signal, Expire, Answer, Retry, Start, vars
<1> QED BY <1>6, <1>7, <1>8, <1>9, <1>10, <1>11 DEF Next

\* Each client that was forgotten without being closed took a failure: none is
\* lost to an error that is benign, nor to two goroutines that connect at the same
\* time (HdfsAccessor.go:168-170, :197-199, :221).
THEOREM ForgottenByFaultsOnly == Spec => []LeaksOnlyByFaults
<1>1. TypeOK /\ TaintPaid => LeaksOnlyByFaults
  <2> SUFFICES ASSUME TypeOK, TaintPaid
               PROVE  Cardinality(Abandoned) <= faults
    BY DEF LeaksOnlyByFaults
  <2>1. /\ Cardinality(Abandoned) <= Cardinality(Tainted) /\ Cardinality(Tainted) <= faults
        /\ Cardinality(Abandoned) \in Nat /\ Cardinality(Tainted) \in Nat
    BY FS_Subset, FS_CardinalityType DEF TaintPaid, Tainted
  <2> QED BY <2>1 DEF TypeOK
<1> QED BY <1>1, TypeInit, TypeStep, UsingInit, UsingStep, TaintInit, TaintStep, PTL DEF Spec

-----------------------------------------------------------------------------
(* Retries mask failures. *)

\* A connection that is broken took a failure.
LEMMA BrokenTookFault ==
  ASSUME TypeOK, Using, TaintPaid
  PROVE  Wasted \in {0, 1} /\ Wasted <= faults
<1>1. CASE Wasted = 1
  <2>1. client \in Tainted
    BY <1>1 DEF Wasted, Tainted, TypeOK
  <2>2. Cardinality(Tainted) \in Nat /\ Cardinality(Tainted) # 0 /\ Cardinality(Tainted) <= faults
    BY <2>1, FS_EmptySet, FS_CardinalityType DEF TaintPaid
  <2> QED BY <1>1, <2>2 DEF TypeOK
<1>2. CASE Wasted = 0
  BY <1>2 DEF TypeOK
<1> QED BY <1>1, <1>2 DEF Wasted

\* The attempts and the failures are counted.
LEMMA Counts ==
  ASSUME TypeOK, NEW t \in Threads
  PROVE  call[t].attempt \in Nat /\ faults \in Nat
<1>1. call[t].attempt \in 1..MaxAttempts
  BY OperationType DEF TypeOK
<1> QED BY <1>1 DEF TypeOK

\* What the step of one goroutine, or of none, does not make dearer stays paid.
LEMMA PaidByOthers ==
  ASSUME TypeOK, AttemptsPaid, NEW u \in Threads, faults' \in Nat, faults' >= faults,
         Wasted \in {0, 1}, Wasted' \in {0, 1},
         pc'[u] = pc[u], call'[u].attempt = call[u].attempt, call'[u].err = call[u].err,
         pc[u] \in {"begin", "rpc"} => faults' + Wasted >= faults + Wasted'
  PROVE  Paid(u)'
<1>1. call[u].attempt \in Nat /\ faults \in Nat
  BY Counts
<1>2. Paid(u)
  BY DEF AttemptsPaid
<1>3. pc[u] \in {"begin", "rpc"} => faults' + 1 >= call[u].attempt + Wasted'
  <2>1. pc[u] \in {"begin", "rpc"} => faults + 1 >= call[u].attempt + Wasted
    BY <1>2 DEF Paid
  <2> QED BY <1>1, <2>1
<1>4. pc[u] = "ended" /\ call[u].err = "other" => faults' >= call[u].attempt
  <2>1. pc[u] = "ended" /\ call[u].err = "other" => faults >= call[u].attempt
    BY <1>2 DEF Paid
  <2> QED BY <1>1, <2>1
<1>5. pc[u] = "close" => faults' + 1 >= call[u].attempt
  <2>1. pc[u] = "close" => faults + 1 >= call[u].attempt
    BY <1>2 DEF Paid
  <2> QED BY <1>1, <2>1
<1> QED BY <1>3, <1>4, <1>5 DEF Paid

\* In the beginning there is no attempt.
LEMMA PaidInit == Init => AttemptsPaid
BY DEF Init, AttemptsPaid, Paid

\* Every step that makes an attempt fail, or spoils the next, takes a failure.
LEMMA PaidStep == TypeOK /\ Using /\ TaintPaid /\ AttemptsPaid /\ [Next]_vars => AttemptsPaid'
<1> SUFFICES ASSUME TypeOK, Using, TaintPaid, AttemptsPaid, [Next]_vars
             PROVE  AttemptsPaid'
  OBVIOUS
<1>1. /\ TypeOK' /\ faults \in Nat /\ faults' \in Nat /\ Wasted \in {0, 1} /\ Wasted' \in {0, 1}
      /\ Wasted <= faults
  <2>1. TypeOK'
    BY TypeStep
  <2>2. Wasted' \in {0, 1}
    BY DEF Wasted
  <2> QED BY <2>1, <2>2, BrokenTookFault DEF TypeOK
<1>2. ASSUME Fails
      PROVE  faults' = faults + 1
  BY <1>2 DEF Fails
\* A step that moves no goroutine and does not break the client for nothing
<1>3. ASSUME UNCHANGED <<pc, call>>, faults' >= faults, faults' + Wasted >= faults + Wasted'
      PROVE  AttemptsPaid'
  BY <1>1, <1>3, PaidByOthers DEF AttemptsPaid
\* A step of one goroutine only
<1>4. ASSUME NEW t \in Threads, \A u \in Threads \ {t} : pc'[u] = pc[u] /\ call'[u] = call[u],
             faults' >= faults, faults' + Wasted >= faults + Wasted', Paid(t)'
      PROVE  AttemptsPaid'
  BY <1>1, <1>4, PaidByOthers DEF AttemptsPaid
<1>5. CASE Startup
  <2>1. CASE Fails /\ UNCHANGED <<client, conn, pc, call>>
    BY <1>1, <1>2, <1>3, <2>1 DEF Wasted
  <2>2. CASE UNCHANGED <<client, conn, faults, pc, call>>
    BY <1>1, <1>3, <2>2 DEF Wasted
  <2>3. ASSUME NEW c \in Clients, Connect(c), UNCHANGED <<faults, pc, call>>
        PROVE  AttemptsPaid'
    <3>1. Wasted' = 0
      BY <2>3, Connecting DEF Wasted
    <3> QED BY <1>1, <1>3, <2>3, <3>1
  <2> QED BY <1>5, <2>1, <2>2, <2>3 DEF Startup
<1>6. ASSUME NEW c \in Clients, Break(c)
      PROVE  AttemptsPaid'
  BY <1>1, <1>2, <1>3, <1>6 DEF Break
<1>7. ASSUME NEW t \in Threads, NEW kind \in Kinds, Start(t, kind)
      PROVE  AttemptsPaid'
  <2>1. /\ pc'[t] = "begin" /\ call'[t].attempt = 1 /\ UNCHANGED <<client, conn, faults>>
        /\ \A u \in Threads \ {t} : pc'[u] = pc[u] /\ call'[u] = call[u]
    BY <1>7 DEF Start, Goto, Operation, TypeOK
  <2>2. Wasted' = Wasted
    BY <2>1 DEF Wasted
  <2>3. Paid(t)'
    BY <1>1, <2>1, <2>2 DEF Paid
  <2> QED BY <1>1, <1>4, <2>1, <2>2, <2>3
<1>8. ASSUME NEW t \in Threads, Expire(t)
      PROVE  AttemptsPaid'
  <2>1. /\ UNCHANGED <<pc, client, conn, faults>> /\ call'[t].attempt = call[t].attempt
        /\ call'[t].err = call[t].err /\ \A u \in Threads \ {t} : call'[u] = call[u]
    BY <1>8 DEF Expire, TypeOK, Operations
  <2>2. Wasted' = Wasted
    BY <2>1 DEF Wasted
  <2> QED BY <1>1, <2>1, <2>2, PaidByOthers DEF AttemptsPaid
<1>9. ASSUME NEW t \in Threads, Begin(t)
      PROVE  AttemptsPaid'
  <2>1. /\ pc[t] = "begin" /\ faults + 1 >= call[t].attempt + Wasted /\ call[t].attempt \in Nat
    BY <1>9, Counts DEF Begin, AttemptsPaid, Paid
  <2>2. /\ pc'[t] \in {"rpc", "ended"} /\ call'[t].attempt = call[t].attempt
        /\ \A u \in Threads \ {t} : pc'[u] = pc[u] /\ call'[u] = call[u]
    BY <1>9 DEF Begin, Goto, TypeOK, Operations
  \* A connection there was, or a new one
  <2>3. CASE pc'[t] = "rpc" /\ UNCHANGED faults /\ Wasted' <= Wasted
    <3>1. Paid(t)'
      BY <1>1, <2>1, <2>2, <2>3 DEF Paid
    <3> QED BY <1>1, <1>4, <2>2, <2>3, <3>1
  \* No connection: a failure
  <2>4. CASE pc'[t] = "ended" /\ faults' = faults + 1 /\ Wasted' = Wasted
    <3>1. Paid(t)'
      BY <1>1, <2>1, <2>2, <2>4 DEF Paid
    <3> QED BY <1>1, <1>4, <2>2, <2>4, <3>1
  <2>5. ASSUME NEW c \in Clients, Connect(c)
        PROVE  Wasted' = 0
    BY <2>5, Connecting DEF Wasted
  <2>6. ASSUME UNCHANGED <<client, conn>>
        PROVE  Wasted' = Wasted
    BY <2>6 DEF Wasted
  <2>7. /\ Goto(t, "rpc") => pc'[t] = "rpc"
        /\ Goto(t, "ended") => pc'[t] = "ended"
    BY DEF Goto, TypeOK
  <2> QED BY <1>1, <1>2, <1>9, <2>3, <2>4, <2>5, <2>6, <2>7 DEF Begin
<1>10. ASSUME NEW t \in Threads, Rpc(t)
       PROVE  AttemptsPaid'
  <2>1. /\ client \in Clients /\ client # None /\ call[t].on = client /\ conn' = conn
        /\ conn[client] \in {"good", "bad"} /\ client' \in {client, None}
    BY <1>10 DEF Rpc, Using, TypeOK
  <2>2. /\ faults + 1 >= call[t].attempt + Wasted /\ call[t].attempt \in Nat
    BY <1>10, Counts DEF Rpc, AttemptsPaid, Paid
  <2>3. PICK e \in Errors : /\ IF e = "other" /\ conn[client] = "good" THEN Fails ELSE UNCHANGED faults
                            /\ Ended(t, e)
    BY <1>10, <2>1 DEF Rpc
  <2>4. /\ pc'[t] = "ended" /\ call'[t].err = e /\ call'[t].attempt = call[t].attempt
        /\ \A u \in Threads \ {t} : pc'[u] = pc[u] /\ call'[u] = call[u]
    BY <2>3 DEF Ended, Goto, TypeOK, Operations
  <2>5. Wasted = (IF conn[client] = "bad" THEN 1 ELSE 0) /\ Wasted' <= Wasted
    BY <2>1 DEF Wasted
  <2>6. faults' = IF e = "other" /\ conn[client] = "good" THEN faults + 1 ELSE faults
    BY <1>2, <2>3
  <2>7. Paid(t)'
    BY <1>1, <2>1, <2>2, <2>4, <2>5, <2>6 DEF Paid
  <2>8. faults' >= faults /\ faults' + Wasted >= faults + Wasted'
    <3>1. faults \in Nat /\ Wasted \in Nat /\ Wasted' \in Nat
      BY <1>1
    <3>2. faults' = faults \/ faults' = faults + 1
      BY <2>6
    <3>3. Wasted' <= Wasted
      BY <2>5
    <3>4. faults' >= faults
      BY <3>1, <3>2
    <3>5. faults' + Wasted >= faults + Wasted'
      BY <3>1, <3>2, <3>3
    <3> QED BY <3>4, <3>5
  <2> QED BY <1>4, <2>4, <2>7, <2>8
<1>11. ASSUME NEW t \in Threads, Answer(t)
       PROVE  AttemptsPaid'
  <2>1. /\ pc'[t] = "idle" /\ UNCHANGED <<client, conn, faults>>
        /\ \A u \in Threads \ {t} : pc'[u] = pc[u] /\ call'[u] = call[u]
    BY <1>11 DEF Answer, Goto, TypeOK
  <2>2. Wasted' = Wasted /\ Paid(t)'
    BY <2>1 DEF Wasted, Paid
  <2> QED BY <1>1, <1>4, <2>1, <2>2
<1>12. ASSUME NEW t \in Threads, Retry(t)
       PROVE  AttemptsPaid'
  <2>1. /\ pc'[t] = "close" /\ UNCHANGED <<client, conn, faults>> /\ call'[t].attempt = call[t].attempt + 1
        /\ \A u \in Threads \ {t} : pc'[u] = pc[u] /\ call'[u] = call[u]
    BY <1>12 DEF Retry, Goto, TypeOK, Operations
  <2>2. Wasted' = Wasted
    BY <2>1 DEF Wasted
  <2>3. pc[t] = "ended" /\ call[t].err = "other"
    BY <1>12 DEF Retry, GivesUp, TypeOK, Operations, Errors
  <2>4. faults >= call[t].attempt /\ call[t].attempt \in Nat
    BY <2>3, Counts DEF AttemptsPaid, Paid
  <2>5. Paid(t)'
    BY <1>1, <2>1, <2>4 DEF Paid
  <2> QED BY <1>1, <1>4, <2>1, <2>2, <2>5
\* The next attempt is on a new connection: whatever broke the last is spent.
<1>13. ASSUME NEW t \in Threads, CloseClient(t)
       PROVE  AttemptsPaid'
  <2>1. /\ pc'[t] = "begin" /\ client' = None /\ UNCHANGED <<call, faults>>
        /\ \A u \in Threads \ {t} : pc'[u] = pc[u]
    BY <1>13 DEF CloseClient, Goto, TypeOK
  <2>2. Wasted' = 0
    BY <2>1 DEF Wasted
  <2>3. faults + 1 >= call[t].attempt /\ call[t].attempt \in Nat
    BY <1>13, Counts DEF CloseClient, AttemptsPaid, Paid
  <2>4. Paid(t)'
    BY <1>1, <2>1, <2>2, <2>3 DEF Paid
  <2> QED BY <1>1, <1>4, <2>1, <2>2, <2>4
<1>14. CASE Signal \/ UNCHANGED vars
  <2>1. UNCHANGED <<pc, call, client, conn, faults>>
    BY <1>14 DEF Signal, vars
  <2>2. Wasted' = Wasted
    BY <2>1 DEF Wasted
  <2> QED BY <1>1, <1>3, <2>1, <2>2
<1> QED BY <1>5, <1>6, <1>7, <1>8, <1>9, <1>10, <1>11, <1>12, <1>13, <1>14 DEF Next

\* An operation that is retried, and neither timed out nor interrupted, fails with
\* an error that is not benign only after as many failures as it may make attempts:
\* what has broken one connection costs an operation one attempt, although other
\* goroutines connect and close the same client meanwhile
\* (FaultTolerantHdfsAccessor.go:47-48, RetryPolicy.go:64).
THEOREM RetriesMask == Spec => RetriesMaskFaults
<1> DEFINE Returns(t) == /\ pc[t] = "ended" /\ pc'[t] = "idle" /\ call[t].err = "other"
                         /\ IsRetried(call[t].kind) /\ ~call[t].expired /\ limit # 0
<1>1. TypeOK /\ AttemptsPaid /\ [Next]_vars => [\A t \in Threads : Returns(t) => faults >= MaxAttempts]_vars
  <2> SUFFICES ASSUME TypeOK, AttemptsPaid, Next, NEW t \in Threads, Returns(t)
               PROVE  faults >= MaxAttempts
    OBVIOUS
  \* Only Answer takes a goroutine from "ended" to "idle".
  <2>1. GivesUp(call[t])
    <3>1. PICK u \in Threads : Answer(u) /\ pc'[u] = "idle" /\ \A v \in Threads \ {u} : pc'[v] = pc[v]
      <4>0. pc \in [Threads -> {"idle", "begin", "rpc", "ended", "close"}] /\ pc[t] = "ended" /\ pc'[t] = "idle"
        BY DEF TypeOK
      <4>1. ~UNCHANGED pc
        BY <4>0
      <4>2. \A u \in Threads, p \in {"begin", "rpc", "ended", "close"} : ~Goto(u, p)
        BY <4>0 DEF Goto
      <4>3. PICK u \in Threads : (\E kind \in Kinds : Start(u, kind)) \/ Expire(u) \/ Begin(u) \/ Rpc(u)
                                \/ Answer(u) \/ Retry(u) \/ CloseClient(u)
        BY ONLY <4>1, Next DEF Next, Startup, Signal, Break
      <4>4. Answer(u)
        BY ONLY <4>1, <4>2, <4>3, u \in Threads
           DEF Start, Expire, Begin, Rpc, Ended, Retry, CloseClient
      <4>5. pc' = [pc EXCEPT ![u] = "idle"]
        BY ONLY <4>4 DEF Answer, Goto
      <4> QED BY ONLY <4>0, <4>4, <4>5, u \in Threads
    <3> QED BY <3>1 DEF Answer
  <2>2. call[t].attempt \in 1..MaxAttempts /\ limit = MaxAttempts
    BY OperationType DEF TypeOK
  <2>3. ~(call[t].attempt < limit)
    BY <2>1 DEF GivesUp, ShouldRetry
  <2>4. faults >= call[t].attempt /\ faults \in Nat
    BY DEF AttemptsPaid, Paid, TypeOK
  <2> QED BY <2>2, <2>3, <2>4
<1> QED BY <1>1, TypeInit, TypeStep, UsingInit, UsingStep, TaintInit, TaintStep, PaidInit, PaidStep,
           PTL DEF Spec, RetriesMaskFaults
=============================================================================
