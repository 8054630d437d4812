--------------------------- MODULE HdfsConnection ---------------------------
(***************************************************************************)
(* The connection to the name node and the operations on it:               *)
(* hdfsAccessorImpl (HdfsAccessor.go) keeps one client, connects when it   *)
(* has none, and serializes the operations of all goroutines;              *)
(* FaultTolerantHdfsAccessor (FaultTolerantHdfsAccessor.go) retries those  *)
(* that fail, as RetryPolicy (RetryPolicy.go) allows, and has the client   *)
(* closed before each retry.                                               *)
(*                                                                         *)
(* What the operations do to HDFS is left out: what matters here is which  *)
(* connection they use and how they end.                                   *)
(***************************************************************************)
EXTENDS Naturals, FiniteSets

CONSTANTS Threads,     \* goroutines that use the accessor
          Clients,     \* connections to the name node
          MaxAttempts, \* RetryPolicy.MaxAttempts
          MaxFaults,   \* bound on connection and server failures
          None         \* nil

ASSUME BoundsAssumption == MaxAttempts \in Nat \ {0} /\ MaxFaults \in Nat
ASSUME NoneAssumption   == None \notin Threads \cup Clients

VARIABLES
  started,  \* main has got past EnsureConnected
  client,   \* MetadataClient
  conn,     \* state of the connections: "none" (not there), "good", "bad"
  lock,     \* MetadataClientMutex: the goroutine that holds it, or None
  limit,    \* RetryPolicy.MaxAttempts, which the signal handler sets to 0
  faults,   \* failures so far
  pc, call  \* the step each goroutine is at, and the operation it performs

vars == <<started, client, conn, lock, limit, faults, pc, call>>

\* What distinguishes the operations: "query" is ReadDir, Stat, StatFs; "update"
\* Mkdir, Remove, Rename, Chmod, Chown; "open" OpenRead; "create" CreateFile.
Kinds == {"query", "update", "open", "create"}
\* Those whose failure makes hdfsAccessorImpl forget its client
DropsClient(kind) == kind = "query"
\* Those that FaultTolerantHdfsAccessor retries
IsRetried(kind) == kind # "create"

\* The error of the last attempt: none, one that IsSuccessOrBenignError knows
\* (no such file, permission, exists), or another.
Errors == {"none", "benign", "other"}

\* An operation: RetryPolicy's Op, and the client of its last attempt
Operation(kind) == [kind |-> kind, attempt |-> 1, expired |-> FALSE,
                    err |-> "none", on |-> None]
Idle == Operation("none")

Init ==
  /\ started = FALSE
  /\ client = None /\ conn = [c \in Clients |-> "none"]
  /\ lock = None
  /\ limit = MaxAttempts
  /\ faults = 0
  /\ pc = [t \in Threads |-> "idle"] /\ call = [t \in Threads |-> Idle]

-----------------------------------------------------------------------------
Goto(t, p) == pc' = [pc EXCEPT ![t] = p]
Fails == faults < MaxFaults /\ faults' = faults + 1

\* ConnectMetadataClient: c becomes the client once the name node has answered
\* a first Stat.  Which of the unused clients it is does not matter.
Connect(c) ==
  /\ conn[c] = "none" /\ c = CHOOSE d \in Clients : conn[d] = "none"
  /\ conn' = [conn EXCEPT ![c] = "good"] /\ client' = c

\* main: EnsureConnected, retried; or not called (-lazy)
Startup ==
  /\ ~started
  /\ \/ started' = TRUE /\ UNCHANGED <<client, conn, faults>>
     \/ \E c \in Clients : Connect(c) /\ started' = TRUE /\ UNCHANGED faults
     \/ Fails /\ UNCHANGED <<started, client, conn>>
  /\ UNCHANGED <<lock, limit, pc, call>>

\* The signal handler: "stop useless retries"
Signal ==
  /\ started /\ limit' = 0
  /\ UNCHANGED <<started, client, conn, lock, faults, pc, call>>

\* The connection breaks, whoever uses it.
Break(c) ==
  /\ conn[c] = "good" /\ Fails
  /\ conn' = [conn EXCEPT ![c] = "bad"]
  /\ UNCHANGED <<started, client, lock, limit, pc, call>>

\* The time limit for retries passes.
Expire(t) ==
  /\ pc[t] # "idle"
  /\ call' = [call EXCEPT ![t].expired = TRUE]
  /\ UNCHANGED <<started, client, conn, lock, limit, faults, pc>>

-----------------------------------------------------------------------------
Start(t, kind) ==
  /\ started /\ pc[t] = "idle"
  /\ Goto(t, "begin") /\ call' = [call EXCEPT ![t] = Operation(kind)]
  /\ UNCHANGED <<started, client, conn, lock, limit, faults>>

\* The attempt by t ends: the lock is released, the error judged by the caller.
Ended(t, e) ==
  /\ Goto(t, "ended")
  /\ call' = [call EXCEPT ![t].err = e]

\* Mutant: the lock is not released when connecting fails.
KeepLock(t) == lock' = t

\* Early return when connecting fails: the deferred Unlock runs.
Unlocked(t) == UNCHANGED lock

\* An operation of hdfsAccessorImpl: takes the lock, connects if there is no
\* client.
Begin(t) ==
  /\ pc[t] = "begin" /\ lock = None
  /\ \/ /\ client # None
        /\ lock' = t /\ Goto(t, "rpc") /\ call' = [call EXCEPT ![t].on = client]
        /\ UNCHANGED <<client, conn, faults>>
     \/ /\ client = None
        /\ \E c \in Clients : Connect(c) /\ call' = [call EXCEPT ![t].on = c]
        /\ lock' = t /\ Goto(t, "rpc") /\ UNCHANGED faults
     \/ /\ client = None
        /\ Fails /\ Unlocked(t) /\ UNCHANGED <<client, conn>>
        /\ Goto(t, "ended") /\ call' = [call EXCEPT ![t].err = "other", ![t].on = None]
  /\ UNCHANGED <<started, limit>>

\* Mutant: benign errors count as failures.
KeepsAfterSuccessOnly(kind, e) == e = "none" \/ ~DropsClient(kind)

\* The client is kept after an attempt with error e of an operation of this kind
Keeps(kind, e) == e \in {"none", "benign"} \/ ~DropsClient(kind)

\* ... and calls the client.  A bad connection fails; on a good one the call
\* succeeds or fails with a benign error, or the server fails it.
Rpc(t) ==
  LET good == conn[call[t].on] = "good" IN
  /\ pc[t] = "rpc"
  /\ \E e \in Errors :
       /\ IF e = "other" /\ good THEN Fails ELSE UNCHANGED faults
       /\ ~good => e = "other"
       /\ Ended(t, e)
       /\ client' = IF Keeps(call[t].kind, e) THEN client ELSE None
  /\ lock' = None
  /\ UNCHANGED <<started, conn, limit>>

\* Mutant first: off by one.
\* IsSuccessOrBenignError(err) || !op.ShouldRetry(...)
ShouldRetryOnceMore(op) == op.attempt <= limit /\ ~op.expired
ShouldRetry(op) == op.attempt < limit /\ ~op.expired
GivesUp(op) == op.err \in {"none", "benign"} \/ ~IsRetried(op.kind) \/ ~ShouldRetry(op)

\* The operation returns what its last attempt returned.
Answer(t) ==
  /\ pc[t] = "ended" /\ GivesUp(call[t])
  /\ Goto(t, "idle") /\ call' = [call EXCEPT ![t] = Idle]
  /\ UNCHANGED <<started, client, conn, lock, limit, faults>>

\* ShouldRetry sleeps between this step and the next.
Retry(t) ==
  /\ pc[t] = "ended" /\ ~GivesUp(call[t])
  /\ call' = [call EXCEPT ![t].attempt = @ + 1]
  /\ Goto(t, "close")
  /\ UNCHANGED <<started, client, conn, lock, limit, faults>>

\* Mutant: Close does not take the lock.
NoLock(t) == TRUE

\* The lock for Close
LockFree(t) == lock = None

\* Mutant: the client is not closed before the retry.
RetryOnly(t) ==
  /\ pc[t] = "close" /\ Goto(t, "begin")
  /\ UNCHANGED <<started, client, conn, lock, limit, faults, call>>

\* Impl.Close: closes the client there is now, if any.
CloseClient(t) ==
  /\ pc[t] = "close" /\ LockFree(t)
  /\ conn' = IF client = None THEN conn ELSE [conn EXCEPT ![client] = "none"]
  /\ client' = None
  /\ Goto(t, "begin")
  /\ UNCHANGED <<started, lock, limit, faults, call>>

-----------------------------------------------------------------------------
Next ==
  \/ Startup \/ Signal
  \/ \E c \in Clients : Break(c)
  \/ \E t \in Threads :
       \/ \E kind \in Kinds : Start(t, kind)
       \/ Expire(t) \/ Begin(t) \/ Rpc(t) \/ Answer(t) \/ Retry(t) \/ CloseClient(t)

\* Go's scheduler runs every goroutine, sync.Mutex is fair to those that wait
\* long, and the sleep between attempts is finite.
Fairness ==
  \A t \in Threads : /\ SF_vars(Begin(t)) /\ SF_vars(CloseClient(t))
                     /\ WF_vars(Rpc(t)) /\ WF_vars(Answer(t) \/ Retry(t))

Spec == Init /\ [][Next]_vars
FairSpec == Spec /\ Fairness

-----------------------------------------------------------------------------
(* Properties *)

Operations == [kind : Kinds \cup {"none"}, attempt : 1..MaxAttempts, expired : BOOLEAN,
               err : Errors, on : Clients \cup {None}]

\* The variables stay in their types; no operation makes more than MaxAttempts
\* attempts, also if the signal handler changes the limit under it
\* (RetryPolicy.go:64, main.go:110).
TypeOK ==
  /\ started \in BOOLEAN
  /\ client \in Clients \cup {None}
  /\ conn \in [Clients -> {"none", "good", "bad"}]
  /\ lock \in Threads \cup {None}
  /\ limit \in {0, MaxAttempts} /\ faults \in 0..MaxFaults
  /\ pc \in [Threads -> {"idle", "begin", "rpc", "ended", "close"}]
  /\ call \in [Threads -> Operations]

\* A client is used by one goroutine at a time and is not closed while one uses
\* it, although any goroutine that retries closes whatever client there is
\* (HdfsAccessor.go:41, :362-371).
NoUseAfterClose ==
  \A t \in Threads : pc[t] = "rpc" =>
    /\ conn[call[t].on] # "none"
    /\ \A u \in Threads \ {t} : pc[u] # "rpc"

\* Clients that were forgotten without being closed: each took a failure, none
\* is lost to a benign error or to two goroutines that connect at the same time
\* (HdfsAccessor.go:168-170, :197-199, :221).
Abandoned == {c \in Clients : conn[c] # "none"} \ {client}
LeaksOnlyByFaults == Cardinality(Abandoned) <= faults

\* Retries mask failures: an operation that is retried fails with an error that
\* is not benign only after as many failures as it may make attempts.  One
\* broken connection, whoever found it first, costs it one attempt: the next is
\* on a new connection (FaultTolerantHdfsAccessor.go:47-48), unless the time
\* limit has passed or the process is shutting down.
RetriesMaskFaults ==
  [][\A t \in Threads :
       (/\ pc[t] = "ended" /\ pc'[t] = "idle" /\ call[t].err = "other"
        /\ IsRetried(call[t].kind) /\ ~call[t].expired /\ limit # 0)
       => faults >= MaxAttempts]_vars

\* Every operation returns.
OperationReturns == \A t \in Threads : pc[t] # "idle" ~> pc[t] = "idle"
=============================================================================
