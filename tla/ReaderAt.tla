------------------------------ MODULE ReaderAt ------------------------------
(***************************************************************************)
(* What RandomAccessReader (RandomAccessReader.go:11-19) promises to the   *)
(* goroutines that share it, whatever it does inside: it is an io.ReaderAt *)
(* and an io.Closer.  A ReadAt that succeeds returns the bytes of the file *)
(* at the offset it was asked for, whatever the other goroutines read at   *)
(* the same time; a ReadAt called after Close returns an error.            *)
(*                                                                         *)
(* A byte of the file is represented by its offset.                        *)
(***************************************************************************)
EXTENDS Integers

CONSTANTS Threads,  \* goroutines that call the reader
          Requests  \* the reads they ask for: [offset : Nat, size : Nat]

VARIABLES closed,  \* Close was called
          calls,   \* per goroutine: the read it is waiting for, if any
          result   \* per goroutine: the answer to its last read, while it makes no other

vars == <<closed, calls, result>>

NoCall == [pending |-> FALSE]
Call(r, late) == [pending |-> TRUE, request |-> r, late |-> late]

Failed   == [ok |-> FALSE]
Bytes(r) == [i \in 1..r.size |-> r.offset + i - 1]
Answer(r) == [ok |-> TRUE, data |-> Bytes(r)]

Init ==
  /\ closed = FALSE
  /\ calls = [t \in Threads |-> NoCall]
  /\ result = [t \in Threads |-> Failed]

ReadAt(t, r) ==
  /\ ~calls[t].pending
  /\ calls' = [calls EXCEPT ![t] = Call(r, closed)]
  /\ result' = [result EXCEPT ![t] = Failed]
  /\ UNCHANGED closed

Return(t) ==
  /\ calls[t].pending
  /\ calls' = [calls EXCEPT ![t] = NoCall]
  /\ \/ result' = [result EXCEPT ![t] = Failed]
     \/ ~calls[t].late /\ result' = [result EXCEPT ![t] = Answer(calls[t].request)]
  /\ UNCHANGED closed

Close == closed' = TRUE /\ UNCHANGED <<calls, result>>

Next ==
  \/ Close
  \/ \E t \in Threads : Return(t) \/ \E r \in Requests : ReadAt(t, r)

Spec == Init /\ [][Next]_vars
=============================================================================
