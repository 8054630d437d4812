----------------------------- MODULE FileReads -----------------------------
(***************************************************************************)
(* What a handle opened for reading promises to the kernel                 *)
(* (FileHandleReader.go:41), whatever it buffers, seeks, reopens or reads  *)
(* again: a read that succeeds returns the bytes of the file from the      *)
(* offset it was asked for, all of them but for the end of the file; a     *)
(* read fails only if HDFS has failed.                                     *)
(*                                                                         *)
(* The file may grow.  A handle need not see that: the end it answers with *)
(* is the end of the file at some time since.  A byte of the file is       *)
(* represented by its offset.                                              *)
(***************************************************************************)
EXTENDS Integers

CONSTANTS Requests, \* the reads asked for: [offset : Nat, size : Nat]
          Lengths,  \* the lengths the file may have
          None      \* no read is under way

VARIABLES lengths,  \* the lengths the file has had
          troubled, \* HDFS has failed
          request,  \* the read under way, or None
          answer    \* the answer to the last read, while there is no other

vars == <<lengths, troubled, request, answer>>

Failed == [ok |-> FALSE]

\* The bytes that a file of length n has for request r
BytesOf(r, n) == {i \in r.offset .. (r.offset + r.size - 1) : i < n}
Bytes(r, n) == [i \in {j - r.offset + 1 : j \in BytesOf(r, n)} |-> r.offset + i - 1]
Answer(r, n) == [ok |-> TRUE, data |-> Bytes(r, n)]

Init ==
  /\ lengths \in {{n} : n \in Lengths}
  /\ troubled = FALSE /\ request = None /\ answer = Failed

Grow == \E n \in Lengths : lengths' = lengths \cup {n} /\ UNCHANGED <<troubled, request, answer>>

Trouble == troubled' = TRUE /\ UNCHANGED <<lengths, request, answer>>

Read(r) ==
  /\ request = None /\ request' = r /\ answer' = Failed
  /\ UNCHANGED <<lengths, troubled>>

Return ==
  /\ request # None /\ request' = None
  /\ \/ \E n \in lengths : answer' = Answer(request, n) /\ UNCHANGED troubled
     \/ troubled' /\ answer' = Failed
  /\ UNCHANGED lengths

Next == Grow \/ Trouble \/ Return \/ \E r \in Requests : Read(r)

Spec == Init /\ [][Next]_vars
=============================================================================
