-------------------------- MODULE FileHandleReader --------------------------
(***************************************************************************)
(* Reading through a handle: FileHandle.Read, FileHandleReader with its    *)
(* two FileFragments, and below them FaultTolerantHdfsReader, which opens  *)
(* the file again when a read fails, over an HdfsReader.                   *)
(*                                                                         *)
(* The handle's Mutex serializes its reads, so there is one at a time;     *)
(* what can happen in between is that HDFS fails and that the file grows.  *)
(* A byte of the file is represented by its offset.                        *)
(***************************************************************************)
EXTENDS Integers, Sequences

CONSTANTS Requests,    \* the reads asked for: [offset : Nat, size : Nat]
          Lengths,     \* the lengths of the file, which grows from the least
          BLOCKSIZE,   \* FileHandleReader.go:66
          MaxAttempts, \* RetryPolicy.MaxAttempts
          MaxFaults,   \* bound on the failures of HDFS
          None         \* nil

ASSUME RequestsAssumption == Requests \subseteq [offset : Nat, size : Nat \ {0}]
ASSUME BoundsAssumption ==
  /\ Lengths \subseteq Nat /\ \E n \in Lengths : \A m \in Lengths : n <= m
  /\ BLOCKSIZE \in Nat \ {0} /\ MaxAttempts \in Nat \ {0} /\ MaxFaults \in Nat
ASSUME NoneAssumption == None \notin Requests

VARIABLES
  length,   \* HDFS: the length of the file
  streams,  \* HDFS: the number of streams this handle has open
  faults,   \* failures so far
  enabled,  \* FileHandle.Reader # nil
  Offset, Buffer1, Buffer2,  \* FileHandleReader
  ft,       \* FaultTolerantHdfsReader: Impl (nil if not open) and Offset
  pc,
  request, data,  \* the read under way, and what it has read so far
  fill,     \* ReadFromBackend: minBytesToRead, maxBytesToRead; attempt of FT.Read
  lengths, answer \* history: the lengths the file has had; the last answer

hdfs   == <<length, streams, faults>>
reader == <<enabled, Offset, Buffer1, Buffer2, ft>>
ghosts == <<lengths, answer>>
vars   == <<hdfs, reader, pc, request, data, fill, ghosts>>

\* The abstract handle: lengths, request and answer are its variables.
Abstract == INSTANCE FileReads WITH troubled <- faults > 0

-----------------------------------------------------------------------------
Fragment(o, d) == [Offset |-> o, Data |-> d]
Closed == [open |-> FALSE, pos |-> 0, size |-> 0]
\* A stream knows the length that the file had when it was opened.
Opened(pos, size) == [open |-> TRUE, pos |-> pos, size |-> size]
NoFill == [min |-> 0, max |-> 0, attempt |-> 1]

Init ==
  /\ length \in Lengths /\ \A n \in Lengths : length <= n
  /\ streams = 0 /\ faults = 0
  /\ enabled = FALSE
  /\ Offset = 0 /\ Buffer1 = Fragment(0, <<>>) /\ Buffer2 = Fragment(0, <<>>)
  /\ ft = [Impl |-> Closed, Offset |-> 0]
  /\ pc = "idle" /\ request = None /\ data = <<>> /\ fill = NoFill
  /\ lengths = {length} /\ answer = Abstract!Failed

Succeeds == UNCHANGED faults
Fails    == faults < MaxFaults /\ faults' = faults + 1

\* Another client of HDFS appends to the file.
Grow ==
  /\ length' \in {n \in Lengths : n > length} /\ lengths' = lengths \cup {length'}
  /\ UNCHANGED <<streams, faults, reader, pc, request, data, fill, answer>>

\* The request is answered, with data d or an error.
Answer(a) ==
  /\ pc' = "idle" /\ request' = None /\ answer' = a
  /\ data' = <<>> /\ fill' = NoFill
  /\ UNCHANGED lengths
Success(d) == [ok |-> TRUE, data |-> d]

-----------------------------------------------------------------------------
(* FileHandle.Read, FileHandle.EnableRead *)

Read(r) ==
  /\ pc = "idle" /\ request' = r /\ answer' = Abstract!Failed
  /\ pc' = IF enabled THEN "partial" ELSE "enable"
  /\ UNCHANGED <<hdfs, reader, data, fill, lengths>>

\* Mutant: one attempt too many.
ShouldRetryOnceMore(attempt) == attempt <= MaxAttempts

\* RetryPolicy.ShouldRetry, but for its time limit, which can run out any time
ShouldRetry(attempt) == attempt < MaxAttempts

Retry  == fill' = [fill EXCEPT !.attempt = @ + 1] /\ UNCHANGED <<pc, request, data, ghosts>>

\* An attempt failed: another one, or the request is answered with the error.
RetryOrFail ==
  \/ ShouldRetry(fill.attempt) /\ Retry
  \/ Answer(Abstract!Failed)

\* NewFileHandleReader: FaultTolerantHdfsAccessor.OpenRead
EnableRead ==
  /\ pc = "enable"
  /\ \/ /\ Succeeds /\ streams' = streams + 1
        /\ enabled' = TRUE /\ ft' = [Impl |-> Opened(0, length), Offset |-> 0]
        /\ pc' = "partial" /\ fill' = NoFill /\ UNCHANGED <<request, data, ghosts>>
     \/ Fails /\ RetryOrFail /\ UNCHANGED <<streams, enabled, ft>>
  /\ UNCHANGED <<length, Offset, Buffer1, Buffer2>>

-----------------------------------------------------------------------------
(* FileHandleReader.ReadPartial, called until the request is satisfied *)

FileOffset == request.offset + Len(data)
Missing    == request.size - Len(data)

\* Mutant: off by one at the end of the fragment.
HasOrEnds(b, o) == b.Offset <= o /\ o <= b.Offset + Len(b.Data)

\* FileFragment.ReadFromBuffer finds the byte at offset o.
Has(b, o) == b.Offset <= o /\ o < b.Offset + Len(b.Data)

\* What it copies: as much as is missing, as far as the fragment goes
FromBuffer(b, o, n) ==
  LET start == o - b.Offset IN
  SubSeq(b.Data, start + 1, IF start + n <= Len(b.Data) THEN start + n ELSE Len(b.Data))

\* ReadPartial returns the bytes of fragment b; Read goes on or answers.
Satisfy(b) ==
  LET got == data \o FromBuffer(b, FileOffset, Missing) IN
  IF Len(got) = request.size
  THEN Answer(Success(got))
  ELSE data' = got /\ pc' = "partial" /\ fill' = NoFill /\ UNCHANGED <<request, ghosts>>

ReadFromBuffer ==
  /\ pc = "partial"
  /\ \/ Has(Buffer1, FileOffset) /\ Satisfy(Buffer1)
     \/ ~Has(Buffer1, FileOffset) /\ Has(Buffer2, FileOffset) /\ Satisfy(Buffer2)
  /\ UNCHANGED <<hdfs, reader>>

\* The request reaches over a hole that is read rather than skipped.
OverHole(hole) == 0 <= hole /\ hole <= 2 * BLOCKSIZE

\* Mutant: the hole is not counted.
MinToReadNoHole(hole) == 1

\* The least and the most bytes that ReadFromBackend is to read
MinToRead(hole) == hole + 1
MaxToRead(hole) == ((Missing + hole + BLOCKSIZE - 1) \div BLOCKSIZE) * BLOCKSIZE

\* ReadFromBackend begins: the older fragment is filled from offset o.
StartFill(o, hole) ==
  /\ Buffer1' = Fragment(o, <<>>) /\ Buffer2' = Buffer1
  /\ fill' = [min |-> MinToRead(hole), max |-> MaxToRead(hole), attempt |-> 1]
  /\ pc' = "fill" /\ UNCHANGED <<request, data, ghosts>>

\* HdfsReader.Seek, which fails beyond the length the stream knows
SeekFails(o) == o > ft.Impl.size

\* Neither buffer has the byte: they are swapped, and the backend is at the
\* offset, or reads up to it, or seeks.  Seek's error is returned only if the
\* seek was a backward one; Offset is set in any case.  With Impl = nil, Seek
\* panics: the request fails, after the swap.
Miss ==
  LET hole == FileOffset - Offset IN
  /\ pc = "partial" /\ ~Has(Buffer1, FileOffset) /\ ~Has(Buffer2, FileOffset)
  /\ IF OverHole(hole)
     THEN StartFill(Offset, hole) /\ UNCHANGED <<Offset, ft>>
     ELSE IF ~ft.Impl.open \/ (SeekFails(FileOffset) /\ hole < 0)
     THEN /\ Buffer1' = Buffer2 /\ Buffer2' = Buffer1
          /\ Answer(Abstract!Failed)
          /\ UNCHANGED <<Offset, ft>>
     ELSE /\ StartFill(FileOffset, 0) /\ Offset' = FileOffset
          /\ ft' = IF SeekFails(FileOffset) THEN ft
                   ELSE [ft EXCEPT !.Impl.pos = FileOffset, !.Offset = FileOffset]
  /\ UNCHANGED <<hdfs, enabled>>

-----------------------------------------------------------------------------
(* FileFragment.ReadFromBackend: FaultTolerantHdfsReader.Read, called until  *)
(* minBytesToRead bytes are read                                             *)

\* Mutant: the reopened stream is left at its beginning.
ResumeAtStart == 0

\* The position that Read moves a reopened stream to
Resume == ft.Offset

\* HdfsAccessor.OpenRead and Seek, not retried on their own.  If the Seek fails
\* (the file does not reach as far) the error is returned at once.
Reopen ==
  /\ pc = "fill" /\ ~ft.Impl.open
  /\ \/ /\ Succeeds /\ Resume <= length
        /\ streams' = streams + 1 /\ ft' = [ft EXCEPT !.Impl = Opened(Resume, length)]
        /\ UNCHANGED <<pc, request, data, fill, ghosts>>
     \/ /\ IF Resume > length THEN Succeeds /\ Answer(Abstract!Failed) ELSE Fails /\ RetryOrFail
        /\ UNCHANGED <<streams, ft>>
  /\ UNCHANGED <<length, enabled, Offset, Buffer1, Buffer2>>

\* A Read of the backend returns n bytes: ReadFromBackend goes on, or
\* ReadPartial returns what the fragment has.
ReadSome(n) ==
  LET filled == Fragment(Buffer1.Offset,
                         Buffer1.Data \o [i \in 1..n |-> ft.Impl.pos + i - 1]) IN
  /\ Offset' = Offset + n /\ Buffer1' = filled
  /\ ft' = [ft EXCEPT !.Impl.pos = @ + n, !.Offset = @ + n]
  /\ IF Len(filled.Data) < fill.min
     THEN fill' = [fill EXCEPT !.attempt = 1] /\ UNCHANGED <<pc, request, data, ghosts>>
     ELSE IF Has(filled, FileOffset) THEN Satisfy(filled)
     ELSE Answer(Abstract!Failed)   \* INTERNAL ERROR: FileFragment invariant

\* Mutant: the failed stream is not closed.
ForgetImpl == UNCHANGED streams

\* FaultTolerantHdfsReader.Close, after a failure that is to be retried
CloseImpl == streams' = streams - 1

\* A backend Read that succeeds returns at least one byte, maybe fewer than
\* asked for; one that fails does not move the stream.
ReadBackend ==
  LET left == ft.Impl.size - ft.Impl.pos IN
  /\ pc = "fill" /\ ft.Impl.open
  /\ \/ /\ \E n \in 1..(fill.max - Len(Buffer1.Data)) : n <= left /\ ReadSome(n)
        /\ Succeeds /\ UNCHANGED <<streams>>
     \/ /\ left <= 0 /\ Answer(Success(data))   \* EOF
        /\ Succeeds /\ UNCHANGED <<streams, Offset, Buffer1, ft>>
     \/ /\ Fails /\ ShouldRetry(fill.attempt) /\ Retry
        /\ CloseImpl /\ ft' = [ft EXCEPT !.Impl = Closed]
        /\ UNCHANGED <<Offset, Buffer1>>
     \/ /\ Fails /\ Answer(Abstract!Failed)
        /\ UNCHANGED <<streams, Offset, Buffer1, ft>>
  /\ UNCHANGED <<length, enabled, Buffer2>>

-----------------------------------------------------------------------------
\* FileHandle.Release, FileHandleReader.Close.  With Impl = nil, Close panics.
Release ==
  /\ pc = "idle" /\ enabled /\ pc' = "released"
  /\ IF ft.Impl.open
     THEN streams' = streams - 1 /\ enabled' = FALSE /\ ft' = [ft EXCEPT !.Impl = Closed]
     ELSE UNCHANGED <<streams, enabled, ft>>
  /\ UNCHANGED <<length, faults, Offset, Buffer1, Buffer2, request, data, fill, ghosts>>

Step == EnableRead \/ ReadFromBuffer \/ Miss \/ Reopen \/ ReadBackend
Next == Grow \/ Release \/ Step \/ \E r \in Requests : Read(r)

\* Go's scheduler runs the goroutine that serves the request, and every call of
\* HDFS ends.
Spec == Init /\ [][Next]_vars
FairSpec == Spec /\ WF_vars(Step)

-----------------------------------------------------------------------------
(* Properties *)
Fragments == [Offset : Nat, Data : Seq(Nat)]

\* The variables stay in their types; no retry loop makes more than MaxAttempts
\* attempts.
TypeOK ==
  /\ length \in Lengths /\ streams \in Nat /\ faults \in 0..MaxFaults
  /\ enabled \in BOOLEAN /\ Offset \in Nat /\ Buffer1 \in Fragments /\ Buffer2 \in Fragments
  /\ ft \in [Impl : [open : BOOLEAN, pos : Nat, size : Lengths \cup {0}], Offset : Nat]
  /\ pc \in {"idle", "enable", "partial", "fill", "released"}
  /\ request \in Requests \cup {None} /\ (request = None <=> pc \in {"idle", "released"})
  /\ data \in Seq(Nat) /\ fill \in [min : Nat, max : Nat, attempt : 1..MaxAttempts]
  /\ lengths \subseteq Lengths /\ length \in lengths

\* Whatever is read over, sought, retried and reopened, the fragments hold the
\* bytes of the file at their offsets, also while one is being filled and after
\* a failure (FileFragment.go:13-35).
IsTrue(b) == \A i \in DOMAIN b.Data : b.Data[i] = b.Offset + i - 1
BuffersTrue == IsTrue(Buffer1) /\ IsTrue(Buffer2)

\* A handle has at most one stream open, whatever failed, and none after
\* Release, that of a handle whose stream could not be reopened included
\* (FaultTolerantHdfsReader.go:53, FileHandle.go:115).
NoStreamLeak ==
  /\ streams = IF ft.Impl.open THEN 1 ELSE 0
  /\ pc = "released" => streams = 0

\* The kernel sees the bytes of the file, or an error if HDFS has failed.
ImplementsFileReads == Abstract!Spec

\* Every read returns: each call of ReadPartial brings the request forward, the
\* hole is crossed, the retries end (FileHandleReader.go:48, FileFragment.go:25,
\* FaultTolerantHdfsReader.go:23).
ReadReturns == request # None ~> request = None

\* FileHandleReader.go:19: Offset is the "current offset for backend reader".
OffsetIsCurrent == ft.Impl.open => Offset = ft.Impl.pos
=============================================================================
