----------------------- MODULE FileHandleReaderProofs -----------------------
(***************************************************************************)
(* Theorems about reading through a handle, for any requests, lengths of   *)
(* the file, size of the blocks, attempts and failures.                    *)
(*                                                                         *)
(* The code ignores the error of a forward Seek, after which the buffers   *)
(* no longer hold what they should.  What is proved of the bytes is        *)
(* therefore proved of the behaviours in which no such error is ignored,   *)
(* and, at the end, that there is none unless a read begins far beyond a   *)
(* length that the file has had.                                           *)
(***************************************************************************)
EXTENDS FileHandleReader, SequenceTheorems, TLAPS

-----------------------------------------------------------------------------
(* The inductive invariants *)

\* A request that is served has bytes left to read.
Serving ==
  /\ request = None => data = <<>>
  /\ request # None => Len(data) < request.size

\* The stream belongs to the handle: there is none before it is enabled.
Streaming ==
  /\ NoStreamLeak
  /\ pc = "enable" => ~enabled
  /\ pc \in {"partial", "fill"} => enabled
  /\ ~enabled => ~ft.Impl.open

Typed == TypeOK /\ Serving /\ Streaming

\* A Seek further forward than over a hole is to a position that the stream does
\* not know; its error is ignored (FileHandleReader.go:94-101).
SeekIgnored == ft.Impl.open /\ SeekFails(FileOffset) /\ FileOffset - Offset > 2 * BLOCKSIZE
HeedsSeek   == Miss => ~SeekIgnored
SeeksHeeded == [][HeedsSeek]_vars

\* The stream, and the wrapper that will reopen it, are at Offset.
Positions ==
  /\ ft.Offset = Offset
  /\ ft.Impl.open => ft.Impl.pos = Offset /\ Offset <= ft.Impl.size
  /\ ~enabled /\ pc # "released" => Offset = 0

\* The fragment being filled reaches up to the stream, and the byte that is
\* wanted is the last that it must get.
Filling == pc = "fill" =>
  /\ Buffer1.Offset + Len(Buffer1.Data) = Offset
  /\ Buffer1.Offset + fill.min = FileOffset + 1
  /\ Len(Buffer1.Data) < fill.min

\* The file grows; a stream knows one of its lengths.
Growing ==
  /\ \A n \in lengths : n <= length
  /\ ft.Impl.open => ft.Impl.size \in lengths
  /\ enabled /\ ~ft.Impl.open /\ pc # "released" => faults > 0

\* What is buffered, or read for the request, is true and within the length that
\* the stream knows, or the next one will know.
Known == IF ft.Impl.open THEN ft.Impl.size ELSE length
Holds(b, k) == IsTrue(b) /\ (b.Data = <<>> \/ b.Offset + Len(b.Data) <= k)
BytesRight ==
  /\ Holds(Buffer1, Known) /\ Holds(Buffer2, Known)
  /\ request # None => Holds(Fragment(request.offset, data), Known)

Tracking == Positions /\ Filling /\ Growing /\ BytesRight
Inv == Typed /\ Tracking

-----------------------------------------------------------------------------
(* Sequences of bytes *)

\* What ReadFromBuffer copies: a byte at least, no more than wanted, from the
\* bytes that the fragment has.
LEMMA CopiedBytes ==
  ASSUME NEW b \in Fragments, NEW o \in Nat, NEW n \in Nat \ {0}, Has(b, o)
  PROVE  LET f == FromBuffer(b, o, n) IN
         /\ f \in Seq(Nat) /\ Len(f) \in Nat \ {0} /\ Len(f) <= n
         /\ o + Len(f) <= b.Offset + Len(b.Data)
         /\ IsTrue(b) => \A i \in 1..Len(f) : f[i] = o + i - 1
<1> DEFINE start == o - b.Offset
           end   == IF start + n <= Len(b.Data) THEN start + n ELSE Len(b.Data)
           f     == SubSeq(b.Data, start + 1, end)
<1>1. b.Offset \in Nat /\ b.Data \in Seq(Nat) /\ b.Offset <= o /\ o < b.Offset + Len(b.Data)
  BY DEF Fragments, Has
<1>2. Len(b.Data) \in Nat /\ DOMAIN b.Data = 1..Len(b.Data) /\ \A i \in 1..Len(b.Data) : b.Data[i] \in Nat
  BY <1>1, LenProperties
<1>3. /\ start \in Nat /\ end \in Nat /\ start < end /\ end <= Len(b.Data) /\ end <= start + n
      /\ o = b.Offset + start
  BY <1>1, <1>2
<1> HIDE DEF start, end
<1>4. /\ f \in Seq(Nat) /\ Len(f) = end - start
      /\ \A i \in 1..end - start : f[i] = b.Data[start + i]
  <2>1. start + 1 \in Int /\ end \in Int /\ \A i \in start + 1..end : b.Data[i] \in Nat
    BY <1>2, <1>3
  <2>2. /\ f \in Seq(Nat) /\ Len(f) = IF start + 1 <= end THEN end - (start + 1) + 1 ELSE 0
        /\ \A i \in 1..end - (start + 1) + 1 : f[i] = b.Data[start + 1 + i - 1]
    BY <2>1, SubSeqProperties
  <2> QED BY <2>2, <1>3
<1>5. Len(f) \in Nat \ {0} /\ Len(f) <= n /\ o + Len(f) <= b.Offset + Len(b.Data)
  <2>1. Len(f) = end - start
    BY <1>4
  <2> HIDE DEF f
  <2>2. b.Offset \in Nat /\ Len(b.Data) \in Nat
    BY <1>1, <1>2
  <2> QED BY ONLY <1>3, <2>1, <2>2, n \in Nat
<1>6. IsTrue(b) => \A i \in 1..Len(f) : f[i] = o + i - 1
  <2> SUFFICES ASSUME IsTrue(b), NEW i \in 1..Len(f)
               PROVE  f[i] = o + i - 1
    OBVIOUS
  <2>0. i \in 1..end - start /\ Len(b.Data) \in Nat
    BY <1>2, <1>4
  <2> HIDE DEF f
  <2>1. f[i] = b.Data[start + i] /\ start + i \in 1..Len(b.Data)
    <3>1. \A j \in 1..end - start : f[j] = b.Data[start + j]
      BY <1>4 DEF f
    <3>2. start + i \in 1..Len(b.Data)
      BY ONLY <1>3, <2>0
    <3> QED BY ONLY <2>0, <3>1, <3>2
  <2>2. b.Data[start + i] = b.Offset + (start + i) - 1
    BY <1>2, <2>1 DEF IsTrue
  <2>3. b.Offset \in Nat /\ i \in Nat
    BY <1>1, <1>5
  <2> QED BY ONLY <1>3, <2>1, <2>2, <2>3
<1> HIDE DEF f
<1>7. f = FromBuffer(b, o, n)
  BY DEF f, start, end, FromBuffer
<1> QED BY <1>4, <1>5, <1>6, <1>7

\* Bytes that follow on others
LEMMA JoinedBytes ==
  ASSUME NEW s \in Seq(Nat), NEW f \in Seq(Nat), NEW o \in Nat
  PROVE  /\ s \o f \in Seq(Nat) /\ Len(s \o f) = Len(s) + Len(f)
         /\ Len(s) \in Nat /\ Len(f) \in Nat
         /\ /\ \A i \in 1..Len(s) : s[i] = o + i - 1
            /\ \A i \in 1..Len(f) : f[i] = o + Len(s) + i - 1
            => \A i \in 1..Len(s \o f) : (s \o f)[i] = o + i - 1
<1>1. /\ s \o f \in Seq(Nat) /\ Len(s \o f) = Len(s) + Len(f) /\ Len(s) \in Nat /\ Len(f) \in Nat
      /\ \A i \in 1..Len(s) + Len(f) : (s \o f)[i] = IF i <= Len(s) THEN s[i] ELSE f[i - Len(s)]
  BY ConcatProperties, LenProperties
<1>2. ASSUME \A i \in 1..Len(s) : s[i] = o + i - 1, \A i \in 1..Len(f) : f[i] = o + Len(s) + i - 1,
             NEW i \in 1..Len(s \o f)
      PROVE  (s \o f)[i] = o + i - 1
  <2>1. CASE i <= Len(s)
    BY <1>1, <1>2, <2>1
  <2>2. CASE i > Len(s)
    <3>1. i - Len(s) \in 1..Len(f) /\ (s \o f)[i] = f[i - Len(s)]
      BY <1>1, <2>2
    <3>2. f[i - Len(s)] = o + Len(s) + (i - Len(s)) - 1
      BY <1>2, <3>1
    <3> QED BY <1>1, <3>1, <3>2
  <2> QED BY <1>1, <2>1, <2>2
<1> QED BY <1>1, <1>2

\* The n bytes that the backend reads from position p on
LEMMA BackendBytes ==
  ASSUME NEW p \in Nat, NEW n \in Nat
  PROVE  LET f == [i \in 1..n |-> p + i - 1] IN
         f \in Seq(Nat) /\ Len(f) = n /\ \A i \in 1..n : f[i] = p + i - 1
<1> DEFINE f == [i \in 1..n |-> p + i - 1]
<1>1. f \in [1..n -> Nat] /\ \A i \in 1..n : f[i] = p + i - 1
  OBVIOUS
<1>2. f \in Seq(Nat) /\ Len(f) = n
  BY <1>1, SeqDef, LenProperties
<1> QED BY <1>1, <1>2

\* The bytes of a fragment, counted by its length
LEMMA TrueBytes ==
  ASSUME NEW b \in Fragments
  PROVE  /\ b.Offset \in Nat /\ b.Data \in Seq(Nat) /\ Len(b.Data) \in Nat
         /\ IsTrue(b) <=> \A i \in 1..Len(b.Data) : b.Data[i] = b.Offset + i - 1
<1>1. b.Offset \in Nat /\ b.Data \in Seq(Nat)
  BY DEF Fragments
<1>2. Len(b.Data) \in Nat /\ DOMAIN b.Data = 1..Len(b.Data)
  BY <1>1, LenProperties
<1> QED BY <1>1, <1>2 DEF IsTrue

-----------------------------------------------------------------------------
(* Type correctness, and the stream *)

\* The constants, and what a request begins with
LEMMA Bounds ==
  /\ BLOCKSIZE \in Nat \ {0} /\ MaxAttempts \in Nat \ {0} /\ MaxFaults \in Nat
  /\ \A n \in Lengths : n \in Nat
  /\ \A r \in Requests : r # None /\ r.offset \in Nat /\ r.size \in Nat \ {0}
  /\ <<>> \in Seq(Nat) /\ Len(<<>>) = 0 /\ DOMAIN <<>> = {}
<1>1. \A r \in Requests : r # None /\ r.offset \in Nat /\ r.size \in Nat \ {0}
  BY RequestsAssumption, NoneAssumption
<1>2. BLOCKSIZE \in Nat \ {0} /\ MaxAttempts \in Nat \ {0} /\ MaxFaults \in Nat
  BY BoundsAssumption
<1>3. \A n \in Lengths : n \in Nat
  BY BoundsAssumption
<1> QED BY <1>1, <1>2, <1>3, EmptySeq

\* The two halves of the type invariant: the reader with the file, and the
\* request that is served.
Streams == [open : BOOLEAN, pos : Nat, size : Lengths \cup {0}]
Readers == [Impl : Streams, Offset : Nat]
StoreTyped ==
  /\ length \in Lengths /\ streams \in Nat /\ faults \in 0..MaxFaults
  /\ enabled \in BOOLEAN /\ Offset \in Nat /\ Buffer1 \in Fragments /\ Buffer2 \in Fragments
  /\ ft \in Readers
  /\ lengths \subseteq Lengths /\ length \in lengths
Fills == [min : Nat, max : Nat, attempt : 1..MaxAttempts]
ServeTyped ==
  /\ pc \in {"idle", "enable", "partial", "fill", "released"}
  /\ request \in Requests \cup {None} /\ (request = None <=> pc \in {"idle", "released"})
  /\ data \in Seq(Nat) /\ fill \in Fills
  /\ Serving

\* A request begins without bytes read.
LEMMA NoFillTyped == NoFill \in Fills
BY Bounds DEF NoFill, Fills

\* The type invariant is that of the reader and that of the request.
LEMMA TypedParts == Typed <=> StoreTyped /\ ServeTyped /\ Streaming
BY DEF Typed, TypeOK, StoreTyped, ServeTyped, Fills, Streams, Readers

\* The same of the next state
LEMMA TypedPartsNext == Typed' <=> StoreTyped' /\ ServeTyped' /\ Streaming'
BY TypedParts, PTL

\* There is a request with bytes missing.
LEMMA Pending ==
  ASSUME ServeTyped, pc \notin {"idle", "released"}
  PROVE  /\ request \in Requests /\ request.offset \in Nat /\ request.size \in Nat \ {0}
         /\ data \in Seq(Nat) /\ Len(data) \in Nat /\ Len(data) < request.size
         /\ FileOffset \in Nat /\ Missing \in Nat \ {0} /\ FileOffset = request.offset + Len(data)
<1>1. request \in Requests /\ data \in Seq(Nat) /\ Len(data) < request.size
  BY DEF ServeTyped, Serving
<1>2. Len(data) \in Nat
  BY <1>1, LenProperties
<1>3. request.offset \in Nat /\ request.size \in Nat \ {0}
  BY <1>1, Bounds
<1> QED BY <1>1, <1>2, <1>3 DEF FileOffset, Missing

\* The stream's fields
LEMMA StreamTyped ==
  ASSUME StoreTyped
  PROVE  /\ ft.Impl.open \in BOOLEAN /\ ft.Impl.pos \in Nat /\ ft.Impl.size \in Nat /\ ft.Offset \in Nat
         /\ ft.Impl.size \in Lengths \cup {0} /\ length \in Nat
<1>1. \A n \in Lengths : n \in Nat
  BY Bounds
<1>2. /\ ft.Impl.open \in BOOLEAN /\ ft.Impl.pos \in Nat /\ ft.Offset \in Nat
      /\ ft.Impl.size \in Lengths \cup {0} /\ length \in Lengths
  BY DEF StoreTyped, Readers, Streams
<1>3. ft.Impl.size \in Nat
  <2>1. ft.Impl.size \in Lengths \/ ft.Impl.size = 0
    BY <1>2, Zenon
  <2> QED BY <1>1, <2>1
<1>4. length \in Nat
  BY <1>1, <1>2
<1> QED BY <1>2, <1>3, <1>4

\* A stream that moves
LEMMA ReaderMoved ==
  ASSUME ft \in Readers, NEW p \in Nat, NEW o \in Nat
  PROVE  LET g == [ft EXCEPT !.Impl.pos = p, !.Offset = o] IN
         /\ g \in Readers /\ g.Impl.open = ft.Impl.open /\ g.Impl.size = ft.Impl.size
         /\ g.Impl.pos = p /\ g.Offset = o
<1> DEFINE i == [ft.Impl EXCEPT !.pos = p]
<1>1. ft.Impl \in Streams
  BY DEF Readers
<1>2. i \in Streams /\ i.open = ft.Impl.open /\ i.size = ft.Impl.size /\ i.pos = p
  BY <1>1 DEF Streams
<1>3. [ft EXCEPT !.Impl.pos = p, !.Offset = o] = [ft EXCEPT !.Impl = i, !.Offset = o]
  BY DEF Readers
<1> HIDE DEF i
<1>4. LET g == [ft EXCEPT !.Impl = i, !.Offset = o] IN g \in Readers /\ g.Impl = i /\ g.Offset = o
  BY <1>2 DEF Readers
<1> QED BY <1>2, <1>3, <1>4

\* A stream in the place of another
LEMMA ReaderReplaced ==
  ASSUME ft \in Readers, NEW i \in Streams
  PROVE  LET g == [ft EXCEPT !.Impl = i] IN g \in Readers /\ g.Impl = i /\ g.Offset = ft.Offset
BY DEF Readers

\* A stream that is opened, and none
LEMMA StreamValues ==
  /\ Closed \in Streams /\ ~Closed.open
  /\ \A p \in Nat, n \in Lengths : Opened(p, n) \in Streams
  /\ \A p, n : Opened(p, n).open /\ Opened(p, n).pos = p /\ Opened(p, n).size = n
BY DEF Closed, Opened, Streams

\* An answer ends the request.
LEMMA AnswerTyped ==
  ASSUME NEW a, Answer(a)
  PROVE  ServeTyped'
<1>1. NoFill \in Fills /\ <<>> \in Seq(Nat)
  BY NoFillTyped, Bounds
<1> QED BY <1>1 DEF Answer, ServeTyped, Serving

\* A retry is another attempt at the same.
LEMMA RetryTyped ==
  ASSUME ServeTyped, RetryOrFail \/ (ShouldRetry(fill.attempt) /\ Retry)
  PROVE  ServeTyped'
<1>1. CASE ShouldRetry(fill.attempt) /\ Retry
  <2>1. fill.attempt \in 1..MaxAttempts
    BY DEF ServeTyped, Fills
  <2>2. fill.attempt + 1 \in 1..MaxAttempts
    BY <1>1, <2>1, Bounds DEF ShouldRetry
  <2>3. [fill EXCEPT !.attempt = @ + 1] \in Fills
    BY <2>2 DEF ServeTyped, Fills
  <2> QED BY <1>1, <2>3 DEF Retry, ServeTyped, Serving
<1> QED BY <1>1, AnswerTyped DEF RetryOrFail

\* What Satisfy reads: the request's bytes so far, and some of those missing
LEMMA Satisfied ==
  ASSUME ServeTyped, pc \notin {"idle", "released"}, NEW b \in Fragments, Has(b, FileOffset)
  PROVE  LET f == FromBuffer(b, FileOffset, Missing)
             got == data \o f IN
         /\ got \in Seq(Nat) /\ Len(got) = Len(data) + Len(f)
         /\ Len(got) \in Nat \ {0} /\ Len(got) <= request.size
         /\ request.offset + Len(got) <= b.Offset + Len(b.Data)
         /\ /\ IsTrue(b) /\ IsTrue(Fragment(request.offset, data))
            => \A i \in 1..Len(got) : got[i] = request.offset + i - 1
<1> DEFINE f == FromBuffer(b, FileOffset, Missing)
<1>1. /\ f \in Seq(Nat) /\ Len(f) \in Nat \ {0} /\ Len(f) <= Missing
      /\ FileOffset + Len(f) <= b.Offset + Len(b.Data)
      /\ IsTrue(b) => \A i \in 1..Len(f) : f[i] = FileOffset + i - 1
  BY Pending, CopiedBytes
<1> HIDE DEF f
<1>2. /\ data \o f \in Seq(Nat) /\ Len(data \o f) = Len(data) + Len(f)
      /\ /\ \A i \in 1..Len(data) : data[i] = request.offset + i - 1
         /\ \A i \in 1..Len(f) : f[i] = request.offset + Len(data) + i - 1
         => \A i \in 1..Len(data \o f) : (data \o f)[i] = request.offset + i - 1
  BY <1>1, Pending, JoinedBytes
<1>3. IsTrue(Fragment(request.offset, data)) => \A i \in 1..Len(data) : data[i] = request.offset + i - 1
  <2>1. DOMAIN data = 1..Len(data)
    BY Pending, LenProperties
  <2> QED BY <2>1 DEF IsTrue, Fragment
<1>4. /\ Len(data \o f) \in Nat \ {0} /\ Len(data \o f) <= request.size
      /\ request.offset + Len(data \o f) <= b.Offset + Len(b.Data)
  <2>1. b.Offset \in Nat /\ Len(b.Data) \in Nat
    BY TrueBytes
  <2>2. /\ request.offset \in Nat /\ request.size \in Nat /\ Len(data) \in Nat
        /\ FileOffset = request.offset + Len(data) /\ Missing = request.size - Len(data)
    BY Pending DEF Missing
  <2>3. Len(f) \in Nat \ {0} /\ Len(f) <= Missing /\ FileOffset + Len(f) <= b.Offset + Len(b.Data)
    BY <1>1
  <2>4. Len(data \o f) = Len(data) + Len(f)
    BY <1>2
  <2>5. Len(f) \in Nat /\ Len(f) # 0
    BY <2>3
  <2>6. Len(data \o f) \in Nat /\ Len(data \o f) # 0
    BY ONLY <2>2, <2>4, <2>5
  <2>7. Len(data \o f) <= request.size
    BY ONLY <2>2, <2>3, <2>4, <2>5
  <2>8. request.offset + Len(data \o f) = FileOffset + Len(f)
    BY ONLY <2>2, <2>4, <2>5
  <2> QED BY <2>3, <2>6, <2>7, <2>8
<1>5. FileOffset = request.offset + Len(data)
  BY Pending
<1> QED BY <1>1, <1>2, <1>3, <1>4, <1>5 DEF f

\* ... which ends the request, or brings it forward.
LEMMA SatisfyTyped ==
  ASSUME ServeTyped, pc \notin {"idle", "released"}, NEW b \in Fragments, Has(b, FileOffset), Satisfy(b)
  PROVE  ServeTyped' /\ pc' \in {"idle", "partial"}
<1> DEFINE got == data \o FromBuffer(b, FileOffset, Missing)
<1>1. got \in Seq(Nat) /\ Len(got) \in Nat /\ Len(got) <= request.size
  BY Satisfied
<1>2. request.size \in Nat /\ request \in Requests /\ request # None
  BY Pending, Bounds
<1>3. CASE Answer(Success(got))
  BY <1>3, AnswerTyped DEF Answer
<1>4. CASE Len(got) # request.size /\ data' = got /\ pc' = "partial" /\ fill' = NoFill /\ UNCHANGED <<request, ghosts>>
  <2>1. NoFill \in Fills
    BY NoFillTyped
  <2>2. got \in Seq(Nat) /\ Len(got) < request.size
    <3> HIDE DEF got
    <3>1. Len(got) \in Nat /\ Len(got) <= request.size /\ Len(got) # request.size /\ request.size \in Nat
      BY <1>1, <1>2, <1>4
    <3> QED BY <1>1, <3>1
  <2> HIDE DEF got
  <2> QED BY <1>2, <1>4, <2>1, <2>2 DEF ServeTyped, Serving
<1> QED BY <1>3, <1>4 DEF Satisfy

\* The initial state is in the types.
LEMMA TypeInit == Init => Typed
<1> SUFFICES ASSUME Init
             PROVE  StoreTyped /\ ServeTyped /\ Streaming
  BY TypedParts
<1>1. <<>> \in Seq(Nat) /\ NoFill \in Fills /\ Fragment(0, <<>>) \in Fragments /\ 0 \in 0..MaxFaults
  BY Bounds, NoFillTyped DEF Fragment, Fragments
<1>2. StoreTyped
  BY <1>1, StreamValues DEF Init, StoreTyped, Readers
<1>3. ServeTyped
  BY <1>1 DEF Init, ServeTyped, Serving
<1>4. Streaming
  BY DEF Init, Streaming, NoStreamLeak, Closed
<1> QED BY <1>2, <1>3, <1>4

\* A failure stays within the bound of the failures.
LEMMA FaultsTyped ==
  ASSUME StoreTyped, Fails \/ Succeeds
  PROVE  faults' \in 0..MaxFaults /\ faults' >= faults
<1>1. faults \in 0..MaxFaults /\ MaxFaults \in Nat
  BY Bounds DEF StoreTyped
<1> QED BY <1>1 DEF Fails, Succeeds

\* The most bytes to read: a number of blocks
LEMMA MaxTyped ==
  ASSUME NEW k \in Nat
  PROVE  ((k + BLOCKSIZE - 1) \div BLOCKSIZE) * BLOCKSIZE \in Nat
<1>1. BLOCKSIZE \in Nat /\ BLOCKSIZE > 0
  BY Bounds
<1>2. k + BLOCKSIZE - 1 \in Nat
  BY <1>1
<1>3. (k + BLOCKSIZE - 1) \div BLOCKSIZE \in Nat
  BY <1>1, <1>2
<1> QED BY <1>1, <1>3

\* A fragment begins to be filled.
LEMMA StartFillTyped ==
  ASSUME StoreTyped, ServeTyped, pc = "partial", NEW o \in Nat, NEW hole \in Nat, StartFill(o, hole)
  PROVE  ServeTyped' /\ Buffer1' \in Fragments /\ Buffer2' \in Fragments
<1>1. MaxToRead(hole) \in Nat /\ MinToRead(hole) \in Nat
  <2>1. Missing + hole \in Nat /\ hole + 1 \in Nat
    BY Pending
  <2> QED BY <2>1, MaxTyped DEF MaxToRead, MinToRead
<1>2. fill' \in Fills
  <2>1. 1 \in 1..MaxAttempts
    BY Bounds
  <2> QED BY <1>1, <2>1 DEF StartFill, Fills
<1>3. ServeTyped'
  BY <1>2 DEF StartFill, ServeTyped, Serving
<1>4. Buffer1' \in Fragments /\ Buffer2' \in Fragments
  BY Bounds DEF StartFill, StoreTyped, Fragment, Fragments
<1> QED BY <1>3, <1>4

\* A backend Read fills the fragment, and the request goes on or ends.
LEMMA ReadSomeTyped ==
  ASSUME StoreTyped, ServeTyped, pc = "fill", NEW n \in Nat \ {0}, ReadSome(n)
  PROVE  /\ ServeTyped' /\ Offset' \in Nat /\ Buffer1' \in Fragments
         /\ ft' = [ft EXCEPT !.Impl.pos = @ + n, !.Offset = @ + n] /\ Offset' = Offset + n
         /\ Buffer1'.Offset = Buffer1.Offset
         /\ Buffer1'.Data = Buffer1.Data \o [i \in 1..n |-> ft.Impl.pos + i - 1]
         /\ Len(Buffer1'.Data) = Len(Buffer1.Data) + n /\ Len(Buffer1.Data) \in Nat
         /\ pc' \in {"idle", "partial", "fill"}
<1> DEFINE read == [i \in 1..n |-> ft.Impl.pos + i - 1]
           filled == Fragment(Buffer1.Offset, Buffer1.Data \o read)
<1>1. read \in Seq(Nat) /\ Len(read) = n
  BY StreamTyped, BackendBytes
<1>2. Buffer1.Offset \in Nat /\ Buffer1.Data \in Seq(Nat) /\ Offset \in Nat /\ Buffer1 \in Fragments
  BY TrueBytes DEF StoreTyped
<1> HIDE DEF read
<1>3. /\ Buffer1.Data \o read \in Seq(Nat) /\ Len(Buffer1.Data \o read) = Len(Buffer1.Data) + n
      /\ Len(Buffer1.Data) \in Nat
  BY <1>1, <1>2, JoinedBytes
<1>4. filled \in Fragments /\ filled.Offset = Buffer1.Offset /\ filled.Data = Buffer1.Data \o read
  BY <1>2, <1>3 DEF Fragment, Fragments
<1>5. /\ Offset' = Offset + n /\ Buffer1' = filled
      /\ ft' = [ft EXCEPT !.Impl.pos = @ + n, !.Offset = @ + n]
      /\ IF Len(filled.Data) < fill.min
         THEN fill' = [fill EXCEPT !.attempt = 1] /\ UNCHANGED <<pc, request, data, ghosts>>
         ELSE IF Has(filled, FileOffset) THEN Satisfy(filled)
         ELSE Answer(Abstract!Failed)
  BY DEF ReadSome, read
<1> HIDE DEF filled
<1>6. ServeTyped' /\ pc' \in {"idle", "partial", "fill"}
  <2>1. CASE fill' = [fill EXCEPT !.attempt = 1] /\ UNCHANGED <<pc, request, data, ghosts>>
    <3>1. 1 \in 1..MaxAttempts
      BY Bounds
    <3>2. [fill EXCEPT !.attempt = 1] \in Fills
      BY <3>1 DEF ServeTyped, Fills
    <3> QED BY <2>1, <3>2 DEF ServeTyped, Serving
  <2>2. CASE Has(filled, FileOffset) /\ Satisfy(filled)
    BY <1>4, <2>2, SatisfyTyped
  <2>3. CASE Answer(Abstract!Failed)
    BY <2>3, AnswerTyped DEF Answer
  <2> QED BY <1>5, <2>1, <2>2, <2>3
<1>7. Offset' \in Nat
  BY <1>2, <1>5
<1>8. /\ Buffer1'.Data = Buffer1.Data \o read /\ Buffer1'.Offset = Buffer1.Offset /\ Buffer1' \in Fragments
      /\ Len(Buffer1'.Data) = Len(Buffer1.Data) + n
  BY <1>3, <1>4, <1>5
<1> QED BY <1>3, <1>5, <1>6, <1>7, <1>8 DEF read

\* Every step of the request keeps the types; the stream stays the handle's own.
LEMMA EnableTyped ==
  ASSUME Typed, EnableRead
  PROVE  Typed'
<1>1. /\ StoreTyped /\ ServeTyped /\ pc = "enable" /\ ~enabled /\ ~ft.Impl.open /\ streams = 0
      /\ UNCHANGED <<length, Offset, Buffer1, Buffer2>> /\ UNCHANGED lengths
  BY TypedParts DEF EnableRead, Streaming, NoStreamLeak, Retry, RetryOrFail, Answer, ghosts
<1>2. CASE /\ Succeeds /\ streams' = streams + 1
           /\ enabled' = TRUE /\ ft' = [Impl |-> Opened(0, length), Offset |-> 0]
           /\ pc' = "partial" /\ fill' = NoFill /\ UNCHANGED <<request, data, ghosts>>
  <2>1. ServeTyped'
    BY <1>1, <1>2, NoFillTyped DEF ServeTyped, Serving
  <2>4. ft' \in Readers
    BY <1>1, <1>2, StreamValues DEF StoreTyped, Readers
  <2>2. StoreTyped'
    BY <1>1, <1>2, <2>4 DEF StoreTyped, Succeeds
  <2>3. Streaming'
    BY <1>1, <1>2 DEF Streaming, NoStreamLeak, Opened
  <2> QED BY <2>1, <2>2, <2>3, TypedPartsNext
<1>3. CASE Fails /\ RetryOrFail /\ UNCHANGED <<streams, enabled, ft>>
  <2>1. ServeTyped'
    BY <1>1, <1>3, RetryTyped
  <2>2. StoreTyped'
    BY <1>1, <1>3, FaultsTyped DEF StoreTyped
  <2>3. pc' \in {"enable", "idle"}
    BY <1>1, <1>3 DEF RetryOrFail, Retry, Answer
  <2>4. Streaming'
    BY <1>1, <1>3, <2>3 DEF Streaming, NoStreamLeak
  <2> QED BY <2>1, <2>2, <2>4, TypedPartsNext
<1> QED BY <1>2, <1>3 DEF EnableRead

\* A read from a buffer keeps the types.
LEMMA BufferTyped ==
  ASSUME Typed, ReadFromBuffer
  PROVE  Typed'
<1>1. StoreTyped /\ ServeTyped /\ Streaming /\ pc = "partial" /\ UNCHANGED <<hdfs, reader>>
  BY TypedParts DEF ReadFromBuffer
<1>2. Buffer1 \in Fragments /\ Buffer2 \in Fragments
  BY <1>1 DEF StoreTyped
<1>3. ServeTyped' /\ pc' \in {"idle", "partial"}
  BY <1>1, <1>2, SatisfyTyped DEF ReadFromBuffer
<1>4. UNCHANGED lengths
  BY DEF ReadFromBuffer, Satisfy, Answer, ghosts
<1>5. StoreTyped'
  BY <1>1, <1>4 DEF StoreTyped, hdfs, reader
<1>6. Streaming'
  BY <1>1, <1>3 DEF Streaming, NoStreamLeak, hdfs, reader
<1> QED BY <1>3, <1>5, <1>6, TypedPartsNext

\* A miss over a hole
MissesOverHole ==
  /\ OverHole(FileOffset - Offset) /\ StartFill(Offset, FileOffset - Offset)
  /\ UNCHANGED <<Offset, ft>>
\* ... backward, or without a stream, where Seek fails or panics
MissFails ==
  /\ ~OverHole(FileOffset - Offset)
  /\ ~ft.Impl.open \/ (SeekFails(FileOffset) /\ FileOffset - Offset < 0)
  /\ Buffer1' = Buffer2 /\ Buffer2' = Buffer1
  /\ Answer(Abstract!Failed)
  /\ UNCHANGED <<Offset, ft>>
\* ... elsewhere
MissSeeks ==
  /\ ~OverHole(FileOffset - Offset) /\ ft.Impl.open
  /\ ~(SeekFails(FileOffset) /\ FileOffset - Offset < 0)
  /\ StartFill(FileOffset, 0) /\ Offset' = FileOffset
  /\ ft' = IF SeekFails(FileOffset) THEN ft
           ELSE [ft EXCEPT !.Impl.pos = FileOffset, !.Offset = FileOffset]

\* What a miss comes to
LEMMA MissCases ==
  ASSUME Miss
  PROVE  /\ pc = "partial" /\ UNCHANGED <<hdfs, enabled>>
         /\ MissesOverHole \/ MissFails \/ MissSeeks
BY DEF Miss, MissesOverHole, MissFails, MissSeeks

\* A miss keeps the types.
LEMMA MissTyped ==
  ASSUME Typed, Miss
  PROVE  Typed'
<1>1. StoreTyped /\ ServeTyped /\ Streaming /\ pc = "partial" /\ UNCHANGED <<hdfs, enabled>>
  BY TypedParts, MissCases
<1>2. Offset \in Nat /\ FileOffset \in Nat
  BY <1>1, Pending DEF StoreTyped
<1>3. UNCHANGED lengths
  BY DEF Miss, StartFill, Answer, ghosts
<1>4. /\ ServeTyped' /\ Buffer1' \in Fragments /\ Buffer2' \in Fragments /\ Offset' \in Nat
      /\ pc' \in {"fill", "idle"}
  <2>1. CASE MissesOverHole
    <3>1. FileOffset - Offset \in Nat
      BY <1>2, <2>1 DEF MissesOverHole, OverHole
    <3> QED BY <1>1, <1>2, <2>1, <3>1, StartFillTyped DEF MissesOverHole, StartFill
  <2>2. CASE MissFails
    BY <1>1, <1>2, <2>2, AnswerTyped DEF MissFails, Answer, StoreTyped
  <2>3. CASE MissSeeks
    BY <1>1, <1>2, <2>3, StartFillTyped DEF MissSeeks, StartFill
  <2> QED BY <2>1, <2>2, <2>3, MissCases
<1>5. /\ ft' \in Readers
      /\ ft'.Impl.open = ft.Impl.open
  <2>1. ft' = ft \/ ft' = [ft EXCEPT !.Impl.pos = FileOffset, !.Offset = FileOffset]
    BY MissCases DEF MissesOverHole, MissFails, MissSeeks
  <2>2. ft \in Readers
    BY <1>1 DEF StoreTyped
  <2>3. CASE ft' = ft
    BY <2>2, <2>3
  <2>4. CASE ft' = [ft EXCEPT !.Impl.pos = FileOffset, !.Offset = FileOffset]
    BY <1>2, <2>2, <2>4, ReaderMoved
  <2> QED BY <2>1, <2>3, <2>4
<1>6. StoreTyped'
  BY <1>1, <1>3, <1>4, <1>5 DEF StoreTyped, hdfs
<1>7. Streaming'
  BY <1>1, <1>4, <1>5 DEF Streaming, NoStreamLeak, hdfs
<1> QED BY <1>4, <1>6, <1>7, TypedPartsNext

\* The wrapper opens a stream where it had closed one.
LEMMA ReopenTyped ==
  ASSUME Typed, Reopen
  PROVE  Typed'
<1>1. /\ StoreTyped /\ ServeTyped /\ pc = "fill" /\ enabled /\ ~ft.Impl.open /\ streams = 0
      /\ UNCHANGED <<length, enabled, Offset, Buffer1, Buffer2>> /\ UNCHANGED lengths
  BY TypedParts DEF Reopen, Streaming, NoStreamLeak, Retry, RetryOrFail, Answer, ghosts
<1>2. CASE /\ Succeeds /\ streams' = streams + 1 /\ ft' = [ft EXCEPT !.Impl = Opened(Resume, length)]
           /\ UNCHANGED <<pc, request, data, fill, ghosts>>
  <2>1. ServeTyped'
    BY <1>1, <1>2 DEF ServeTyped, Serving
  <2>2. ft \in Readers /\ Opened(Resume, length) \in Streams
    BY <1>1, StreamTyped, StreamValues DEF StoreTyped, Resume
  <2>3. ft' \in Readers /\ ft'.Impl.open /\ streams' = 1
    BY <1>1, <1>2, <2>2, ReaderReplaced, StreamValues
  <2>5. StoreTyped'
    BY <1>1, <1>2, <2>3 DEF StoreTyped, Succeeds
  <2>4. Streaming'
    BY <1>1, <1>2, <2>3 DEF Streaming, NoStreamLeak
  <2> QED BY <2>1, <2>5, <2>4, TypedPartsNext
<1>3. CASE ((Succeeds /\ Answer(Abstract!Failed)) \/ (Fails /\ RetryOrFail)) /\ UNCHANGED <<streams, ft>>
  <2>1. ServeTyped'
    BY <1>1, <1>3, RetryTyped, AnswerTyped
  <2>2. StoreTyped'
    BY <1>1, <1>3, FaultsTyped DEF StoreTyped
  <2>3. pc' \in {"fill", "idle"}
    BY <1>1, <1>3 DEF RetryOrFail, Retry, Answer
  <2>4. Streaming'
    BY <1>1, <1>3, <2>3 DEF Streaming, NoStreamLeak
  <2> QED BY <2>1, <2>2, <2>4, TypedPartsNext
<1>4. \/ /\ Succeeds /\ streams' = streams + 1 /\ ft' = [ft EXCEPT !.Impl = Opened(Resume, length)]
         /\ UNCHANGED <<pc, request, data, fill, ghosts>>
      \/ ((Succeeds /\ Answer(Abstract!Failed)) \/ (Fails /\ RetryOrFail)) /\ UNCHANGED <<streams, ft>>
  BY Zenon DEF Reopen
<1> QED BY <1>2, <1>3, <1>4

\* A read of the backend keeps the types; a failed one closes the stream.
LEMMA BackendTyped ==
  ASSUME Typed, ReadBackend
  PROVE  Typed'
<1>1. /\ StoreTyped /\ ServeTyped /\ pc = "fill" /\ enabled /\ ft.Impl.open /\ streams = 1
      /\ UNCHANGED <<length, enabled, Buffer2>>
  BY TypedParts DEF ReadBackend, Streaming, NoStreamLeak
<1>2. ASSUME NEW n \in 1..(fill.max - Len(Buffer1.Data)), ReadSome(n), Succeeds, UNCHANGED streams
      PROVE  Typed'
  <2>1. n \in Nat \ {0}
    <3>1. fill.max \in Nat /\ Len(Buffer1.Data) \in Nat
      BY <1>1, TrueBytes DEF ServeTyped, Fills, StoreTyped
    <3> QED BY <3>1
  <2>2. /\ ServeTyped' /\ Offset' \in Nat /\ Buffer1' \in Fragments /\ pc' \in {"idle", "partial", "fill"}
        /\ ft' = [ft EXCEPT !.Impl.pos = @ + n, !.Offset = @ + n]
    BY <1>1, <1>2, <2>1, ReadSomeTyped
  <2>3. /\ ft' \in Readers
        /\ ft'.Impl.open
    <3>1. ft.Impl.pos + n \in Nat /\ ft.Offset + n \in Nat /\ ft \in Readers
      BY <1>1, <2>1, StreamTyped DEF StoreTyped
    <3>2. ft' = [ft EXCEPT !.Impl.pos = ft.Impl.pos + n, !.Offset = ft.Offset + n]
      BY <2>2, <3>1 DEF Readers, Streams
    <3> QED BY <1>1, <3>1, <3>2, ReaderMoved
  <2>4. UNCHANGED lengths
    BY <1>2 DEF ReadSome, Satisfy, Answer, ghosts
  <2>5. StoreTyped'
    BY <1>1, <1>2, <2>2, <2>3, <2>4 DEF StoreTyped, Succeeds
  <2>6. Streaming'
    BY <1>1, <1>2, <2>2, <2>3 DEF Streaming, NoStreamLeak
  <2> QED BY <2>2, <2>5, <2>6, TypedPartsNext
<1>3. ASSUME NEW a, Answer(a), Fails \/ Succeeds, UNCHANGED <<streams, Offset, Buffer1, ft>>
      PROVE  Typed'
  <2>1. ServeTyped' /\ pc' = "idle" /\ UNCHANGED lengths
    BY <1>3, AnswerTyped DEF Answer
  <2>2. StoreTyped'
    BY <1>1, <1>3, <2>1, FaultsTyped DEF StoreTyped
  <2>3. Streaming'
    BY <1>1, <1>3, <2>1 DEF Streaming, NoStreamLeak
  <2> QED BY <2>1, <2>2, <2>3, TypedPartsNext
<1>4. CASE /\ Fails /\ ShouldRetry(fill.attempt) /\ Retry
           /\ CloseImpl /\ ft' = [ft EXCEPT !.Impl = Closed] /\ UNCHANGED <<Offset, Buffer1>>
  <2>1. ServeTyped' /\ pc' = "fill" /\ UNCHANGED lengths
    BY <1>1, <1>4, RetryTyped DEF Retry, ghosts
  <2>2. ft' \in Readers /\ ~ft'.Impl.open /\ streams' = 0
    BY <1>1, <1>4, ReaderReplaced, StreamValues DEF StoreTyped, CloseImpl
  <2>3. StoreTyped'
    BY <1>1, <1>4, <2>1, <2>2, FaultsTyped DEF StoreTyped
  <2>4. Streaming'
    BY <1>1, <2>1, <2>2 DEF Streaming, NoStreamLeak
  <2> QED BY <2>1, <2>3, <2>4, TypedPartsNext
<1> QED BY <1>2, <1>3, <1>4 DEF ReadBackend

\* Every step keeps the types, and closes the stream it opens another for.
LEMMA TypeStep == Typed /\ [Next]_vars => Typed'
<1> SUFFICES ASSUME Typed, [Next]_vars
             PROVE  Typed'
  OBVIOUS
<1>1. StoreTyped /\ ServeTyped /\ Streaming
  BY TypedParts
<1>2. CASE Grow
  <2>1. StoreTyped'
    BY <1>1, <1>2 DEF Grow, StoreTyped, reader
  <2>2. ServeTyped' /\ Streaming'
    BY <1>1, <1>2 DEF Grow, reader, ServeTyped, Serving, Streaming, NoStreamLeak
  <2> QED BY <2>1, <2>2, TypedPartsNext
<1>3. CASE Release
  <2>1. ServeTyped' /\ pc' = "released"
    BY <1>1, <1>3 DEF Release, ghosts, ServeTyped, Serving
  <2>2. CASE ft.Impl.open /\ streams' = streams - 1 /\ enabled' = FALSE /\ ft' = [ft EXCEPT !.Impl = Closed]
    <3>1. streams' = 0
      BY <1>1, <2>2 DEF Streaming, NoStreamLeak
    <3>2. ft' \in Readers /\ ~ft'.Impl.open
      BY <1>1, <2>2, ReaderReplaced, StreamValues DEF StoreTyped
    <3>3. StoreTyped'
      <4>1. UNCHANGED <<length, faults, Offset, Buffer1, Buffer2, lengths>>
        BY <1>3 DEF Release, ghosts
      <4>2. enabled' \in BOOLEAN
        BY <2>2, Zenon
      <4>3. streams' \in Nat
        BY <3>1
      <4> QED BY <1>1, <3>2, <4>1, <4>2, <4>3 DEF StoreTyped
    <3>4. Streaming'
      BY <2>1, <2>2, <3>1, <3>2 DEF Streaming, NoStreamLeak
    <3> QED BY <2>1, <3>3, <3>4, TypedPartsNext
  <2>3. CASE ~ft.Impl.open /\ UNCHANGED <<streams, enabled, ft>>
    <3>1. StoreTyped'
      BY <1>1, <1>3, <2>3 DEF Release, ghosts, StoreTyped
    <3>2. Streaming'
      BY <1>1, <2>1, <2>3 DEF Streaming, NoStreamLeak
    <3> QED BY <2>1, <3>1, <3>2, TypedPartsNext
  <2> QED BY <1>3, <2>2, <2>3 DEF Release
<1>4. ASSUME NEW r \in Requests, Read(r)
      PROVE  Typed'
  <2>1. request = None /\ data = <<>> /\ pc = "idle"
    BY <1>1, <1>4 DEF Read, ServeTyped, Serving
  <2>2. Len(<<>>) < r.size /\ r # None
    BY Bounds
  <2>3. ServeTyped'
    BY <1>1, <1>4, <2>1, <2>2 DEF Read, ServeTyped, Serving
  <2>4. StoreTyped' /\ Streaming'
    BY <1>1, <1>4 DEF Read, hdfs, reader, StoreTyped, Streaming, NoStreamLeak
  <2> QED BY <2>3, <2>4, TypedPartsNext
<1>5. CASE UNCHANGED vars
  <2>1. StoreTyped' /\ ServeTyped' /\ Streaming'
    BY <1>1, <1>5 DEF vars, hdfs, reader, ghosts, StoreTyped, ServeTyped, Serving, Streaming, NoStreamLeak
  <2> QED BY <2>1, TypedPartsNext
<1> QED BY <1>2, <1>3, <1>4, <1>5, EnableTyped, BufferTyped, MissTyped, ReopenTyped, BackendTyped DEF Next, Step

\* The variables stay in their types, and no retry loop makes more than
\* MaxAttempts attempts.
THEOREM TypeCorrect == Spec => []TypeOK
<1>1. Typed => TypeOK
  BY DEF Typed
<1> QED BY <1>1, TypeInit, TypeStep, PTL DEF Spec

\* A handle has at most one stream open, whatever failed, and none after Release
\* (FaultTolerantHdfsReader.go:53, FileHandle.go:115).
THEOREM StreamsClosed == Spec => []NoStreamLeak
<1>1. Typed => NoStreamLeak
  BY DEF Typed, Streaming
<1> QED BY <1>1, TypeInit, TypeStep, PTL DEF Spec

-----------------------------------------------------------------------------
(* The bytes *)

\* A fragment that holds the bytes of a file holds those of a longer one.
LEMMA HoldsMore ==
  ASSUME NEW b \in Fragments, NEW k \in Nat, NEW m \in Nat, k <= m, Holds(b, k)
  PROVE  Holds(b, m)
BY TrueBytes DEF Holds

\* An empty fragment holds those of any file.
LEMMA EmptyHolds ==
  ASSUME NEW o \in Nat, NEW k \in Nat
  PROVE  Fragment(o, <<>>) \in Fragments /\ Holds(Fragment(o, <<>>), k)
BY Bounds DEF Fragment, Fragments, Holds, IsTrue

\* A step shortens neither the file nor what its stream knows of it.
Longer ==
  /\ UNCHANGED <<length, lengths>> \/ (length' > length /\ lengths' = lengths \cup {length'})
  /\ ft'.Impl.open => /\ ft.Impl.open => ft'.Impl.size = ft.Impl.size
                      /\ ~ft.Impl.open => ft'.Impl.size = length /\ UNCHANGED <<length, lengths>>


\* The lengths after a step
LEMMA LengthsNext ==
  ASSUME StoreTyped'
  PROVE  length' \in Nat /\ ft'.Impl.size \in Nat
<1>1. length' \in Lengths /\ ft'.Impl.size \in Lengths \cup {0}
  BY DEF StoreTyped, Readers, Streams
<1>2. \A n \in Lengths \cup {0} : n \in Nat
  BY Bounds
<1> QED BY <1>1, <1>2

\* So what was known stays known.
LEMMA KnownGrows ==
  ASSUME StoreTyped, StoreTyped', Growing, Longer
  PROVE  /\ Known \in Nat /\ Known' \in Nat /\ Known <= Known'
         /\ \A n \in lengths' : n <= length'
         /\ ft'.Impl.open => ft'.Impl.size \in lengths'
<1>1. /\ length \in Nat /\ length' \in Nat /\ length' >= length
      /\ ft.Impl.size \in Nat /\ ft'.Impl.size \in Nat
  <2>1. length \in Nat /\ ft.Impl.size \in Nat
    BY StreamTyped
  <2>2. length' \in Nat /\ ft'.Impl.size \in Nat
    BY LengthsNext
  <2> QED BY <2>1, <2>2 DEF Longer
<1>2. \A n \in lengths' : n <= length'
  <2>1. \A n \in lengths : n \in Nat /\ n <= length
    BY Bounds DEF StoreTyped, Growing
  <2> QED BY <1>1, <2>1 DEF Longer
<1>3. ft'.Impl.open => ft'.Impl.size \in lengths'
  BY DEF Longer, Growing, StoreTyped
<1>4. ft.Impl.open => ft.Impl.size <= length
  BY DEF Growing
<1>5. Known \in Nat /\ Known' \in Nat /\ Known <= Known'
  <2>1. CASE ft.Impl.open
    BY <1>1, <1>4, <2>1 DEF Known, Longer
  <2>2. CASE ~ft.Impl.open
    BY <1>1, <2>2 DEF Known, Longer
  <2> QED BY <2>1, <2>2
<1> QED BY <1>2, <1>3, <1>5

\* What Satisfy returns, or has read so far, is right if the fragment is.
LEMMA SatisfyHolds ==
  ASSUME ServeTyped, pc \notin {"idle", "released"}, NEW b \in Fragments, Has(b, FileOffset),
         NEW k \in Nat, Holds(b, k), Holds(Fragment(request.offset, data), k)
  PROVE  LET got == data \o FromBuffer(b, FileOffset, Missing) IN
         Holds(Fragment(request.offset, got), k) /\ request.offset + Len(got) <= k
<1> DEFINE got == data \o FromBuffer(b, FileOffset, Missing)
<1>1. /\ got \in Seq(Nat) /\ Len(got) \in Nat \ {0}
      /\ request.offset + Len(got) <= b.Offset + Len(b.Data)
      /\ \A i \in 1..Len(got) : got[i] = request.offset + i - 1
  BY Satisfied DEF Holds
<1> HIDE DEF got
<1>2. b.Offset + Len(b.Data) <= k /\ b.Offset \in Nat /\ Len(b.Data) \in Nat
  <2>1. b.Offset \in Nat /\ Len(b.Data) \in Nat /\ FileOffset \in Nat
    BY TrueBytes, Pending
  <2>2. b.Data # <<>>
    BY <2>1, Bounds DEF Has
  <2> QED BY <2>1, <2>2 DEF Holds
<1>3. request.offset + Len(got) <= k /\ request.offset \in Nat
  <2>1. request.offset \in Nat
    BY Pending
  <2> QED BY <1>1, <1>2, <2>1
<1>4. IsTrue(Fragment(request.offset, got))
  <2>1. Fragment(request.offset, got) \in Fragments
    BY <1>1, <1>3 DEF Fragment, Fragments
  <2> QED BY <1>1, <2>1, TrueBytes DEF Fragment
<1> QED BY <1>3, <1>4 DEF Holds, Fragment, got

-----------------------------------------------------------------------------
(* The bytes step by step *)

\* The parts of the invariant that relate the stream to what is buffered
LEMMA InvParts == Inv =>
  /\ StoreTyped /\ ServeTyped /\ Streaming /\ Positions /\ Filling /\ Growing /\ BytesRight
BY TypedParts DEF Inv, Tracking

\* Nothing is buffered or opened at first.
LEMMA InvInit == Init => Inv
<1> SUFFICES ASSUME Init
             PROVE  Inv
  OBVIOUS
<1>1. Typed
  BY TypeInit
<1>2. ~ft.Impl.open /\ ft.Offset = 0 /\ Offset = 0
  BY DEF Init, Closed
<1>3. Positions /\ Filling
  BY <1>2 DEF Init, Positions, Filling
<1>4. Growing
  BY <1>2 DEF Init, Growing
<1>5. Known \in Nat
  BY <1>1, <1>2, TypedParts, StreamTyped DEF Known
<1>6. BytesRight
  BY <1>5, EmptyHolds DEF Init, BytesRight
<1> QED BY <1>1, <1>3, <1>4, <1>6 DEF Inv, Tracking

\* What is held stays held when the file, or what is known of it, grows.
LEMMA BytesStay ==
  ASSUME Inv, StoreTyped', Longer
  PROVE  /\ Holds(Buffer1, Known') /\ Holds(Buffer2, Known')
         /\ request # None => Holds(Fragment(request.offset, data), Known')
<1>1. Known \in Nat /\ Known' \in Nat /\ Known <= Known'
  BY InvParts, KnownGrows
<1>2. Buffer1 \in Fragments /\ Buffer2 \in Fragments
  BY InvParts DEF StoreTyped
<1>3. request # None => Fragment(request.offset, data) \in Fragments
  BY InvParts, Bounds DEF ServeTyped, Fragment, Fragments
<1> QED BY <1>1, <1>2, <1>3, InvParts, HoldsMore DEF BytesRight

\* The file grows.
LEMMA GrowTracks ==
  ASSUME Inv, Typed', Grow
  PROVE  Tracking'
<1>1. StoreTyped /\ StoreTyped' /\ Positions /\ Filling /\ Growing
  BY InvParts, TypedPartsNext
<1>2. /\ length' > length /\ lengths' = lengths \cup {length'}
      /\ UNCHANGED <<faults, enabled, Offset, Buffer1, Buffer2, ft, pc, request, data, fill>>
  BY DEF Grow, reader
<1>3. Longer
  BY <1>2 DEF Longer
<1>4. Positions' /\ Filling'
  BY <1>1, <1>2 DEF Positions, Filling, FileOffset
<1>5. Growing'
  BY <1>1, <1>2, <1>3, KnownGrows DEF Growing
<1>6. BytesRight'
  BY <1>1, <1>2, <1>3, BytesStay DEF BytesRight
<1> QED BY <1>4, <1>5, <1>6 DEF Tracking

\* The handle is released.
LEMMA ReleaseTracks ==
  ASSUME Inv, Typed', Release
  PROVE  Tracking'
<1>1. /\ StoreTyped /\ ServeTyped /\ StoreTyped' /\ Positions /\ Growing
      /\ pc' = "released" /\ request = None
      /\ UNCHANGED <<length, faults, Offset, Buffer1, Buffer2, request, data, fill, lengths>>
  BY InvParts, TypedPartsNext DEF Release, ghosts, ServeTyped
<1>2. ft' = ft \/ (~ft'.Impl.open /\ ft'.Offset = ft.Offset)
  <2>1. CASE ft' = [ft EXCEPT !.Impl = Closed]
    <3>1. ft \in Readers /\ Closed \in Streams
      BY <1>1, StreamValues DEF StoreTyped
    <3> QED BY <2>1, <3>1, ReaderReplaced, StreamValues
  <2> QED BY <2>1 DEF Release
<1>3. Longer
  BY <1>1, <1>2 DEF Longer
<1>4. Positions' /\ Filling'
  BY <1>1, <1>2 DEF Positions, Filling
<1>5. Growing'
  BY <1>1, <1>3, KnownGrows DEF Growing
<1>6. BytesRight'
  BY <1>1, <1>3, BytesStay DEF BytesRight
<1> QED BY <1>4, <1>5, <1>6 DEF Tracking

\* A request comes in.
LEMMA ReadTracks ==
  ASSUME Inv, Typed', NEW r \in Requests, Read(r)
  PROVE  Tracking'
<1>1. /\ StoreTyped /\ ServeTyped /\ StoreTyped' /\ Positions /\ Growing /\ pc = "idle"
      /\ request = None /\ data = <<>>
      /\ pc' \in {"enable", "partial"} /\ request' = r
      /\ UNCHANGED <<length, faults, enabled, Offset, Buffer1, Buffer2, ft, data, fill, lengths>>
  BY InvParts, TypedPartsNext DEF Read, hdfs, reader, ServeTyped, Serving
<1>2. Longer
  BY <1>1 DEF Longer
<1>3. Positions' /\ Filling'
  BY <1>1 DEF Positions, Filling
<1>4. Growing'
  BY <1>1, <1>2, KnownGrows DEF Growing
<1>5. Holds(Fragment(r.offset, <<>>), Known')
  <2>1. r.offset \in Nat /\ Known' \in Nat
    BY <1>1, <1>2, InvParts, KnownGrows, Bounds
  <2> QED BY <2>1, EmptyHolds
<1>6. BytesRight'
  BY <1>1, <1>2, <1>5, BytesStay DEF BytesRight
<1> QED BY <1>3, <1>4, <1>6 DEF Tracking

\* The first stream is opened, at the beginning.
LEMMA EnableTracks ==
  ASSUME Inv, Typed', EnableRead
  PROVE  Tracking'
<1>1. /\ StoreTyped /\ ServeTyped /\ StoreTyped' /\ Positions /\ Growing
      /\ pc = "enable" /\ ~enabled /\ ~ft.Impl.open /\ Offset = 0 /\ ft.Offset = 0
      /\ UNCHANGED <<length, Offset, Buffer1, Buffer2>>
  BY InvParts, TypedPartsNext DEF EnableRead, Streaming, Positions
<1>2. length \in Nat
  BY <1>1, StreamTyped
<1>3. CASE /\ ft' = [Impl |-> Opened(0, length), Offset |-> 0]
           /\ pc' = "partial" /\ UNCHANGED <<request, data, ghosts>>
  <2>1. ft'.Impl.open /\ ft'.Impl.pos = 0 /\ ft'.Impl.size = length /\ ft'.Offset = 0
    BY <1>3, StreamValues
  <2>2. Longer
    BY <1>1, <1>3, <2>1 DEF Longer, ghosts
  <2>3. Positions' /\ Filling'
    <3>1. enabled'
      BY <1>3, TypedPartsNext DEF Streaming
    <3> QED BY <1>1, <1>2, <1>3, <2>1, <3>1 DEF Positions, Filling
  <2>4. Growing'
    BY <1>1, <2>1, <2>2, KnownGrows DEF Growing
  <2>5. BytesRight'
    BY <1>1, <1>3, <2>2, BytesStay DEF BytesRight
  <2> QED BY <2>3, <2>4, <2>5 DEF Tracking
<1>4. CASE Fails /\ RetryOrFail /\ UNCHANGED <<streams, enabled, ft>>
  <2>1. /\ pc' \in {"enable", "idle"} /\ UNCHANGED lengths
        /\ request' = None \/ UNCHANGED <<request, data>>
    BY <1>1, <1>4 DEF RetryOrFail, Retry, Answer, ghosts
  <2>2. Longer
    BY <1>1, <1>4, <2>1 DEF Longer
  <2>3. Positions' /\ Filling'
    BY <1>1, <1>4, <2>1 DEF Positions, Filling
  <2>4. Growing'
    BY <1>1, <1>4, <2>1, <2>2, KnownGrows DEF Growing
  <2>5. BytesRight'
    BY <1>1, <2>1, <2>2, BytesStay DEF BytesRight
  <2> QED BY <2>3, <2>4, <2>5 DEF Tracking
<1> QED BY <1>3, <1>4 DEF EnableRead

\* Bytes are copied from a buffer.
LEMMA BufferTracks ==
  ASSUME Inv, Typed', ReadFromBuffer
  PROVE  Tracking'
<1>1. /\ StoreTyped /\ ServeTyped /\ StoreTyped' /\ Positions /\ Growing /\ pc = "partial"
      /\ UNCHANGED <<length, faults, enabled, Offset, Buffer1, Buffer2, ft>>
  BY InvParts, TypedPartsNext DEF ReadFromBuffer, hdfs, reader
<1>2. PICK b \in {Buffer1, Buffer2} : Has(b, FileOffset) /\ Satisfy(b)
  BY DEF ReadFromBuffer
<1>3. /\ b \in Fragments /\ Holds(b, Known) /\ Known \in Nat /\ request # None
      /\ Holds(Fragment(request.offset, data), Known)
  <2>1. b \in Fragments /\ Holds(b, Known) /\ request # None
    BY <1>1, InvParts DEF StoreTyped, BytesRight, ServeTyped
  <2>2. Known \in Nat
    BY <1>1, StreamTyped DEF Known
  <2> QED BY <2>1, <2>2, InvParts DEF BytesRight
<1>4. pc' \in {"idle", "partial"} /\ UNCHANGED lengths
  BY <1>2 DEF Satisfy, Answer, ghosts
<1>5. request' # None => request' = request /\ Holds(Fragment(request.offset, data'), Known)
  BY <1>1, <1>2, <1>3, SatisfyHolds DEF Satisfy, Answer
<1>6. Longer /\ Known' = Known
  BY <1>1, <1>4 DEF Longer, Known
<1>7. Positions' /\ Filling'
  BY <1>1, <1>4 DEF Positions, Filling
<1>8. Growing'
  BY <1>1, <1>4, <1>6, KnownGrows DEF Growing
<1>9. BytesRight'
  BY <1>1, <1>5, <1>6, BytesStay DEF BytesRight
<1> QED BY <1>7, <1>8, <1>9 DEF Tracking

\* Neither buffer has the byte: the backend goes to it, or will read up to it.
LEMMA MissTracks ==
  ASSUME Inv, Typed', Miss, ~SeekIgnored
  PROVE  Tracking'
<1>1. /\ StoreTyped /\ ServeTyped /\ StoreTyped' /\ Positions /\ Growing /\ pc = "partial"
      /\ UNCHANGED <<length, streams, faults, enabled>>
  BY InvParts, TypedPartsNext, MissCases DEF hdfs
<1>2. /\ FileOffset \in Nat /\ Offset \in Nat /\ Buffer1 \in Fragments /\ Buffer2 \in Fragments
      /\ BLOCKSIZE \in Nat
  BY <1>1, Pending, Bounds DEF StoreTyped
<1>3. UNCHANGED lengths
  BY DEF Miss, StartFill, Answer, ghosts
<1>4. CASE MissesOverHole
  <2>1. /\ Buffer1' = Fragment(Offset, <<>>) /\ Buffer2' = Buffer1 /\ fill'.min = FileOffset - Offset + 1
        /\ pc' = "fill" /\ UNCHANGED <<request, data, Offset, ft>> /\ FileOffset - Offset >= 0
    BY <1>2, <1>4 DEF MissesOverHole, StartFill, MinToRead, OverHole
  <2>2. Longer
    BY <1>1, <1>3, <2>1 DEF Longer
  <2>3. Positions'
    BY <1>1, <2>1 DEF Positions
  <2>4. Filling'
    <3>1. Buffer1'.Offset = Offset /\ Len(Buffer1'.Data) = 0
      BY <2>1, Bounds DEF Fragment
    <3>2. FileOffset' = FileOffset
      BY <2>1 DEF FileOffset
    <3> QED BY <1>2, <2>1, <3>1, <3>2 DEF Filling
  <2>5. Growing'
    BY <1>1, <2>1, <2>2, KnownGrows DEF Growing
  <2>6. BytesRight'
    <3>1. Known' \in Nat
      BY <1>1, <2>2, KnownGrows
    <3>2. Holds(Buffer1', Known')
      BY <1>2, <2>1, <3>1, EmptyHolds
    <3> QED BY <1>1, <2>1, <2>2, <3>2, BytesStay DEF BytesRight
  <2> QED BY <2>3, <2>4, <2>5, <2>6 DEF Tracking
<1>5. CASE MissFails
  <2>1. /\ Buffer1' = Buffer2 /\ Buffer2' = Buffer1 /\ UNCHANGED <<Offset, ft>>
        /\ pc' = "idle" /\ request' = None
    BY <1>5 DEF MissFails, Answer
  <2>2. Longer
    BY <1>1, <1>3, <2>1 DEF Longer
  <2>3. Positions' /\ Filling'
    BY <1>1, <2>1 DEF Positions, Filling
  <2>4. Growing'
    BY <1>1, <2>1, <2>2, KnownGrows DEF Growing
  <2>5. BytesRight'
    BY <1>1, <2>1, <2>2, BytesStay DEF BytesRight
  <2> QED BY <2>3, <2>4, <2>5 DEF Tracking
<1>6. CASE MissSeeks
  <2>1. ft.Impl.open /\ ~OverHole(FileOffset - Offset) /\ ~(SeekFails(FileOffset) /\ FileOffset - Offset < 0)
    BY <1>6 DEF MissSeeks
  <2>2. ~SeekFails(FileOffset)
    <3>1. FileOffset - Offset < 0 \/ FileOffset - Offset > 2 * BLOCKSIZE
      BY <1>2, <2>1 DEF OverHole
    <3> QED BY <2>1, <3>1 DEF SeekIgnored
  <2>3. /\ Buffer1' = Fragment(FileOffset, <<>>) /\ Buffer2' = Buffer1 /\ fill'.min = 1
        /\ pc' = "fill" /\ UNCHANGED <<request, data>> /\ Offset' = FileOffset
        /\ ft' = [ft EXCEPT !.Impl.pos = FileOffset, !.Offset = FileOffset]
    BY <1>6, <2>2 DEF MissSeeks, StartFill, MinToRead
  <2>4. /\ ft'.Impl.open /\ ft'.Impl.size = ft.Impl.size
        /\ ft'.Impl.pos = FileOffset /\ ft'.Offset = FileOffset
    <3>1. ft \in Readers
      BY <1>1 DEF StoreTyped
    <3> QED BY <1>2, <2>1, <2>3, <3>1, ReaderMoved
  <2>5. FileOffset <= ft'.Impl.size
    BY <1>1, <1>2, <2>2, <2>4, StreamTyped DEF SeekFails
  <2>6. Longer
    BY <1>1, <1>3, <2>1, <2>4 DEF Longer
  <2>7. Positions'
    <3>1. enabled'
      BY <1>1, InvParts DEF Streaming
    <3> QED BY <2>3, <2>4, <2>5, <3>1 DEF Positions
  <2>8. Filling'
    <3>1. Buffer1'.Offset = FileOffset /\ Len(Buffer1'.Data) = 0
      BY <2>3, Bounds DEF Fragment
    <3>2. FileOffset' = FileOffset
      BY <2>3 DEF FileOffset
    <3> QED BY <1>2, <2>3, <3>1, <3>2 DEF Filling
  <2>9. Growing'
    BY <1>1, <2>3, <2>4, <2>6, KnownGrows DEF Growing
  <2>10. BytesRight'
    <3>1. Known' \in Nat
      BY <1>1, <2>6, KnownGrows
    <3>2. Holds(Buffer1', Known')
      BY <1>2, <2>3, <3>1, EmptyHolds
    <3> QED BY <1>1, <2>3, <2>6, <3>2, BytesStay DEF BytesRight
  <2> QED BY <2>7, <2>8, <2>9, <2>10 DEF Tracking
<1> QED BY <1>4, <1>5, <1>6, MissCases

\* What Reopen comes to
LEMMA ReopenCases ==
  ASSUME Reopen
  PROVE  /\ pc = "fill" /\ ~ft.Impl.open
         /\ UNCHANGED <<length, enabled, Offset, Buffer1, Buffer2>>
         /\ \/ /\ Succeeds /\ Resume <= length
               /\ streams' = streams + 1 /\ ft' = [ft EXCEPT !.Impl = Opened(Resume, length)]
               /\ UNCHANGED <<pc, request, data, fill, ghosts>>
            \/ Resume > length /\ Succeeds /\ Answer(Abstract!Failed) /\ UNCHANGED <<streams, ft>>
            \/ Fails /\ RetryOrFail /\ UNCHANGED <<streams, ft>>
BY Zenon DEF Reopen

\* The stream is opened again where the last one was.
LEMMA ReopenTracks ==
  ASSUME Inv, Typed', Reopen
  PROVE  Tracking'
<1>1. /\ StoreTyped /\ ServeTyped /\ StoreTyped' /\ Positions /\ Filling /\ Growing
      /\ pc = "fill" /\ ~ft.Impl.open /\ enabled
      /\ UNCHANGED <<length, enabled, Offset, Buffer1, Buffer2>>
  BY InvParts, TypedPartsNext, ReopenCases DEF Streaming
<1>2. length \in Nat /\ Resume = Offset /\ Offset \in Nat
  BY <1>1, StreamTyped DEF Positions, Resume, StoreTyped
<1>3. CASE /\ Resume <= length /\ ft' = [ft EXCEPT !.Impl = Opened(Resume, length)]
           /\ UNCHANGED <<pc, request, data, fill, ghosts>>
  <2>1. /\ ft'.Impl.open /\ ft'.Impl.pos = Offset /\ ft'.Impl.size = length /\ ft'.Offset = Offset
    <3>1. ft \in Readers /\ Opened(Resume, length) \in Streams
      BY <1>1, <1>2, StreamValues DEF StoreTyped
    <3>2. ft'.Impl = Opened(Resume, length) /\ ft'.Offset = ft.Offset
      BY <1>3, <3>1, ReaderReplaced
    <3> QED BY <1>1, <1>2, <3>2, StreamValues DEF Positions
  <2>2. Longer
    BY <1>1, <1>3, <2>1 DEF Longer, ghosts
  <2>3. Positions' /\ Filling'
    BY <1>1, <1>2, <1>3, <2>1 DEF Positions, Filling, FileOffset
  <2>4. Growing'
    BY <1>1, <2>1, <2>2, KnownGrows DEF Growing
  <2>5. BytesRight'
    BY <1>1, <1>3, <2>2, BytesStay DEF BytesRight
  <2> QED BY <2>3, <2>4, <2>5 DEF Tracking
<1>4. CASE Answer(Abstract!Failed) /\ (Succeeds \/ Fails) /\ UNCHANGED ft
  <2>1. pc' = "idle" /\ request' = None /\ UNCHANGED lengths /\ faults' >= faults
    BY <1>1, <1>4, FaultsTyped DEF Answer
  <2>2. Longer
    BY <1>1, <1>4, <2>1 DEF Longer
  <2>3. Positions' /\ Filling'
    BY <1>1, <1>4, <2>1 DEF Positions, Filling
  <2>4. Growing'
    <3>1. faults \in Nat /\ faults' \in Nat
      BY <1>1, FaultsTyped, <1>4, Bounds DEF StoreTyped
    <3> QED BY <1>1, <1>4, <2>1, <2>2, <3>1, KnownGrows DEF Growing
  <2>5. BytesRight'
    BY <1>1, <2>1, <2>2, BytesStay DEF BytesRight
  <2> QED BY <2>3, <2>4, <2>5 DEF Tracking
<1>5. CASE Fails /\ Retry /\ UNCHANGED ft
  <2>1. /\ UNCHANGED <<pc, request, data, lengths>> /\ fill' = [fill EXCEPT !.attempt = @ + 1]
        /\ faults' >= faults
    BY <1>1, <1>5, FaultsTyped DEF Retry, ghosts
  <2>2. Longer
    BY <1>1, <1>5, <2>1 DEF Longer
  <2>3. fill'.min = fill.min
    BY <1>1, <2>1 DEF ServeTyped, Fills
  <2>4. Positions' /\ Filling'
    BY <1>1, <1>5, <2>1, <2>3 DEF Positions, Filling, FileOffset
  <2>5. Growing'
    <3>1. faults \in Nat /\ faults' \in Nat
      BY <1>1, FaultsTyped, <1>5, Bounds DEF StoreTyped
    <3> QED BY <1>1, <1>5, <2>1, <2>2, <3>1, KnownGrows DEF Growing
  <2>6. BytesRight'
    BY <1>1, <2>1, <2>2, BytesStay DEF BytesRight
  <2> QED BY <2>4, <2>5, <2>6 DEF Tracking
<1> QED BY <1>3, <1>4, <1>5, ReopenCases DEF RetryOrFail

\* What ReadBackend comes to
Reads(n) == n <= ft.Impl.size - ft.Impl.pos /\ ReadSome(n) /\ Succeeds /\ UNCHANGED streams
Ends     == /\ ft.Impl.size - ft.Impl.pos <= 0 /\ Answer(Success(data))
            /\ Succeeds /\ UNCHANGED <<streams, Offset, Buffer1, ft>>
Closes   == /\ Fails /\ ShouldRetry(fill.attempt) /\ Retry
            /\ CloseImpl /\ ft' = [ft EXCEPT !.Impl = Closed] /\ UNCHANGED <<Offset, Buffer1>>
GivesUp  == Fails /\ Answer(Abstract!Failed) /\ UNCHANGED <<streams, Offset, Buffer1, ft>>

\* These are all its outcomes.
LEMMA BackendCases ==
  ASSUME Inv, ReadBackend
  PROVE  /\ pc = "fill" /\ ft.Impl.open /\ UNCHANGED <<length, enabled, Buffer2>>
         /\ Ends \/ Closes \/ GivesUp \/ \E n \in Nat \ {0} : Reads(n)
<1>1. fill.max \in Nat /\ Len(Buffer1.Data) \in Nat
  BY InvParts, TrueBytes DEF ServeTyped, Fills, StoreTyped
<1>2. \A n \in 1..(fill.max - Len(Buffer1.Data)) : n \in Nat \ {0}
  BY <1>1
<1> QED BY <1>2 DEF ReadBackend, Reads, Ends, Closes, GivesUp

\* A read of the backend extends the fragment by the bytes that come next.
LEMMA ReadsBytes ==
  ASSUME Inv, pc = "fill", ft.Impl.open, NEW n \in Nat \ {0}, Reads(n)
  PROVE  /\ ft'.Impl.open /\ ft'.Impl.size = ft.Impl.size /\ ft'.Impl.pos = Offset'
         /\ ft'.Offset = Offset' /\ Offset' <= ft.Impl.size
         /\ Buffer1' \in Fragments /\ Holds(Buffer1', ft.Impl.size)
         /\ Buffer1'.Offset = Buffer1.Offset /\ Buffer1'.Offset + Len(Buffer1'.Data) = Offset'
         /\ FileOffset >= Buffer1'.Offset /\ Buffer1'.Offset + fill.min = FileOffset + 1
         /\ fill.min \in Nat /\ Len(Buffer1'.Data) \in Nat
         /\ \/ /\ Len(Buffer1'.Data) < fill.min
               /\ fill' = [fill EXCEPT !.attempt = 1] /\ UNCHANGED <<pc, request, data, ghosts>>
            \/ Has(Buffer1', FileOffset) /\ Satisfy(Buffer1')
<1> DEFINE read == [i \in 1..n |-> ft.Impl.pos + i - 1]
<1>1. /\ StoreTyped /\ ServeTyped /\ Positions /\ Filling /\ BytesRight /\ Buffer1 \in Fragments /\ ft \in Readers
      /\ Offset \in Nat /\ fill.min \in Nat /\ FileOffset \in Nat
  BY InvParts, Pending DEF StoreTyped, ServeTyped, Fills
<1>2. /\ ft.Impl.pos = Offset /\ ft.Offset = Offset /\ Offset <= ft.Impl.size
      /\ Buffer1.Offset + Len(Buffer1.Data) = Offset
      /\ Buffer1.Offset + fill.min = FileOffset + 1 /\ Len(Buffer1.Data) < fill.min
  BY <1>1 DEF Positions, Filling
<1>3. ft.Impl.pos \in Nat /\ ft.Impl.size \in Nat /\ Buffer1.Offset \in Nat /\ Len(Buffer1.Data) \in Nat
  BY <1>1, StreamTyped, TrueBytes
<1>4. /\ Offset' = Offset + n /\ Buffer1' \in Fragments /\ Buffer1'.Offset = Buffer1.Offset
      /\ Buffer1'.Data = Buffer1.Data \o read /\ Len(Buffer1'.Data) = Len(Buffer1.Data) + n
      /\ ft' = [ft EXCEPT !.Impl.pos = @ + n, !.Offset = @ + n]
  BY <1>1, ReadSomeTyped DEF Reads
<1>5. /\ ft'.Impl.open = ft.Impl.open /\ ft'.Impl.size = ft.Impl.size
      /\ ft'.Impl.pos = Offset' /\ ft'.Offset = Offset'
  <2>1. ft' = [ft EXCEPT !.Impl.pos = ft.Impl.pos + n, !.Offset = ft.Offset + n]
    BY <1>1, <1>4 DEF Readers, Streams
  <2>2. Offset' \in Nat /\ ft' = [ft EXCEPT !.Impl.pos = Offset', !.Offset = Offset']
    BY <1>1, <1>2, <1>4, <2>1
  <2>3. ft \in Readers
    BY <1>1
  <2> QED BY <2>2, <2>3, ReaderMoved
<1>6. Offset' <= ft.Impl.size /\ Offset' \in Nat
  <2>1. n \in Nat /\ Offset' = Offset + n /\ Offset \in Nat /\ ft.Impl.pos = Offset /\ ft.Impl.size \in Nat
    BY <1>1, <1>2, <1>3, <1>4
  <2>2. Offset' \in Nat
    BY ONLY <2>1
  <2>3. ft.Impl.pos + n <= ft.Impl.size
    BY <2>1 DEF Reads
  <2> QED BY ONLY <2>1, <2>2, <2>3
<1>7. Buffer1'.Offset + Len(Buffer1'.Data) = Offset' /\ Len(Buffer1'.Data) \in Nat
  <2>1. n \in Nat /\ Offset \in Nat /\ Buffer1.Offset + Len(Buffer1.Data) = Offset
    BY <1>1, <1>2
  <2>2. Offset' = Offset + n /\ Buffer1'.Offset = Buffer1.Offset /\ Len(Buffer1'.Data) = Len(Buffer1.Data) + n
    BY <1>4
  <2>3. Len(Buffer1.Data) \in Nat /\ Buffer1.Offset \in Nat
    BY <1>3
  <2>4. Len(Buffer1'.Data) \in Nat
    BY ONLY <2>1, <2>2, <2>3
  <2> QED BY ONLY <2>1, <2>2, <2>3, <2>4
<1>8. IsTrue(Buffer1')
  <2>1. read \in Seq(Nat) /\ Len(read) = n /\ \A i \in 1..n : read[i] = ft.Impl.pos + i - 1
    BY <1>3, BackendBytes
  <2>2. Buffer1.Data \in Seq(Nat) /\ \A i \in 1..Len(Buffer1.Data) : Buffer1.Data[i] = Buffer1.Offset + i - 1
    BY <1>1, TrueBytes DEF BytesRight, Holds
  <2> HIDE DEF read
  <2>3. \A i \in 1..Len(read) : read[i] = Buffer1.Offset + Len(Buffer1.Data) + i - 1
    BY <1>2, <2>1
  <2>4. \A i \in 1..Len(Buffer1.Data \o read) : (Buffer1.Data \o read)[i] = Buffer1.Offset + i - 1
    BY <1>3, <2>1, <2>2, <2>3, JoinedBytes
  <2>5. \A i \in 1..Len(Buffer1'.Data) : Buffer1'.Data[i] = Buffer1'.Offset + i - 1
    BY <1>4, <2>4
  <2> QED BY <1>4, <2>5, TrueBytes
<1>9. FileOffset >= Buffer1'.Offset /\ Buffer1'.Offset + fill.min = FileOffset + 1
  BY <1>1, <1>2, <1>3, <1>4
<1>10. \/ /\ Len(Buffer1'.Data) < fill.min
          /\ fill' = [fill EXCEPT !.attempt = 1] /\ UNCHANGED <<pc, request, data, ghosts>>
       \/ Has(Buffer1', FileOffset) /\ Satisfy(Buffer1')
  <2>1. IF Len(Buffer1'.Data) < fill.min
        THEN fill' = [fill EXCEPT !.attempt = 1] /\ UNCHANGED <<pc, request, data, ghosts>>
        ELSE IF Has(Buffer1', FileOffset) THEN Satisfy(Buffer1')
        ELSE Answer(Abstract!Failed)
    BY DEF Reads, ReadSome
  <2>2. ~(Len(Buffer1'.Data) < fill.min) => Has(Buffer1', FileOffset)
    <3> SUFFICES ASSUME ~(Len(Buffer1'.Data) < fill.min)
                 PROVE  Has(Buffer1', FileOffset)
      OBVIOUS
    <3>1. Len(Buffer1'.Data) \in Nat /\ fill.min \in Nat /\ FileOffset \in Nat /\ Buffer1'.Offset \in Nat
      BY <1>1, <1>3, <1>4, <1>7
    <3>2. FileOffset < Buffer1'.Offset + Len(Buffer1'.Data)
      BY ONLY <1>9, <3>1, ~(Len(Buffer1'.Data) < fill.min)
    <3> QED BY <1>9, <3>2 DEF Has
  <2> QED BY <2>1, <2>2
<1> HIDE DEF read
<1> QED BY <1>1, <1>4, <1>5, <1>6, <1>7, <1>8, <1>9, <1>10 DEF Holds

\* ... and keeps what is held right, also when it fails.
LEMMA BackendTracks ==
  ASSUME Inv, Typed', ReadBackend
  PROVE  Tracking'
<1>1. /\ StoreTyped /\ ServeTyped /\ StoreTyped' /\ Positions /\ Filling /\ Growing
      /\ pc = "fill" /\ ft.Impl.open /\ enabled /\ enabled' /\ request # None
      /\ UNCHANGED <<length, enabled, Buffer2>>
  BY InvParts, TypedPartsNext, BackendCases DEF Streaming, ServeTyped
<1>2. ASSUME NEW n \in Nat \ {0}, Reads(n)
      PROVE  Tracking'
  <2>1. /\ ft'.Impl.open /\ ft'.Impl.size = ft.Impl.size /\ ft'.Impl.pos = Offset'
        /\ ft'.Offset = Offset' /\ Offset' <= ft.Impl.size
        /\ Buffer1' \in Fragments /\ Holds(Buffer1', ft.Impl.size)
        /\ Buffer1'.Offset = Buffer1.Offset /\ Buffer1'.Offset + Len(Buffer1'.Data) = Offset'
        /\ Buffer1'.Offset + fill.min = FileOffset + 1
        /\ \/ /\ Len(Buffer1'.Data) < fill.min
              /\ fill' = [fill EXCEPT !.attempt = 1] /\ UNCHANGED <<pc, request, data, ghosts>>
           \/ Has(Buffer1', FileOffset) /\ Satisfy(Buffer1')
    BY <1>1, <1>2, ReadsBytes
  <2>2. UNCHANGED lengths
    BY <2>1 DEF Satisfy, Answer, ghosts
  <2>3. Longer
    BY <1>1, <2>1, <2>2 DEF Longer
  <2>4. Positions'
    BY <1>1, <2>1 DEF Positions
  <2>5. Growing'
    BY <1>1, <2>1, <2>3, KnownGrows DEF Growing
  <2>6. Known' = ft.Impl.size /\ Known = ft.Impl.size /\ ft.Impl.size \in Nat
    BY <1>1, <2>1, StreamTyped DEF Known
  <2>7. CASE /\ Len(Buffer1'.Data) < fill.min
             /\ fill' = [fill EXCEPT !.attempt = 1] /\ UNCHANGED <<pc, request, data, ghosts>>
    <3>1. fill'.min = fill.min /\ FileOffset' = FileOffset
      BY <1>1, <2>7 DEF ServeTyped, Fills, FileOffset
    <3>2. Filling'
      BY <2>1, <2>7, <3>1 DEF Filling
    <3>3. BytesRight'
      BY <1>1, <2>1, <2>3, <2>6, <2>7, BytesStay DEF BytesRight
    <3> QED BY <2>4, <2>5, <3>2, <3>3 DEF Tracking
  <2>8. CASE Has(Buffer1', FileOffset) /\ Satisfy(Buffer1')
    <3>1. pc' \in {"idle", "partial"}
      BY <2>8 DEF Satisfy, Answer
    <3>2. request' # None => request' = request /\ Holds(Fragment(request.offset, data'), ft.Impl.size)
      <4>1. Holds(Fragment(request.offset, data), ft.Impl.size)
        BY <1>1, <2>6, InvParts DEF BytesRight
      <4>2. Holds(Fragment(request.offset, data \o FromBuffer(Buffer1', FileOffset, Missing)), ft.Impl.size)
        BY <1>1, <2>1, <2>6, <2>8, <4>1, SatisfyHolds
      <4> QED BY <2>8, <4>2 DEF Satisfy, Answer
    <3>3. Filling'
      BY <3>1 DEF Filling
    <3>4. BytesRight'
      BY <1>1, <2>1, <2>3, <2>6, <3>2, BytesStay DEF BytesRight
    <3> QED BY <2>4, <2>5, <3>3, <3>4 DEF Tracking
  <2> QED BY <2>1, <2>7, <2>8
<1>3. CASE Ends \/ GivesUp
  <2>1. /\ pc' = "idle" /\ request' = None /\ UNCHANGED <<lengths, Offset, Buffer1, ft>>
    BY <1>3 DEF Ends, GivesUp, Answer
  <2>2. Longer
    BY <1>1, <2>1 DEF Longer
  <2>3. Positions' /\ Filling'
    BY <1>1, <2>1 DEF Positions, Filling
  <2>4. Growing'
    BY <1>1, <2>1, <2>2, KnownGrows DEF Growing
  <2>5. BytesRight'
    BY <1>1, <2>1, <2>2, BytesStay DEF BytesRight
  <2> QED BY <2>3, <2>4, <2>5 DEF Tracking
<1>4. CASE Closes
  <2>1. /\ UNCHANGED <<pc, request, data, lengths, Offset, Buffer1>> /\ fill' = [fill EXCEPT !.attempt = @ + 1]
        /\ faults' = faults + 1 /\ ft' = [ft EXCEPT !.Impl = Closed]
    BY <1>4 DEF Closes, Retry, Fails, ghosts
  <2>2. ~ft'.Impl.open /\ ft'.Offset = ft.Offset
    <3>1. ft \in Readers /\ Closed \in Streams
      BY <1>1, StreamValues DEF StoreTyped
    <3> QED BY <2>1, <3>1, ReaderReplaced, StreamValues
  <2>3. fill'.min = fill.min
    BY <1>1, <2>1 DEF ServeTyped, Fills
  <2>4. Longer
    BY <1>1, <2>1, <2>2 DEF Longer
  <2>5. Positions' /\ Filling'
    BY <1>1, <2>1, <2>2, <2>3 DEF Positions, Filling, FileOffset
  <2>6. Growing'
    <3>1. faults' > 0
      BY <1>1, <2>1, Bounds DEF StoreTyped
    <3> QED BY <1>1, <2>1, <2>2, <2>4, <3>1, KnownGrows DEF Growing
  <2>7. BytesRight'
    BY <1>1, <2>1, <2>4, BytesStay DEF BytesRight
  <2> QED BY <2>5, <2>6, <2>7 DEF Tracking
<1> QED BY <1>2, <1>3, <1>4, BackendCases

\* A step of which no forward Seek fails keeps the invariant.
LEMMA InvStep ==
  Inv /\ [Next]_vars /\ [HeedsSeek]_vars => Inv'
<1> SUFFICES ASSUME Inv, [Next]_vars, [HeedsSeek]_vars
             PROVE  Inv'
  OBVIOUS
<1>1. Typed'
  BY TypeStep DEF Inv
<1>2. CASE Miss
  <2>1. pc = "partial" /\ pc' \in {"fill", "idle"}
    BY <1>2 DEF Miss, StartFill, Answer
  <2>2. vars' # vars
    BY <2>1 DEF vars
  <2>3. ~SeekIgnored
    BY <1>2, <2>2 DEF HeedsSeek
  <2> QED BY <1>1, <1>2, <2>3, MissTracks DEF Inv
<1>3. CASE UNCHANGED vars
  <2>1. UNCHANGED <<length, faults, enabled, Offset, Buffer1, Buffer2, ft, pc, request, data, fill, lengths>>
    BY <1>3 DEF vars, hdfs, reader, ghosts
  <2>2. Positions' /\ Filling' /\ Growing' /\ BytesRight'
    BY <2>1, InvParts DEF Positions, Filling, FileOffset, Growing, BytesRight, Known
  <2> QED BY <1>1, <2>2 DEF Inv, Tracking
<1> QED BY <1>1, <1>2, <1>3, GrowTracks, ReleaseTracks, ReadTracks, EnableTracks, BufferTracks,
           ReopenTracks, BackendTracks DEF Next, Step, Inv

\* As long as no forward Seek fails, the fragments hold the bytes of the file at
\* their offsets, whatever was read over, retried and reopened
\* (FileFragment.go:13-35).
THEOREM BuffersHoldTheFile == Spec /\ SeeksHeeded => []BuffersTrue
<1>1. Inv => BuffersTrue
  BY InvParts DEF BytesRight, Holds, BuffersTrue
<1> QED BY <1>1, InvInit, InvStep, PTL DEF Spec, SeeksHeeded

\* ... and the reader knows where its stream is (FileHandleReader.go:19).
THEOREM ReaderKnowsItsOffset == Spec /\ SeeksHeeded => []OffsetIsCurrent
<1>1. Inv => OffsetIsCurrent
  BY InvParts DEF Positions, OffsetIsCurrent
<1> QED BY <1>1, InvInit, InvStep, PTL DEF Spec, SeeksHeeded

-----------------------------------------------------------------------------
(* The handle implements the abstract one *)

\* The bytes so far of a request, if there are no more to read, are its answer.
LEMMA RightAnswer ==
  ASSUME NEW r \in Requests, NEW d \in Seq(Nat), NEW n \in Nat,
         \A i \in 1..Len(d) : d[i] = r.offset + i - 1,
         Len(d) <= r.size, d = <<>> \/ r.offset + Len(d) <= n,
         Len(d) = r.size \/ r.offset + Len(d) >= n
  PROVE  Success(d) = Abstract!Answer(r, n)
<1>1. /\ r.offset \in Nat /\ r.size \in Nat /\ Len(d) \in Nat /\ DOMAIN d = 1..Len(d)
      /\ d = <<>> => Len(d) = 0
  BY Bounds, LenProperties
<1>2. Abstract!BytesOf(r, n) = {i \in r.offset .. (r.offset + r.size - 1) : i < n}
  BY DEF Abstract!BytesOf
<1>3. \A j \in Int : j \in Abstract!BytesOf(r, n) <=> r.offset <= j /\ j < r.offset + Len(d)
  <2> SUFFICES ASSUME NEW j \in Int
               PROVE  j \in Abstract!BytesOf(r, n) <=> r.offset <= j /\ j < r.offset + Len(d)
    OBVIOUS
  <2>0. r.offset \in Nat /\ r.size \in Nat /\ Len(d) \in Nat
    BY <1>1
  <2>1. j \in Abstract!BytesOf(r, n) <=> r.offset <= j /\ j <= r.offset + r.size - 1 /\ j < n
    BY ONLY <1>2, <2>0, j \in Int, n \in Nat
  <2>2. CASE Len(d) = r.size /\ r.offset + Len(d) <= n
    BY ONLY <2>0, <2>1, <2>2, j \in Int, n \in Nat
  <2>3. CASE Len(d) = 0 /\ r.offset >= n
    BY ONLY <2>0, <2>1, <2>3, j \in Int, n \in Nat
  <2>4. CASE r.offset + Len(d) = n
    BY ONLY <2>0, <2>1, <2>4, j \in Int, n \in Nat, Len(d) <= r.size
  <2>5. r.size # 0
    BY Bounds
  <2>6. (Len(d) = r.size /\ r.offset + Len(d) <= n) \/ (Len(d) = 0 /\ r.offset >= n) \/ r.offset + Len(d) = n
    <3>1. CASE d = <<>>
      BY <1>1, <2>5, <3>1
    <3>2. CASE r.offset + Len(d) <= n
      <4>1. CASE Len(d) = r.size
        BY <3>2, <4>1
      <4>2. CASE r.offset + Len(d) >= n
        <5>1. r.offset + Len(d) \in Nat
          BY <1>1
        <5>2. r.offset + Len(d) = n
          BY <3>2, <4>2, <5>1
        <5> QED BY <5>2
      <4> QED BY <4>1, <4>2
    <3> QED BY <3>1, <3>2
  <2> QED BY <2>2, <2>3, <2>4, <2>6
<1>4. {j - r.offset + 1 : j \in Abstract!BytesOf(r, n)} = 1..Len(d)
  <2>1. ASSUME NEW j \in Abstract!BytesOf(r, n)
        PROVE  j - r.offset + 1 \in 1..Len(d)
    <3>1. j \in Int /\ r.offset \in Nat /\ Len(d) \in Nat
      BY <1>1, <1>2
    <3>2. r.offset <= j /\ j < r.offset + Len(d)
      BY <1>3, <3>1
    <3> QED BY ONLY <3>1, <3>2
  <2>2. ASSUME NEW i \in 1..Len(d)
        PROVE  r.offset + i - 1 \in Abstract!BytesOf(r, n) /\ i = (r.offset + i - 1) - r.offset + 1
    <3>1. i \in Nat /\ i >= 1 /\ i <= Len(d) /\ r.offset \in Nat /\ Len(d) \in Nat
      BY <1>1
    <3>2. r.offset + i - 1 \in Int /\ r.offset <= r.offset + i - 1 /\ r.offset + i - 1 < r.offset + Len(d)
      BY <3>1
    <3>3. i = (r.offset + i - 1) - r.offset + 1
      BY <3>1
    <3> QED BY <1>3, <3>2, <3>3
  <2> QED BY <2>1, <2>2
<1>5. d = [i \in 1..Len(d) |-> r.offset + i - 1]
  BY <1>1
<1> QED BY <1>4, <1>5 DEF Success, Abstract!Answer, Abstract!Bytes

\* What the steps of a request come to for the kernel
LEMMA KernelSteps ==
  /\ UNCHANGED <<lengths, faults, request, answer>> => UNCHANGED Abstract!vars
  /\ UNCHANGED <<lengths, request, answer>> /\ faults' > 0
     => Abstract!Trouble
  /\ request # None /\ Answer(Abstract!Failed) /\ faults' > 0
     => Abstract!Return
  /\ \A n \in lengths, d \in Seq(Nat) :
       request # None /\ Answer(Success(d)) /\ UNCHANGED faults /\ Success(d) = Abstract!Answer(request, n)
       => Abstract!Return
<1>1. UNCHANGED <<lengths, faults, request, answer>> => UNCHANGED Abstract!vars
  BY DEF Abstract!vars
<1>2. UNCHANGED <<lengths, request, answer>> /\ faults' > 0
      => Abstract!Trouble
  BY DEF Abstract!Trouble
<1>3. request # None /\ Answer(Abstract!Failed) /\ faults' > 0
      => Abstract!Return
  BY DEF Abstract!Return, Answer
<1>4. ASSUME NEW n \in lengths, NEW d \in Seq(Nat),
             request # None, Answer(Success(d)), UNCHANGED faults, Success(d) = Abstract!Answer(request, n)
      PROVE  Abstract!Return
  BY <1>4 DEF Abstract!Return, Answer
<1> QED BY <1>1, <1>2, <1>3, <1>4

\* A request that Satisfy answers gets all its bytes, of a length of the file.
LEMMA SatisfyReturns ==
  ASSUME ServeTyped, Growing, length \in lengths, lengths \subseteq Lengths, pc \notin {"idle", "released"},
         NEW b \in Fragments, Has(b, FileOffset), Satisfy(b), UNCHANGED faults,
         NEW k \in lengths, Holds(b, k), Holds(Fragment(request.offset, data), k)
  PROVE  Abstract!Return \/ UNCHANGED <<lengths, faults, request, answer>>
<1> DEFINE got == data \o FromBuffer(b, FileOffset, Missing)
<1>1. k \in Nat /\ request \in Requests /\ request # None /\ request.offset \in Nat /\ request.size \in Nat
  BY Bounds, Pending
<1>2. got \in Seq(Nat) /\ Len(got) \in Nat
  BY Satisfied
<1>3. Holds(Fragment(request.offset, got), k) /\ request.offset + Len(got) <= k
  BY <1>1, SatisfyHolds
<1>4. CASE Len(got) = request.size /\ Answer(Success(got))
  <2> HIDE DEF got
  <2>1. \A i \in 1..Len(got) : got[i] = request.offset + i - 1
    <3>1. Fragment(request.offset, got) \in Fragments
      BY <1>1, <1>2 DEF Fragment, Fragments
    <3> QED BY <1>3, <3>1, TrueBytes DEF Holds, Fragment
  <2>2. Len(got) <= request.size
    BY <1>1, <1>4
  <2>3. Success(got) = Abstract!Answer(request, k)
    BY <1>1, <1>2, <1>3, <1>4, <2>1, <2>2, RightAnswer
  <2> QED BY <1>1, <1>2, <1>4, <2>3, KernelSteps
<1>5. CASE UNCHANGED <<request, ghosts>>
  BY <1>5 DEF ghosts
<1> QED BY <1>4, <1>5 DEF Satisfy

\* At the end of the file, the bytes so far are all there are.
LEMMA EndReturns ==
  ASSUME Inv, pc = "fill", ft.Impl.open, Ends
  PROVE  Abstract!Return
<1>1. /\ StoreTyped /\ ServeTyped /\ Positions /\ Filling /\ Growing /\ BytesRight /\ Buffer1 \in Fragments
      /\ Offset \in Nat /\ fill.min \in Nat
  BY InvParts DEF StoreTyped, ServeTyped, Fills
<1>2. /\ request \in Requests /\ request # None /\ request.offset \in Nat /\ request.size \in Nat
      /\ data \in Seq(Nat) /\ Len(data) \in Nat /\ Len(data) < request.size
      /\ FileOffset = request.offset + Len(data) /\ FileOffset \in Nat
  BY <1>1, Pending, Bounds
<1>3. /\ ft.Impl.size \in Nat /\ ft.Impl.pos \in Nat /\ ft.Impl.size \in lengths
      /\ Buffer1.Offset \in Nat /\ Len(Buffer1.Data) \in Nat
  BY <1>1, StreamTyped, TrueBytes DEF Growing
<1>4. request.offset + Len(data) >= ft.Impl.size
  <2>1. ft.Impl.pos = Offset /\ Offset >= ft.Impl.size
    BY <1>1, <1>3 DEF Positions, Ends
  <2>2. /\ Buffer1.Offset + Len(Buffer1.Data) = Offset /\ Buffer1.Offset + fill.min = FileOffset + 1
        /\ Len(Buffer1.Data) < fill.min
    BY <1>1 DEF Filling
  <2>3. FileOffset >= Offset
    <3>1. fill.min \in Nat /\ Buffer1.Offset \in Nat /\ Len(Buffer1.Data) \in Nat /\ FileOffset \in Nat
      BY <1>1, <1>2, <1>3
    <3>2. Buffer1.Offset + Len(Buffer1.Data) < Buffer1.Offset + fill.min
      BY ONLY <2>2, <3>1
    <3>3. Offset < FileOffset + 1 /\ Offset \in Nat
      BY ONLY <2>2, <3>1, <3>2
    <3> QED BY ONLY <3>1, <3>3
  <2>4. FileOffset >= ft.Impl.size
    BY <1>1, <1>2, <1>3, <2>1, <2>3
  <2> QED BY <1>2, <2>4
<1>5. /\ data = <<>> \/ request.offset + Len(data) <= ft.Impl.size
      /\ \A i \in 1..Len(data) : data[i] = request.offset + i - 1
  <2>1. Holds(Fragment(request.offset, data), ft.Impl.size)
    BY <1>1, <1>2 DEF BytesRight, Known
  <2>2. Fragment(request.offset, data) \in Fragments
    BY <1>2 DEF Fragment, Fragments
  <2> QED BY <2>1, <2>2, TrueBytes DEF Holds, Fragment
<1>6. Len(data) <= request.size
  BY <1>2
<1>7. Success(data) = Abstract!Answer(request, ft.Impl.size)
  BY <1>2, <1>3, <1>4, <1>5, <1>6, RightAnswer
<1>8. Answer(Success(data)) /\ UNCHANGED faults
  BY DEF Ends, Succeeds
<1> QED BY <1>2, <1>3, <1>7, <1>8, KernelSteps

\* A failure that is answered, or retried
LEMMA FailReturns ==
  ASSUME StoreTyped, request # None, Fails, RetryOrFail
  PROVE  Abstract!Return \/ Abstract!Trouble
<1>1. faults' > 0
  BY Bounds DEF StoreTyped, Fails
<1>2. UNCHANGED <<lengths, request, answer>> \/ Answer(Abstract!Failed)
  BY DEF RetryOrFail, Retry, ghosts
<1> QED BY <1>1, <1>2, KernelSteps

\* Without its stream, or backward beyond what it knows, a request fails only
\* when HDFS has failed.
LEMMA MissReturns ==
  ASSUME Inv, Miss
  PROVE  Abstract!Return \/ UNCHANGED <<lengths, faults, request, answer>>
<1>1. /\ StoreTyped /\ ServeTyped /\ Positions /\ Growing /\ pc = "partial" /\ enabled /\ request # None
      /\ UNCHANGED faults
  BY InvParts, MissCases DEF hdfs, Streaming, ServeTyped
<1>2. CASE MissesOverHole \/ MissSeeks
  BY <1>1, <1>2 DEF MissesOverHole, MissSeeks, StartFill, ghosts
<1>3. CASE MissFails
  <2>1. ~ft.Impl.open
    <3>1. FileOffset \in Nat /\ Offset \in Nat /\ ft.Impl.size \in Nat
      BY <1>1, Pending, StreamTyped DEF StoreTyped
    <3>2. ft.Impl.open => ~(SeekFails(FileOffset) /\ FileOffset - Offset < 0)
      BY <1>1, <3>1 DEF Positions, SeekFails
    <3> QED BY <1>3, <3>2 DEF MissFails
  <2>2. faults' > 0
    BY <1>1, <2>1 DEF Growing
  <2> QED BY <1>1, <1>3, <2>2, KernelSteps DEF MissFails
<1> QED BY <1>2, <1>3, MissCases

\* Every step is one of the abstract handle, or none.
LEMMA KernelNext ==
  Inv /\ [Next]_vars => [Abstract!Next]_(Abstract!vars)
<1> SUFFICES ASSUME Inv, [Next]_vars
             PROVE  Abstract!Next \/ UNCHANGED Abstract!vars
  OBVIOUS
<1>1. /\ StoreTyped /\ ServeTyped /\ Positions /\ Growing /\ BytesRight
      /\ Buffer1 \in Fragments /\ Buffer2 \in Fragments /\ length \in lengths /\ lengths \subseteq Lengths
  BY InvParts DEF StoreTyped
<1>2. Known \in lengths
  BY <1>1 DEF Known, Growing
<1> DEFINE Stutters == UNCHANGED <<lengths, faults, request, answer>>
<1>3. Abstract!Return \/ Abstract!Trouble \/ Stutters => Abstract!Next \/ UNCHANGED Abstract!vars
  BY KernelSteps DEF Abstract!Next
<1>4. CASE Grow
  <2>1. length' \in Lengths /\ lengths' = lengths \cup {length'} /\ UNCHANGED <<faults, request, answer>>
    BY <1>4 DEF Grow
  <2>2. Abstract!Grow
    BY <2>1 DEF Abstract!Grow
  <2> QED BY <2>2 DEF Abstract!Next
<1>5. CASE Release
  BY <1>3, <1>5 DEF Release, ghosts
<1>6. ASSUME NEW r \in Requests, Read(r)
      PROVE  Abstract!Next
  <2>1. /\ request = None /\ request' = r /\ answer' = Abstract!Failed
        /\ UNCHANGED <<lengths, faults>>
    BY <1>1, <1>6 DEF Read, hdfs, ServeTyped
  <2>2. Abstract!Read(r)
    BY <2>1 DEF Abstract!Read
  <2> QED BY <2>2 DEF Abstract!Next
<1>7. CASE EnableRead
  <2>1. request # None
    BY <1>1, <1>7 DEF EnableRead, ServeTyped
  <2>2. CASE Succeeds /\ UNCHANGED <<request, data, ghosts>>
    BY <1>3, <2>2 DEF Succeeds, ghosts
  <2>3. CASE Fails /\ RetryOrFail
    BY <1>1, <1>3, <2>1, <2>3, FailReturns
  <2> QED BY <1>7, <2>2, <2>3 DEF EnableRead
<1>8. CASE ReadFromBuffer
  <2>1. pc = "partial" /\ request # None /\ UNCHANGED faults
    BY <1>1, <1>8 DEF ReadFromBuffer, hdfs, ServeTyped
  <2>2. PICK b \in {Buffer1, Buffer2} : Has(b, FileOffset) /\ Satisfy(b)
    BY <1>8 DEF ReadFromBuffer
  <2>3. b \in Fragments /\ Holds(b, Known) /\ Holds(Fragment(request.offset, data), Known)
    BY <1>1, <2>1 DEF BytesRight
  <2>4. Abstract!Return \/ Stutters
    BY <1>1, <1>2, <2>1, <2>2, <2>3, SatisfyReturns
  <2> QED BY <1>3, <2>4
<1>9. CASE Miss
  BY <1>3, <1>9, MissReturns
<1>10. CASE Reopen
  <2>1. request # None /\ enabled /\ pc = "fill" /\ ~ft.Impl.open
    BY <1>1, <1>10, InvParts, ReopenCases DEF ServeTyped, Streaming
  <2>2. CASE Succeeds /\ UNCHANGED <<pc, request, data, fill, ghosts>>
    BY <1>3, <2>2 DEF Succeeds, ghosts
  <2>3. CASE Succeeds /\ Answer(Abstract!Failed)
    <3>1. faults' > 0
      BY <1>1, <2>1, <2>3 DEF Growing, Succeeds
    <3> QED BY <1>3, <2>1, <2>3, <3>1, KernelSteps
  <2>4. CASE Fails /\ RetryOrFail
    BY <1>1, <1>3, <2>1, <2>4, FailReturns
  <2> QED BY <1>10, <2>2, <2>3, <2>4, ReopenCases
<1>11. CASE ReadBackend
  <2>1. request # None /\ pc = "fill" /\ ft.Impl.open
    BY <1>1, <1>11, BackendCases DEF ServeTyped
  <2>2. ASSUME NEW n \in Nat \ {0}, Reads(n)
        PROVE  Abstract!Return \/ Stutters
    <3>1. /\ Buffer1' \in Fragments /\ Holds(Buffer1', ft.Impl.size)
          /\ \/ UNCHANGED <<pc, request, data, ghosts>>
             \/ Has(Buffer1', FileOffset) /\ Satisfy(Buffer1')
      BY <2>1, <2>2, ReadsBytes
    <3>2. UNCHANGED faults /\ Known = ft.Impl.size /\ Holds(Fragment(request.offset, data), Known)
      BY <1>1, <2>1, <2>2 DEF Reads, Succeeds, Known, BytesRight
    <3>3. CASE UNCHANGED <<pc, request, data, ghosts>>
      BY <3>2, <3>3 DEF ghosts
    <3>4. CASE Has(Buffer1', FileOffset) /\ Satisfy(Buffer1')
      BY <1>1, <1>2, <2>1, <3>1, <3>2, <3>4, SatisfyReturns
    <3> QED BY <3>1, <3>3, <3>4
  <2>3. CASE Ends
    BY <1>3, <2>1, <2>3, EndReturns
  <2>4. CASE Closes
    BY <1>1, <1>3, <2>1, <2>4, FailReturns DEF Closes, RetryOrFail
  <2>5. CASE GivesUp
    BY <1>1, <1>3, <2>1, <2>5, FailReturns DEF GivesUp, RetryOrFail
  <2> QED BY <1>3, <1>11, <2>2, <2>3, <2>4, <2>5, BackendCases
<1>12. CASE UNCHANGED vars
  BY <1>3, <1>12 DEF vars, hdfs, ghosts
<1> QED BY <1>4, <1>5, <1>6, <1>7, <1>8, <1>9, <1>10, <1>11, <1>12 DEF Next, Step

\* A new handle is an abstract one.
LEMMA KernelInit == Init => Abstract!Init
<1> SUFFICES ASSUME Init
             PROVE  Abstract!Init
  OBVIOUS
<1>1. lengths \in {{n} : n \in Lengths} /\ (faults > 0) = FALSE /\ request = None /\ answer = Abstract!Failed
  BY DEF Init
<1> QED BY <1>1 DEF Abstract!Init

\* As long as no forward Seek fails, the kernel sees the bytes of the file, all
\* of those asked for but for its end, or an error if HDFS has failed
\* (FileHandleReader.go:41): the handle implements FileReads.
THEOREM HandleReadsTheFile == Spec /\ SeeksHeeded => ImplementsFileReads
BY InvInit, InvStep, KernelInit, KernelNext, PTL DEF Spec, SeeksHeeded, ImplementsFileReads, Abstract!Spec

-----------------------------------------------------------------------------
(* When no forward Seek fails *)

\* No read begins beyond a length the file may have had when the stream was
\* opened, but for the first blocks of the file, which are read over as a hole.
ReadsNear == \A r \in Requests, n \in Lengths : r.offset <= n \/ r.offset <= 2 * BLOCKSIZE

\* What has been read of a request is within the length that the stream knows, so only
\* a request that begins beyond it seeks too far.
LEMMA NearSeeks ==
  ASSUME Inv, ReadsNear
  PROVE  HeedsSeek
<1> SUFFICES ASSUME Miss, SeekIgnored
             PROVE  FALSE
  BY DEF HeedsSeek
<1>1. /\ StoreTyped /\ ServeTyped /\ Growing /\ BytesRight /\ pc = "partial"
      /\ ft.Impl.open /\ SeekFails(FileOffset) /\ FileOffset - Offset > 2 * BLOCKSIZE
  BY InvParts DEF Miss, SeekIgnored
<1>2. /\ request \in Requests /\ request.offset \in Nat /\ data \in Seq(Nat) /\ Len(data) \in Nat
      /\ FileOffset = request.offset + Len(data) /\ Offset \in Nat /\ BLOCKSIZE \in Nat /\ request # None
  BY <1>1, Pending, Bounds, NoneAssumption DEF StoreTyped
<1>3. ft.Impl.size \in Lengths /\ ft.Impl.size \in Nat
  BY <1>1, Bounds DEF Growing, StoreTyped
<1>4. FileOffset > ft.Impl.size
  BY <1>1 DEF SeekFails
<1>5. CASE data = <<>>
  <2>1. FileOffset = request.offset
    BY <1>2, <1>5, LenProperties
  <2>2. request.offset <= ft.Impl.size \/ request.offset <= 2 * BLOCKSIZE
    BY <1>2, <1>3 DEF ReadsNear
  <2> QED BY <1>1, <1>2, <1>3, <1>4, <2>1, <2>2
<1>6. CASE data # <<>>
  <2>1. request.offset + Len(data) <= ft.Impl.size
    BY <1>1, <1>2, <1>6 DEF BytesRight, Holds, Known, Fragment
  <2> QED BY <1>2, <1>3, <1>4, <2>1
<1> QED BY <1>5, <1>6

\* The hypothesis of the theorems above is that of the requests and lengths: if no read
\* begins far beyond a length that the file has had, no forward Seek fails.
THEOREM NearReadsHeeded ==
  ASSUME ReadsNear
  PROVE  Spec => SeeksHeeded
<1>1. Inv => HeedsSeek
  BY NearSeeks
<1>2. Inv /\ [Next]_vars => [HeedsSeek]_vars /\ Inv'
  <2>1. Inv /\ [Next]_vars => [HeedsSeek]_vars
    BY <1>1
  <2> QED BY <2>1, InvStep
<1> QED BY <1>2, InvInit, PTL DEF Spec, SeeksHeeded

\* Then the handle implements FileReads, and the fragments are right, whatever else
\* fails (FileHandleReader.go:41, FileFragment.go:13).
THEOREM NearReadsAreRight ==
  ASSUME ReadsNear
  PROVE  Spec => ImplementsFileReads /\ []BuffersTrue
BY NearReadsHeeded, HandleReadsTheFile, BuffersHoldTheFile, PTL
=============================================================================
