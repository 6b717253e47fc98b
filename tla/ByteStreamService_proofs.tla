---------------------- MODULE ByteStreamService_proofs ----------------------
(***************************************************************************)
(* The steps of the ByteStream service keep the shapes of its calls, the   *)
(* invariant of the store and the content of the CAS.                      *)
(***************************************************************************)
EXTENDS ByteStreamService, InMemoryStore_proofs, SequenceTheorems, WellFoundedInduction

\* A stream that has a name has one that parses, and so a well-formed key.
NamedStreams ==
    \A c \in WriteCalls : writes[c] # Idle /\ writes[c].name # EmptyName =>
        Parses(writes[c].name)

StreamInv == StreamTypeOK /\ NamedStreams

\* No stream of a new server is open.
LEMMA StreamInitInv == StreamInit => StreamInv
BY DEF StreamInit, StreamInv, StreamTypeOK, NamedStreams

\* Rounding a length up to whole chunks gives a number of chunks.
LEMMA QuotientIsNat ==
    ASSUME NEW m \in Nat, NEW n \in Nat \ {0}
    PROVE  m \div n \in Nat
OBVIOUS

\* Chunks of a byte string are byte strings.
LEMMA InChunksType ==
    ASSUME NEW data \in Seq(Byte)
    PROVE  InChunks(data) \in Seq(Seq(Byte))
<1> DEFINE n == (Len(data) + ChunkSize - 1) \div ChunkSize
           Part(i) == SubSeq(data, (i - 1) * ChunkSize + 1, Least(i * ChunkSize, Len(data)))
<1>1. ChunkSize \in Nat \ {0} /\ Len(data) \in Nat
  BY StreamAssumption
<1>2. n \in Nat
  BY <1>1, QuotientIsNat
<1>3. ASSUME NEW i \in 1..n
      PROVE  Part(i) \in Seq(Byte)
  <2>1. /\ (i - 1) * ChunkSize + 1 \in Nat \ {0}
        /\ Least(i * ChunkSize, Len(data)) \in Nat
        /\ Least(i * ChunkSize, Len(data)) <= Len(data)
    BY <1>1 DEF Least
  <2> QED
    BY <2>1
<1> HIDE DEF n, Part
<1>4. [i \in 1..n |-> Part(i)] \in Seq(Seq(Byte))
  BY <1>2, <1>3
<1> QED
  BY <1>4 DEF InChunks, n, Part

\* So is a slice of one, compressed or not.
LEMMA SliceType ==
    ASSUME NEW b \in Bytes, NEW offset \in 0..Len(b), NEW limit \in Nat
    PROVE  Slice(b, offset, limit) \in Seq(Byte)
           /\ Compress(Slice(b, offset, limit)) \in Seq(Byte)
<1> DEFINE end == IF limit = 0 THEN Len(b) ELSE Least(offset + limit, Len(b))
<1>1. b \in Seq(Byte) /\ Len(b) \in Nat
  BY BytesAreSequences
<1>2. end \in 0..Len(b)
  BY <1>1 DEF Least
<1>3. SubSeq(b, offset + 1, end) \in Seq(Byte)
  BY <1>1, <1>2
<1>4. Compress(SubSeq(b, offset + 1, end)) \in Seq(Byte)
  BY <1>2, CodecAssumption
<1> QED
  BY <1>3, <1>4 DEF Slice

-----------------------------------------------------------------------------

\* A read, while it arrives and when it is answered, keeps the invariant and
\* leaves the store alone.
LEMMA DownloadTypes ==
    ASSUME StoreInv, StreamTypeOK, NEW c \in DownloadCalls,
           \/ \E request \in Downloads : DownloadArrives(c, request)
           \/ DownloadReads(c)
    PROVE  StreamTypeOK' /\ UNCHANGED storeVars /\ downloads'[c] \in DownloadCall
<1>1. ASSUME NEW request \in Downloads, DownloadArrives(c, request)
      PROVE  StreamTypeOK' /\ UNCHANGED storeVars /\ downloads'[c] \in DownloadCall
  <2>1. downloads'[c] = [status |-> DownloadAdmission(request), request |-> request,
                         chunks |-> << >>, before |-> DOMAIN blobs]
    BY <1>1 DEF DownloadArrives, StreamTypeOK
  <2>2. DownloadAdmission(request) \in Status
    BY DEF DownloadAdmission, Admission, Status, Code
  <2>3. << >> \in Seq(Seq(Byte))
    OBVIOUS
  <2>4. downloads'[c] \in DownloadCall
    BY <2>1, <2>2, <2>3 DEF DownloadCall, StoreInv
  <2> QED
    BY <1>1, <2>4 DEF DownloadArrives, StreamTypeOK
<1>2. ASSUME DownloadReads(c)
      PROVE  StreamTypeOK' /\ UNCHANGED storeVars /\ downloads'[c] \in DownloadCall
  <2> DEFINE call == downloads[c]
             request == call.request
             resource == Parse(request.name)
             blob == Get(ResourceKey(resource))
             code == DownloadOutcome(request)
             slice == Slice(IdentityData(blob), request.offset, request.limit)
             chunks == IF code # "Ok" THEN << >>
                       ELSE InChunks(IF resource.compressed
                                     THEN Compress(slice) ELSE slice)
  <2>1. call \in DownloadCall /\ request \in Download
    BY <1>2, StreamAssumption DEF DownloadReads, StreamTypeOK, Running, DownloadCall
  <2>2. code \in Status
    BY DEF DownloadOutcome, Status, Code
  <2>3. chunks \in Seq(Seq(Byte))
    <3>1. CASE code # "Ok"
      BY <3>1
    <3>2. CASE code = "Ok"
      <4>1. /\ Contains(ResourceKey(resource))
            /\ Validates(resource.hash, resource.size, IdentityData(blob))
            /\ request.offset \in 0..resource.size
            /\ ~(request.limit < 0)
        BY <3>2 DEF DownloadOutcome
      <4>2. IdentityData(blob) \in Bytes /\ Len(IdentityData(blob)) = resource.size
        BY <4>1 DEF Contains, Get, StoreInv, Decodes, Validates
      <4>3. request.limit \in Nat
        BY <2>1, <4>1 DEF Download
      <4>4. slice \in Seq(Byte) /\ Compress(slice) \in Seq(Byte)
        BY <4>1, <4>2, <4>3, SliceType
      <4> QED
        BY <3>2, <4>4, InChunksType
    <3> QED
      BY <3>1, <3>2
  <2>4. downloads'[c] = [call EXCEPT !.status = code, !.chunks = chunks]
    BY <1>2 DEF DownloadReads, StreamTypeOK
  <2> HIDE DEF code, chunks
  <2>5. downloads'[c] \in DownloadCall
    BY <2>1, <2>2, <2>3, <2>4 DEF DownloadCall
  <2> QED
    BY <1>2, <2>5 DEF DownloadReads, StreamTypeOK
<1> QED
  BY <1>1, <1>2

-----------------------------------------------------------------------------

\* A message that fits extends the call.
LEMMA ExtendedType ==
    ASSUME StreamInv, NEW c \in WriteCalls, NEW chunk \in WriteChunks,
           Running(writes[c]), WithinStreamBound(writes[c], chunk),
           Fits(writes[c], chunk)
    PROVE  /\ Extended(writes[c], chunk) \in WriteCall
           /\ Extended(writes[c], chunk).status = writes[c].status
           /\ Extended(writes[c], chunk).name \in Names
           /\ Parses(Extended(writes[c], chunk).name)
<1> DEFINE call == writes[c]
           name == IF call.name = EmptyName THEN chunk.name ELSE call.name
<1>1. call \in WriteCall
  BY DEF StreamInv, StreamTypeOK, Running
<1>2. chunk.name \in Names \cup {EmptyName}
  BY StreamAssumption DEF WriteChunk
<1>3. name \in Names /\ Parses(name)
  BY <1>1, <1>2
     DEF Fits, NamedAsExpected, StreamInv, NamedStreams, Running, WriteCall
<1>4. call.received \o chunk.data \in Bytes
  BY DEF WithinStreamBound
<1>5. Extended(call, chunk) =
          [call EXCEPT !.name = name, !.received = call.received \o chunk.data]
  BY <1>1 DEF Extended, WriteCall
<1> HIDE DEF name
<1>6. Extended(call, chunk) \in WriteCall
  BY <1>1, <1>3, <1>4, <1>5 DEF WriteCall
<1>7. Extended(call, chunk).name = name /\ Extended(call, chunk).status = call.status
  BY <1>1, <1>5 DEF WriteCall
<1> QED
  BY <1>3, <1>6, <1>7

\* The calls of a write that ends, or goes on, keep their shape.
LEMMA WriteEndsInv ==
    ASSUME StreamInv, NEW c \in WriteCalls, NEW call \in WriteCall \cup {Idle},
           call # Idle /\ call.name # EmptyName => Parses(call.name),
           downloads' = downloads, writes' = [writes EXCEPT ![c] = call]
    PROVE  StreamInv'
BY DEF StreamInv, StreamTypeOK, NamedStreams

\* A write that is refused keeps the invariant, whatever it has received.
LEMMA WriteFailsInv ==
    ASSUME StreamInv, NEW c \in WriteCalls, Running(writes[c]),
           NEW code \in Code, WriteFails(c, code)
    PROVE  StreamInv' /\ UNCHANGED storeVars /\ writes'[c] \in WriteCall
<1> DEFINE call == [writes[c] EXCEPT !.status = code, !.received = << >>]
<1>1. writes[c] \in WriteCall
  BY DEF StreamInv, StreamTypeOK, Running
<1>2. call \in WriteCall /\ call.name = writes[c].name
  BY <1>1, BytesAssumption DEF WriteCall, Status
<1>3. call.name # EmptyName => Parses(call.name)
  BY <1>2 DEF StreamInv, NamedStreams, Running
<1>4. writes'[c] = call
  BY DEF WriteFails, WriteEnds, StreamInv, StreamTypeOK
<1> QED
  BY <1>2, <1>3, <1>4, WriteEndsInv DEF WriteFails, WriteEnds

\* Every step of a write but the put.
LEMMA WriteTypes ==
    ASSUME StreamInv, NEW c \in WriteCalls,
           \/ WriteOpens(c) \/ WriteStops(c) \/ WriteBreaks(c)
           \/ \E chunk \in WriteChunks :
                 WriteReceives(c, chunk) \/ WriteRejects(c, chunk) \/ WritePanics(c, chunk)
    PROVE  StreamInv' /\ (UNCHANGED storeVars \/ PutPanics)
<1>1. ASSUME WriteOpens(c)
      PROVE  StreamInv' /\ UNCHANGED storeVars
  <2> DEFINE call == [status |-> "running", name |-> EmptyName,
                      received |-> << >>, committed |-> 0]
  <2>1. call \in WriteCall
    BY BytesAssumption DEF WriteCall, Status
  <2> QED
    BY <1>1, <2>1, WriteEndsInv DEF WriteOpens
<1>2. ASSUME WriteStops(c)
      PROVE  StreamInv' /\ UNCHANGED storeVars
  BY <1>2, WriteFailsInv DEF WriteStops, Code
<1>3. ASSUME WriteBreaks(c)
      PROVE  StreamInv' /\ UNCHANGED storeVars
  BY <1>3, WriteEndsInv DEF WriteBreaks, WriteEnds
<1>4. ASSUME NEW chunk \in WriteChunks, WriteReceives(c, chunk)
      PROVE  StreamInv' /\ UNCHANGED storeVars
  <2>1. CASE WriteFails(c, "InvalidArgument")
    BY <1>4, <2>1, WriteFailsInv DEF WriteReceives, Code
  <2>2. CASE Fits(writes[c], chunk) /\ WriteEnds(c, Extended(writes[c], chunk))
    BY <1>4, <2>2, ExtendedType, WriteEndsInv DEF WriteReceives, WriteEnds
  <2> QED
    BY <1>4, <2>1, <2>2 DEF WriteReceives
<1>5. ASSUME NEW chunk \in WriteChunks, WriteRejects(c, chunk)
      PROVE  StreamInv' /\ UNCHANGED storeVars
  BY <1>5, WriteFailsInv DEF WriteRejects, Finishes, Code
<1>6. ASSUME NEW chunk \in WriteChunks, WritePanics(c, chunk)
      PROVE  StreamInv' /\ PutPanics
  BY <1>6, WriteEndsInv DEF WritePanics
<1> QED
  BY <1>1, <1>2, <1>3, <1>4, <1>5, <1>6

\* The put of a write stores what the whole stream carried, verified.
LEMMA WritePutsGoodEntry ==
    ASSUME StoreInv, StreamInv, NEW c \in WriteCalls, NEW chunk \in WriteChunks,
           WriteCommits(c, chunk)
    PROVE  StreamInv' /\ StoreStep("cas") /\ writes'[c] \in WriteCall
<1> DEFINE call == Extended(writes[c], chunk)
           resource == Parse(call.name)
           encoding == ResourceEncoding(resource)
           data == WriteIdentity(call)
           key == ResourceKey(resource)
<1>1. /\ call \in WriteCall
      /\ call.name \in Names
      /\ Parses(call.name)
  BY ExtendedType DEF WriteCommits, Finishes
<1>2. resource.instance \in Instances /\ resource.hash \in Hashes
  BY <1>1, NamesAssumption
<1>3. encoding \in Encoding /\ call.received \in Bytes
  BY <1>1 DEF WriteCall, ResourceEncoding, Encoding
<1>4. data \in Bytes /\ Hash(data) = resource.hash
  <2>1. VerifiedUpload(resource.hash, resource.size, call.received, encoding)
    BY DEF WriteCommits, WriteVerifies
  <2> QED
    BY <1>3, <2>1, VerifiedUploadIdentity DEF WriteIdentity
<1>5. Decodes(StoredForm(data)) /\ IdentityData(StoredForm(data)) = data
  BY <1>4, StoredFormDecodes DEF WriteCommits
<1>6. key \in BlobKey /\ key.kind = "cas" /\ key.hash = resource.hash
  BY <1>2 DEF ResourceKey, CasKey, BlobKey, Kind
<1>7. StoreStep("cas")
  <2>1. GoodEntry(key, StoredForm(data)) /\ StoredForm(data) \in Blob
    BY <1>4, <1>5, <1>6 DEF GoodEntry, Decodes
  <2>2. Put(key, StoredForm(data))
    BY DEF WriteCommits
  <2> QED
    BY <1>6, <2>1, <2>2 DEF StoreStep
<1>8. StreamInv' /\ writes'[c] \in WriteCall
  <2> DEFINE done == [call EXCEPT !.status = "Ok", !.committed = Len(call.received)]
  <2>1. Len(call.received) \in Nat
    BY <1>3, BytesAreSequences
  <2>2. done \in WriteCall /\ done.name = call.name
    BY <1>1, <2>1 DEF WriteCall, Status, Code
  <2>3. writes'[c] = done
    BY DEF WriteCommits, StreamInv, StreamTypeOK
  <2> QED
    BY <1>1, <2>2, <2>3, WriteEndsInv DEF WriteCommits
<1> QED
  BY <1>7, <1>8

-----------------------------------------------------------------------------

\* A step of the service, whichever, keeps the invariant and only adds to the CAS.
LEMMA StreamStep ==
    ASSUME StoreInv, StreamInv, StreamNext
    PROVE  StreamInv' /\ StoreStep("cas")
<1>1. CASE \E c \in DownloadCalls :
              \/ \E request \in Downloads : DownloadArrives(c, request)
              \/ DownloadReads(c)
  <2>1. StreamTypeOK' /\ UNCHANGED storeVars
    BY <1>1, DownloadTypes DEF StreamInv
  <2>2. UNCHANGED writes
    BY <1>1 DEF DownloadArrives, DownloadReads
  <2> QED
    BY <2>1, <2>2 DEF StreamInv, NamedStreams, StoreStep
<1>2. CASE \E c \in WriteCalls :
              \/ WriteOpens(c) \/ WriteStops(c) \/ WriteBreaks(c)
              \/ \E chunk \in WriteChunks :
                    WriteReceives(c, chunk) \/ WriteRejects(c, chunk) \/ WritePanics(c, chunk)
  BY <1>2, WriteTypes DEF StoreStep
<1>3. CASE \E c \in WriteCalls, chunk \in WriteChunks : WriteCommits(c, chunk)
  BY <1>3, WritePutsGoodEntry
<1>4. CASE StreamReturns
  <2>1. StreamInv' /\ UNCHANGED storeVars
    BY <1>4 DEF StreamReturns, WriteEnds, StreamInv, StreamTypeOK, NamedStreams
  <2> QED
    BY <2>1 DEF StoreStep
<1> QED
  BY <1>1, <1>2, <1>3, <1>4 DEF StreamNext

-----------------------------------------------------------------------------
(* The pieces of a download, put together again *)

\* Every non-empty set of natural numbers has a least element.
LEMMA LeastNumber ==
    ASSUME NEW T \in SUBSET Nat, T # {}
    PROVE  \E m \in T : \A n \in T : m <= n
<1> DEFINE less == OpToRel(<, Nat)
<1>1. \A n, m \in Nat : n < m => <<n, m>> \in less
  BY DEF OpToRel
<1>2. IsWellFoundedOn(less, Nat)
  BY NatLessThanWellFounded
<1> HIDE DEF less
<1>3. PICK m \in T : \A n \in T : <<n, m>> \notin less
  BY <1>2, WFMin
<1>4. \A n \in T : m \in Nat /\ n \in Nat /\ ~(n < m)
  BY <1>1, <1>3
<1> QED
  BY <1>4

\* g[i] is what the first i pieces of s are, put together.
Accumulates(g, s, n) ==
    /\ g = [i \in 1..n |-> g[i]]
    /\ \A i \in 1..n : g[i] = IF i = 1 THEN s[i] ELSE g[i - 1] \o s[i]

\* FlattenSeq is what its equation determines.
LEMMA FlattenBySteps ==
    ASSUME NEW s, NEW n \in Nat \ {0}, Len(s) = n, NEW g, Accumulates(g, s, n)
    PROVE  SeqExt!FlattenSeq(s) = g[n]
<1> DEFINE Step(f) == [i \in 1..n |-> IF i = 1 THEN s[i] ELSE f[i - 1] \o s[i]]
           f == CHOOSE h : h = Step(h)
<1>1. f = Step(f)
  <2>1. g = Step(g)
    BY DEF Accumulates
  <2> QED
    BY <2>1
<1>2. SeqExt!FlattenSeq(s) = f[n]
  BY DEF SeqExt!FlattenSeq
<1> HIDE DEF f
<1>3. \A i \in 1..n : f[i] = g[i]
  <2> DEFINE wrong == {i \in 1..n : f[i] # g[i]}
  <2> SUFFICES ASSUME wrong # {} PROVE FALSE
    OBVIOUS
  <2>1. PICK m \in wrong : \A i \in wrong : m <= i
    <3>1. wrong \in SUBSET Nat
      OBVIOUS
    <3> QED
      BY <3>1, LeastNumber
  <2>2. /\ f[m] = IF m = 1 THEN s[m] ELSE f[m - 1] \o s[m]
        /\ g[m] = IF m = 1 THEN s[m] ELSE g[m - 1] \o s[m]
    BY <1>1 DEF Accumulates
  <2>3. m # 1 => f[m - 1] = g[m - 1]
    BY <2>1
  <2> QED
    BY <2>1, <2>2, <2>3
<1> QED
  BY <1>2, <1>3

\* Rounding up to whole chunks: the last one is not empty and reaches the end.
LEMMA ChunkCount ==
    ASSUME NEW length \in Nat, NEW size \in Nat \ {0}
    PROVE  LET n == (length + size - 1) \div size IN
           /\ n \in Nat
           /\ n * size >= length
           /\ n # 0 => (n - 1) * size < length
<1> DEFINE n == (length + size - 1) \div size
<1>1. n \in Nat
  BY QuotientIsNat
<1>2. n * size <= length + size - 1 /\ length + size - 1 < (n + 1) * size
  OBVIOUS
<1> HIDE DEF n
<1>3. (n + 1) * size = n * size + size /\ (n - 1) * size = n * size - size
  BY <1>1
<1>4. n * size \in Nat
  BY <1>1
<1> QED
  BY <1>1, <1>2, <1>3, <1>4 DEF n

\* Multiples of the chunk size are in order.
LEMMA MultiplesInOrder ==
    ASSUME NEW i \in Nat, NEW n \in Nat, i <= n, NEW size \in Nat
    PROVE  i * size <= n * size
OBVIOUS

\* Adjacent pieces of a sequence are one piece.
LEMMA SubSeqJoins ==
    ASSUME NEW S, NEW s \in Seq(S), NEW m \in Nat, NEW n \in Nat, m <= n, n <= Len(s)
    PROVE  SubSeq(s, 1, m) \o SubSeq(s, m + 1, n) = SubSeq(s, 1, n)
<1> DEFINE a == SubSeq(s, 1, m)
           b == SubSeq(s, m + 1, n)
           whole == SubSeq(s, 1, n)
<1>1. /\ a \in Seq(S) /\ Len(a) = m /\ \A i \in 1..m : a[i] = s[i]
      /\ b \in Seq(S) /\ Len(b) = n - m /\ \A i \in 1..(n - m) : b[i] = s[m + i]
      /\ whole \in Seq(S) /\ Len(whole) = n /\ \A i \in 1..n : whole[i] = s[i]
  OBVIOUS
<1> HIDE DEF a, b, whole
<1>2. /\ a \o b \in Seq(S) /\ Len(a \o b) = Len(a) + Len(b)
      /\ \A i \in 1..(Len(a) + Len(b)) :
            (a \o b)[i] = IF i <= Len(a) THEN a[i] ELSE b[i - Len(a)]
  <2>1. a \in Seq(S) /\ b \in Seq(S)
    BY <1>1
  <2> QED
    BY <2>1, ConcatProperties, Zenon
<1>3. ASSUME NEW i \in 1..n
      PROVE  (a \o b)[i] = whole[i]
  <2>1. CASE i <= m
    <3>1. i \in 1..(Len(a) + Len(b)) /\ i <= Len(a) /\ i \in 1..m
      BY <1>1, <2>1
    <3>2. (a \o b)[i] = a[i]
      BY <1>2, <3>1
    <3> QED
      BY <1>1, <3>1, <3>2
  <2>2. CASE i > m
    <3>1. i \in 1..(Len(a) + Len(b)) /\ ~(i <= Len(a)) /\ Len(a) = m
      BY <1>1, <2>2
    <3>2. (a \o b)[i] = b[i - m]
      BY <1>2, <3>1
    <3>3. i - m \in 1..(n - m) /\ m + (i - m) = i
      BY <2>2
    <3>4. b[i - m] = s[m + (i - m)]
      BY <1>1, <3>3
    <3>5. whole[i] = s[i]
      BY <1>1
    <3> QED
      BY <3>2, <3>3, <3>4, <3>5
  <2>3. i <= m \/ i > m
    OBVIOUS
  <2> QED
    BY <2>1, <2>2, <2>3
<1>4. a \o b = whole
  <2>1. Len(a \o b) = Len(whole) /\ Len(whole) = n
    BY <1>1, <1>2
  <2>2. \A i \in 1..Len(a \o b) : (a \o b)[i] = whole[i]
    BY <1>3, <2>1
  <2> QED
    BY <1>1, <1>2, <2>1, <2>2, SeqEqual
<1> QED
  BY <1>4 DEF a, b, whole

\* A chunk covers some bytes, at most ChunkSize, up to the end of the data.
LEMMA ChunkBounds ==
    ASSUME NEW length \in Nat,
           NEW i \in 1..((length + ChunkSize - 1) \div ChunkSize)
    PROVE  LET from == (i - 1) * ChunkSize
               to == Least(i * ChunkSize, length)
           IN  /\ from \in Nat /\ to \in Nat
               /\ i * ChunkSize = from + ChunkSize
               /\ from < to /\ to <= length /\ to <= from + ChunkSize
<1> DEFINE n == (length + ChunkSize - 1) \div ChunkSize
           from == (i - 1) * ChunkSize
           to == Least(i * ChunkSize, length)
<1>1. ChunkSize \in Nat \ {0}
  BY StreamAssumption
<1>2. /\ n \in Nat
      /\ n # 0 => (n - 1) * ChunkSize < length
  BY <1>1, ChunkCount
<1>3. i \in 1..n
  OBVIOUS
<1> HIDE DEF n
<1>4. /\ from \in Nat
      /\ i * ChunkSize = from + ChunkSize
      /\ from <= (n - 1) * ChunkSize
  <2>1. i - 1 \in Nat /\ n - 1 \in Nat /\ i - 1 <= n - 1
    BY <1>2, <1>3
  <2> QED
    BY <1>1, <2>1, MultiplesInOrder
<1>5. from < length /\ (n - 1) * ChunkSize \in Int
  BY <1>1, <1>2, <1>3, <1>4
<1> QED
  BY <1>1, <1>4, <1>5 DEF Least

\* No chunk is empty and none is too large.
LEMMA ChunkLengths ==
    ASSUME NEW data \in Seq(Byte), NEW i \in DOMAIN InChunks(data)
    PROVE  Len(InChunks(data)[i]) \in 1..ChunkSize
<1> DEFINE from == (i - 1) * ChunkSize
           to == Least(i * ChunkSize, Len(data))
<1>1. i \in 1..((Len(data) + ChunkSize - 1) \div ChunkSize) /\ Len(data) \in Nat
  BY DEF InChunks
<1>2. /\ from \in Nat /\ to \in Nat
      /\ from < to /\ to <= Len(data) /\ to <= from + ChunkSize
  BY <1>1, ChunkBounds
<1>3. InChunks(data)[i] = SubSeq(data, from + 1, to)
  BY <1>1 DEF InChunks
<1> HIDE DEF from, to
<1>4. Len(SubSeq(data, from + 1, to)) = to - from
  BY <1>2
<1> QED
  BY <1>2, <1>3, <1>4, StreamAssumption

\* The chunks of a byte string, put together, are the byte string.
LEMMA ChunksFlatten ==
    ASSUME NEW data \in Seq(Byte)
    PROVE  SeqExt!FlattenSeq(InChunks(data)) = data
<1> DEFINE length == Len(data)
           n == (length + ChunkSize - 1) \div ChunkSize
           chunks == InChunks(data)
           g == [i \in 1..n |-> SubSeq(data, 1, Least(i * ChunkSize, length))]
<1>1. ChunkSize \in Nat \ {0} /\ length \in Nat
  BY StreamAssumption
<1>2. /\ n \in Nat
      /\ n * ChunkSize >= length
      /\ n # 0 => (n - 1) * ChunkSize < length
  BY <1>1, ChunkCount
<1>3. chunks = [i \in 1..n |-> SubSeq(data, (i - 1) * ChunkSize + 1,
                                            Least(i * ChunkSize, length))]
  BY DEF InChunks
<1> HIDE DEF length, n, chunks
<1>4. CASE n = 0
  <2>1. length = 0
    BY <1>1, <1>2, <1>4
  <2>2. data = << >>
    BY <2>1 DEF length
  <2>3. chunks = << >> /\ Len(chunks) = 0
    BY <1>3, <1>4
  <2> QED
    BY <2>2, <2>3 DEF SeqExt!FlattenSeq, chunks
<1>5. CASE n # 0
  <2>1. Len(chunks) = n
    BY <1>2, <1>3
  <2>2. ASSUME NEW i \in 1..n
        PROVE  g[i] = IF i = 1 THEN chunks[i] ELSE g[i - 1] \o chunks[i]
    <3> DEFINE from == (i - 1) * ChunkSize
               to == Least(i * ChunkSize, length)
    <3>1. /\ from \in Nat /\ to \in Nat
          /\ i * ChunkSize = from + ChunkSize
          /\ from < to /\ to <= length
      BY <1>1, ChunkBounds DEF n
    <3>2. chunks[i] = SubSeq(data, from + 1, to)
      BY <1>3
    <3>3. g[i] = SubSeq(data, 1, to)
      OBVIOUS
    <3>4. CASE i = 1
      <4>1. from = 0
        BY <1>1, <3>4
      <4> HIDE DEF from, to, g
      <4> QED
        BY <3>2, <3>3, <3>4, <4>1
    <3>5. CASE i # 1
      <4>1. i - 1 \in 1..n
        BY <1>2, <3>5
      <4>2. g[i - 1] = SubSeq(data, 1, from)
        <5>1. Least(from, length) = from
          BY <1>1, <3>1 DEF Least
        <5> QED
          BY <4>1, <5>1
      <4> HIDE DEF from, to, g
      <4>3. SubSeq(data, 1, from) \o SubSeq(data, from + 1, to) = SubSeq(data, 1, to)
        BY <3>1, SubSeqJoins DEF length
      <4> QED
        BY <3>2, <3>3, <3>5, <4>2, <4>3
    <3> QED
      BY <3>4, <3>5
  <2>3. g = [i \in 1..n |-> g[i]]
    OBVIOUS
  <2>4. g[n] = data
    <3>1. n \in 1..n
      BY <1>2, <1>5
    <3>2. n * ChunkSize \in Nat /\ Least(n * ChunkSize, length) = length
      BY <1>1, <1>2 DEF Least
    <3>3. SubSeq(data, 1, Len(data)) = data
      OBVIOUS
    <3> QED
      BY <3>1, <3>2, <3>3 DEF length
  <2> HIDE DEF g
  <2>5. Accumulates(g, chunks, n)
    BY <2>2, <2>3 DEF Accumulates
  <2>6. n \in Nat \ {0}
    BY <1>2, <1>5
  <2>7. SeqExt!FlattenSeq(chunks) = g[n]
    BY <2>1, <2>5, <2>6, FlattenBySteps
  <2> QED
    BY <2>4, <2>7 DEF chunks
<1> QED
  BY <1>4, <1>5

\* What the handler cuts out of a blob is what the client wants of it.
LEMMA SliceIsWanted ==
    ASSUME NEW b \in Seq(Byte), NEW offset \in 0..Len(b), NEW limit \in Nat
    PROVE  Slice(b, offset, limit) = Wanted(b, offset, limit)
<1> DEFINE rest == SubSeq(b, offset + 1, Len(b))
<1>1. /\ Len(b) \in Nat
      /\ rest \in Seq(Byte)
      /\ Len(rest) = Len(b) - offset
      /\ \A i \in 1..(Len(b) - offset) : rest[i] = b[offset + i]
  OBVIOUS
<1>2. CASE limit = 0
  BY <1>2 DEF Slice, Wanted
<1>3. CASE limit # 0 /\ Len(rest) <= limit
  <2>1. Least(offset + limit, Len(b)) = Len(b)
    BY <1>1, <1>3 DEF Least
  <2> QED
    BY <1>3, <2>1 DEF Slice, Wanted
<1>4. CASE limit # 0 /\ Len(rest) > limit
  <2>1. Least(offset + limit, Len(b)) = offset + limit /\ offset + limit <= Len(b)
    BY <1>1, <1>4 DEF Least
  <2> HIDE DEF rest
  <2>2. SubSeq(rest, 1, limit) = SubSeq(b, offset + 1, offset + limit)
    <3> DEFINE left == SubSeq(rest, 1, limit)
               right == SubSeq(b, offset + 1, offset + limit)
    <3>1. /\ left \in Seq(Byte) /\ Len(left) = limit
          /\ \A i \in 1..limit : left[i] = rest[i]
      BY <1>1, <1>4
    <3>2. /\ right \in Seq(Byte) /\ Len(right) = limit
          /\ \A i \in 1..limit : right[i] = b[offset + i]
      BY <1>1, <2>1
    <3>3. \A i \in 1..limit : rest[i] = b[offset + i]
      BY <1>1, <1>4
    <3> HIDE DEF left, right
    <3>4. left = right
      BY <3>1, <3>2, <3>3
    <3> QED
      BY <3>4 DEF left, right
  <2>3. Slice(b, offset, limit) = SubSeq(b, offset + 1, offset + limit)
    BY <1>4, <2>1 DEF Slice
  <2>4. Wanted(b, offset, limit) = SubSeq(rest, 1, limit)
    BY <1>1, <1>4 DEF Wanted, rest
  <2> QED
    BY <2>2, <2>3, <2>4
<1> QED
  BY <1>1, <1>2, <1>3, <1>4

-----------------------------------------------------------------------------
(* What a call knows, before it answers and afterwards *)

\* A read over the keys of the store: its answer is right, and what was there
\* when it arrived is there.
DownloadRight(keys, failed, call) ==
    LET request == call.request
        resource == Parse(request.name)
        Named(b) == Hash(b) = resource.hash /\ Len(b) = resource.size
    IN  /\ call.before \subseteq keys
        /\ call.status = "Ok" => \E b \in Bytes :
              LET slice == Wanted(b, request.offset, request.limit) IN
              /\ Named(b)
              /\ SeqExt!FlattenSeq(call.chunks) =
                     IF resource.compressed THEN Compress(slice) ELSE slice
              /\ \A i \in DOMAIN call.chunks : Len(call.chunks[i]) \in 1..ChunkSize
        /\ call.status = "NotFound" =>
              ResourceKey(resource) \notin call.before \/ ~\E b \in Bytes : Named(b)
        /\ call.status = "Internal" => failed

\* A write, against the store as it is now.
WriteRight(store, call) ==
    LET resource == Parse(call.name)
        key == ResourceKey(resource)
    IN  call.status = "Ok" =>
            /\ key \in DOMAIN store
            /\ IdentityData(store[key]) =
                   IF resource.compressed THEN Decompress(call.received)
                                          ELSE call.received
            /\ call.committed = Len(call.received)

(***************************************************************************)
(* The inductive invariant of the service, on top of the types.            *)
(***************************************************************************)
TransfersInv ==
    /\ \A c \in DownloadCalls :
          downloads[c] # Idle => DownloadRight(DOMAIN blobs, poisoned, downloads[c])
    /\ \A c \in WriteCalls : writes[c] # Idle => WriteRight(blobs, writes[c])

\* No call has been answered in the beginning.
LEMMA TransfersInit == StreamInit => TransfersInv
BY DEF StreamInit, TransfersInv

\* Calls whose answers are right answer right.
LEMMA TransfersInvImplies == TransfersInv => DownloadSound /\ WriteSound
<1> SUFFICES ASSUME TransfersInv PROVE DownloadSound /\ WriteSound
  OBVIOUS
<1>1. DownloadSound
  BY DEF TransfersInv, DownloadRight, DownloadSound, RepliedOk, Replied
<1>2. WriteSound
  BY DEF TransfersInv, WriteRight, WriteSound, RepliedOk, Contains, Get
<1> QED
  BY <1>1, <1>2

-----------------------------------------------------------------------------
(* What a call knows stays true while the store grows *)

\* A read is about the past; only the lock may break meanwhile.
LEMMA DownloadLater ==
    ASSUME NEW keys, NEW larger, keys \subseteq larger,
           NEW failed, NEW failedLater, failed => failedLater,
           NEW call, DownloadRight(keys, failed, call)
    PROVE  DownloadRight(larger, failedLater, call)
BY DEF DownloadRight

\* A stored upload stays stored, and decodes to the same bytes.
LEMMA WriteLater ==
    ASSUME StoreGrows, NEW call, WriteRight(blobs, call)
    PROVE  WriteRight(blobs', call)
<1> DEFINE key == ResourceKey(Parse(call.name))
<1>1. key.kind = "cas"
  BY DEF ResourceKey, CasKey
<1>2. key \in DOMAIN blobs =>
          key \in DOMAIN blobs' /\ IdentityData(blobs'[key]) = IdentityData(blobs[key])
  BY <1>1 DEF StoreGrows, KeepsContent
<1> HIDE DEF key
<1>3. WriteRight(blobs, call) <=> (call.status = "Ok" =>
          /\ key \in DOMAIN blobs
          /\ IdentityData(blobs[key]) = IF Parse(call.name).compressed
                                        THEN Decompress(call.received) ELSE call.received
          /\ call.committed = Len(call.received))
  BY DEF WriteRight, key
<1>4. WriteRight(blobs', call) <=> (call.status = "Ok" =>
          /\ key \in DOMAIN blobs'
          /\ IdentityData(blobs'[key]) = IF Parse(call.name).compressed
                                         THEN Decompress(call.received) ELSE call.received
          /\ call.committed = Len(call.received))
  BY DEF WriteRight, key
<1> QED
  BY <1>2, <1>3, <1>4

\* So the invariant survives the steps of other services.
LEMMA TransfersInvLater ==
    ASSUME StoreGrows, TransfersInv, UNCHANGED streamVars
    PROVE  TransfersInv'
<1>1. \A c \in DownloadCalls :
          downloads[c] # Idle => DownloadRight(DOMAIN blobs', poisoned', downloads[c])
  BY DownloadLater DEF TransfersInv, StoreGrows
<1>2. \A c \in WriteCalls : writes[c] # Idle => WriteRight(blobs', writes[c])
  BY WriteLater DEF TransfersInv
<1> QED
  BY <1>1, <1>2 DEF TransfersInv, streamVars

\* One read moves, and nothing else.
LEMMA OneDownloadMoves ==
    ASSUME StreamTypeOK, TransfersInv, UNCHANGED <<storeVars, writes>>,
           NEW c \in DownloadCalls, NEW call, downloads' = [downloads EXCEPT ![c] = call],
           call = Idle \/ DownloadRight(DOMAIN blobs, poisoned, call)
    PROVE  TransfersInv'
<1>1. \A d \in DownloadCalls :
          downloads'[d] # Idle => DownloadRight(DOMAIN blobs, poisoned, downloads'[d])
  BY DEF TransfersInv, StreamTypeOK
<1> QED
  BY <1>1 DEF TransfersInv, storeVars

\* One write moves, and may have put something.
LEMMA OneWriteMoves ==
    ASSUME StreamTypeOK, StoreGrows, TransfersInv, UNCHANGED downloads,
           NEW c \in WriteCalls, NEW call, writes' = [writes EXCEPT ![c] = call],
           call = Idle \/ WriteRight(blobs', call)
    PROVE  TransfersInv'
<1>1. \A d \in DownloadCalls :
          downloads[d] # Idle => DownloadRight(DOMAIN blobs', poisoned', downloads[d])
  BY DownloadLater DEF TransfersInv, StoreGrows
<1>2. ASSUME NEW d \in WriteCalls, writes'[d] # Idle
      PROVE  WriteRight(blobs', writes'[d])
  <2>1. CASE d = c
    BY <1>2, <2>1 DEF StreamTypeOK
  <2>2. CASE d # c
    <3>1. writes'[d] = writes[d] /\ WriteRight(blobs, writes[d])
      BY <1>2, <2>2 DEF StreamTypeOK, TransfersInv
    <3> QED
      BY <3>1, WriteLater
  <2> QED
    BY <2>1, <2>2
<1> QED
  BY <1>1, <1>2 DEF TransfersInv

-----------------------------------------------------------------------------
(* The steps of the methods *)

\* A read answers right: what is stored is the blob of its hash, so there is no
\* other with this hash and another size, and it always decodes and validates.
LEMMA DownloadOutcomeRight ==
    ASSUME StoreInv, NEW request \in Download
    PROVE  LET resource == Parse(request.name)
               key == ResourceKey(resource)
               data == IdentityData(Get(key))
               code == DownloadOutcome(request)
               Named(b) == Hash(b) = resource.hash /\ Len(b) = resource.size
           IN  /\ code = "Ok" =>
                     /\ data \in Bytes /\ Named(data)
                     /\ request.offset \in 0..Len(data) /\ request.limit \in Nat
               /\ code = "NotFound" =>
                     key \notin DOMAIN blobs \/ ~\E b \in Bytes : Named(b)
               /\ code = "Internal" => poisoned
<1> DEFINE resource == Parse(request.name)
           key == ResourceKey(resource)
           blob == Get(key)
           data == IdentityData(blob)
           code == DownloadOutcome(request)
           Named(b) == Hash(b) = resource.hash /\ Len(b) = resource.size
<1>1. CASE poisoned \/ ~Contains(key)
  BY <1>1 DEF DownloadOutcome, Contains
<1>2. CASE ~poisoned /\ Contains(key)
  <2>1. /\ data \in Bytes /\ Hash(data) = resource.hash /\ Len(data) \in Nat
        /\ CanDecode(blob) /\ blob.uncompressed_size = Len(data)
    <3>1. key.kind = "cas" /\ key.hash = resource.hash
      BY DEF ResourceKey, CasKey
    <3>2. Decodes(blob) /\ Hash(data) = resource.hash
      BY <1>2, <3>1 DEF StoreInv, Contains, Get
    <3> QED
      BY <3>2, BytesAreSequences DEF Decodes
  <2>2. CASE Len(data) # resource.size
    <3>1. code = "NotFound"
      BY <1>2, <2>1, <2>2 DEF DownloadOutcome
    <3>2. \A b \in Bytes : Hash(b) = resource.hash => b = data
      BY <2>1, HashAssumption
    <3> QED
      BY <2>2, <3>1, <3>2
  <2>3. CASE Len(data) = resource.size
    <3>1. Validates(resource.hash, resource.size, data)
      BY <2>1, <2>3 DEF Validates
    <3>2. code = IF request.offset \notin 0..resource.size THEN "OutOfRange"
                 ELSE IF request.limit < 0 THEN "InvalidArgument" ELSE "Ok"
      BY <1>2, <2>1, <2>3, <3>1 DEF DownloadOutcome
    <3>3. request.limit \in Int
      BY DEF Download
    <3> HIDE DEF code, data
    <3> QED
      BY <2>1, <2>3, <3>2, <3>3 DEF code, data
  <2> QED
    BY <2>2, <2>3
<1> QED
  BY <1>1, <1>2

\* A read, while it arrives and when it is answered, keeps the answers right.
LEMMA DownloadKeepsTransfers ==
    ASSUME StoreInv, StreamTypeOK, TransfersInv, NEW c \in DownloadCalls,
           \/ \E request \in Downloads : DownloadArrives(c, request)
           \/ DownloadReads(c)
    PROVE  TransfersInv'
<1>1. ASSUME NEW request \in Downloads, DownloadArrives(c, request)
      PROVE  TransfersInv'
  <2> DEFINE call == [status |-> DownloadAdmission(request), request |-> request,
                      chunks |-> << >>, before |-> DOMAIN blobs]
  <2>1. call.status \in {"running", "InvalidArgument", "Unimplemented"}
    BY DEF DownloadAdmission, Admission
  <2>2. DownloadRight(DOMAIN blobs, poisoned, call)
    BY <2>1 DEF DownloadRight
  <2> QED
    BY <1>1, <2>2, OneDownloadMoves DEF DownloadArrives
<1>2. ASSUME DownloadReads(c)
      PROVE  TransfersInv'
  <2> DEFINE call == downloads[c]
             request == call.request
             resource == Parse(request.name)
             key == ResourceKey(resource)
             data == IdentityData(Get(key))
             code == DownloadOutcome(request)
             slice == Slice(data, request.offset, request.limit)
             body == IF resource.compressed THEN Compress(slice) ELSE slice
             chunks == IF code # "Ok" THEN << >> ELSE InChunks(body)
             answered == [call EXCEPT !.status = code, !.chunks = chunks]
             Named(b) == Hash(b) = resource.hash /\ Len(b) = resource.size
  <2>1. /\ call \in DownloadCall /\ request \in Download
        /\ call.before \subseteq DOMAIN blobs
    BY <1>2, StreamAssumption
       DEF DownloadReads, StreamTypeOK, TransfersInv, DownloadRight, Running, DownloadCall
  <2>2. /\ code = "Ok" =>
              /\ data \in Bytes /\ Named(data)
              /\ request.offset \in 0..Len(data) /\ request.limit \in Nat
        /\ code = "NotFound" => key \notin DOMAIN blobs \/ ~\E b \in Bytes : Named(b)
        /\ code = "Internal" => poisoned
    BY <2>1, DownloadOutcomeRight
  <2>3. /\ answered.status = code /\ answered.chunks = chunks
        /\ answered.request = request /\ answered.before = call.before
    BY <2>1 DEF DownloadCall
  <2>4. downloads' = [downloads EXCEPT ![c] = answered] /\ UNCHANGED <<storeVars, writes>>
    BY <1>2 DEF DownloadReads
  <2>5. ASSUME code = "Ok"
        PROVE  /\ SeqExt!FlattenSeq(chunks) =
                      IF resource.compressed
                      THEN Compress(Wanted(data, request.offset, request.limit))
                      ELSE Wanted(data, request.offset, request.limit)
               /\ \A i \in DOMAIN chunks : Len(chunks[i]) \in 1..ChunkSize
    <3>1. data \in Seq(Byte)
      BY <2>2, <2>5, BytesAreSequences
    <3>2. slice = Wanted(data, request.offset, request.limit)
      BY <2>2, <2>5, <3>1, SliceIsWanted
    <3>3. body \in Seq(Byte)
      BY <2>2, <2>5, SliceType
    <3> HIDE DEF slice, body, code
    <3>4. chunks = InChunks(body)
      BY <2>5
    <3>5. /\ SeqExt!FlattenSeq(chunks) = body
          /\ \A i \in DOMAIN chunks : Len(chunks[i]) \in 1..ChunkSize
      BY <3>3, <3>4, ChunksFlatten, ChunkLengths
    <3> QED
      BY <3>2, <3>5 DEF body
  <2> HIDE DEF answered, chunks, code, data
  <2>6. DownloadRight(DOMAIN blobs, poisoned, answered)
    BY <2>1, <2>2, <2>3, <2>5 DEF DownloadRight
  <2> QED
    BY <2>4, <2>6, OneDownloadMoves
<1> QED
  BY <1>1, <1>2

\* A write that is answered Ok has put what its client sent.
LEMMA WriteCommitsRight ==
    ASSUME StoreInv, StreamInv, TransfersInv, NEW c \in WriteCalls,
           NEW chunk \in WriteChunks, WriteCommits(c, chunk)
    PROVE  TransfersInv'
<1> DEFINE call == Extended(writes[c], chunk)
           resource == Parse(call.name)
           data == WriteIdentity(call)
           key == ResourceKey(resource)
           done == [call EXCEPT !.status = "Ok", !.committed = Len(call.received)]
<1>1. /\ call \in WriteCall /\ call.received \in Bytes
      /\ call.name \in Names
      /\ Parses(call.name)
  BY ExtendedType DEF WriteCommits, Finishes, WriteCall
<1>2. StoreGrows
  BY WritePutsGoodEntry, StoreStepGrows
<1>3. data = IF resource.compressed THEN Decompress(call.received) ELSE call.received
  BY DEF WriteIdentity, ResourceEncoding, IdentityData, Transcode, EncodedBlob
<1>4. data \in Bytes
  <2>1. VerifiedUpload(resource.hash, resource.size, call.received,
                       ResourceEncoding(resource))
    BY DEF WriteCommits, WriteVerifies
  <2>2. ResourceEncoding(resource) \in Encoding
    BY DEF ResourceEncoding, Encoding
  <2> QED
    BY <1>1, <2>1, <2>2, VerifiedUploadIdentity DEF WriteIdentity
<1>5. key \in DOMAIN blobs' /\ IdentityData(blobs'[key]) = data
  <2>1. IdentityData(StoredForm(data)) = data
    BY <1>4, StoredFormDecodes DEF WriteCommits
  <2>2. Put(key, StoredForm(data))
    BY DEF WriteCommits
  <2> HIDE DEF key, data
  <2> QED
    BY <2>1, <2>2 DEF Put
<1>6. done.name = call.name /\ done.received = call.received
      /\ done.committed = Len(call.received)
  BY <1>1 DEF WriteCall
<1>7. writes' = [writes EXCEPT ![c] = done] /\ UNCHANGED downloads
  BY DEF WriteCommits
<1> HIDE DEF done, call, data
<1>8. WriteRight(blobs', done)
  BY <1>3, <1>5, <1>6 DEF WriteRight
<1> QED
  BY <1>2, <1>7, <1>8, OneWriteMoves DEF StreamInv

\* Every other step of a write acknowledges nothing.
LEMMA WriteKeepsTransfers ==
    ASSUME StoreInv, StreamInv, TransfersInv, NEW c \in WriteCalls,
           \/ WriteOpens(c) \/ WriteStops(c) \/ WriteBreaks(c)
           \/ \E chunk \in WriteChunks :
                 WriteReceives(c, chunk) \/ WriteRejects(c, chunk) \/ WritePanics(c, chunk)
    PROVE  TransfersInv'
<1>1. StoreGrows
  BY WriteTypes, OtherStepsKeepStore
<1>2. \A call : call = Idle \/ call.status # "Ok" => call = Idle \/ WriteRight(blobs', call)
  BY DEF WriteRight
<1>3. ASSUME NEW call, call = Idle \/ call.status # "Ok", WriteEnds(c, call)
      PROVE  TransfersInv'
  BY <1>1, <1>2, <1>3, OneWriteMoves DEF WriteEnds, StreamInv
<1>4. ASSUME Running(writes[c]), NEW code \in Code \ {"Ok"}, WriteFails(c, code)
      PROVE  TransfersInv'
  <2> DEFINE call == [writes[c] EXCEPT !.status = code, !.received = << >>]
  <2>1. call.status = code
    BY <1>4 DEF StreamInv, StreamTypeOK, Running, WriteCall
  <2> QED
    BY <1>3, <1>4, <2>1 DEF WriteFails
<1>5. ASSUME WriteOpens(c)
      PROVE  TransfersInv'
  BY <1>3, <1>5 DEF WriteOpens, WriteEnds
<1>6. ASSUME WriteStops(c)
      PROVE  TransfersInv'
  BY <1>4, <1>6 DEF WriteStops, Code
<1>7. ASSUME WriteBreaks(c)
      PROVE  TransfersInv'
  BY <1>3, <1>7 DEF WriteBreaks
<1>8. ASSUME NEW chunk \in WriteChunks, WriteReceives(c, chunk)
      PROVE  TransfersInv'
  <2>1. CASE WriteFails(c, "InvalidArgument")
    BY <1>4, <1>8, <2>1 DEF WriteReceives, Code
  <2>2. CASE Fits(writes[c], chunk) /\ WriteEnds(c, Extended(writes[c], chunk))
    <3>1. Extended(writes[c], chunk).status = "running"
      BY <1>8, <2>2, ExtendedType DEF WriteReceives, Running
    <3> QED
      BY <1>3, <2>2, <3>1
  <2> QED
    BY <1>8, <2>1, <2>2 DEF WriteReceives
<1>9. ASSUME NEW chunk \in WriteChunks, WriteRejects(c, chunk)
      PROVE  TransfersInv'
  BY <1>4, <1>9 DEF WriteRejects, Finishes, Code
<1>10. ASSUME NEW chunk \in WriteChunks, WritePanics(c, chunk)
       PROVE  TransfersInv'
  BY <1>1, <1>10, OneWriteMoves DEF WritePanics, StreamInv
<1> QED
  BY <1>5, <1>6, <1>7, <1>8, <1>9, <1>10

\* A step of the service, whichever, keeps the answers of its calls right.
LEMMA StreamStepKeepsTransfers ==
    ASSUME StoreInv, StreamInv, TransfersInv, StreamNext
    PROVE  TransfersInv'
<1>1. CASE \E c \in DownloadCalls :
              \/ \E request \in Downloads : DownloadArrives(c, request)
              \/ DownloadReads(c)
  BY <1>1, DownloadKeepsTransfers DEF StreamInv
<1>2. CASE \E c \in WriteCalls :
              \/ WriteOpens(c) \/ WriteStops(c) \/ WriteBreaks(c)
              \/ \E chunk \in WriteChunks :
                    WriteReceives(c, chunk) \/ WriteRejects(c, chunk) \/ WritePanics(c, chunk)
  BY <1>2, WriteKeepsTransfers
<1>3. CASE \E c \in WriteCalls, chunk \in WriteChunks : WriteCommits(c, chunk)
  BY <1>3, WriteCommitsRight
<1>4. CASE StreamReturns
  <2>1. ASSUME NEW c \in DownloadCalls, downloads' = [downloads EXCEPT ![c] = Idle],
               UNCHANGED <<storeVars, writes>>
        PROVE  TransfersInv'
    BY <2>1, OneDownloadMoves DEF StreamInv
  <2>2. ASSUME NEW c \in WriteCalls, WriteEnds(c, Idle)
        PROVE  TransfersInv'
    BY <2>2, OneWriteMoves, OtherStepsKeepStore DEF WriteEnds, StreamInv
  <2> QED
    BY <1>4, <2>1, <2>2 DEF StreamReturns
<1> QED
  BY <1>1, <1>2, <1>3, <1>4 DEF StreamNext

=============================================================================
