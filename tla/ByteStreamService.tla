------------------------- MODULE ByteStreamService -------------------------
(***************************************************************************)
(* The ByteStream service, rust-reapi/src/services/bytestream.rs: Read and *)
(* Write.  QueryWriteStatus answers Unimplemented and touches nothing.     *)
(*                                                                         *)
(* A write handler waits for messages of its client, who may stall, close  *)
(* the stream or vanish; it keeps what it has received in memory and       *)
(* touches the store once, after the message with finish_write.  A read    *)
(* fetches the blob once and streams chunks of that copy.                  *)
(***************************************************************************)
EXTENDS Calls, ResourceName

CONSTANTS
    DownloadCalls, WriteCalls,  \* call slots of Read and of Write
    Downloads,                  \* the ReadRequests clients send
    WriteChunks,                \* the WriteRequests they send on a stream
    Names,                      \* the resource names in both
    ChunkSize                   \* READ_CHUNK_SIZE

VARIABLES downloads, writes

streamVars == <<downloads, writes>>

Download == [name : Names, offset : Int, limit : Int]
WriteChunk == [name : Names \cup {EmptyName}, offset : Int, data : Bytes,
               finish : BOOLEAN]

ASSUME StreamAssumption ==
    /\ Downloads \subseteq Download
    /\ WriteChunks \subseteq WriteChunk
    /\ ChunkSize \in Nat \ {0}

ASSUME NamesAssumption ==
    \A name \in Names : Parses(name) =>
        Parse(name).instance \in Instances /\ Parse(name).hash \in Hashes

(***************************************************************************)
(* A write has no name until its first message; committed is meaningful    *)
(* once it is answered with Ok.  before is a history variable, the keys    *)
(* present when the call arrived.                                          *)
(***************************************************************************)
DownloadCall == [status : Status, request : Downloads, chunks : Seq(Seq(Byte)),
                 before : SUBSET BlobKey]
WriteCall == [status : Status, name : Names \cup {EmptyName},
              received : Bytes, committed : Nat]

StreamInit ==
    /\ downloads = [c \in DownloadCalls |-> Idle]
    /\ writes = [c \in WriteCalls |-> Idle]

\* Mutant of ResourceKey: uploads go to an instance of their own.
ResourceKeyOfUpload(resource) ==
    CasKey(IF resource.upload THEN Append(resource.instance, "uploads")
                              ELSE resource.instance, resource.hash)

ResourceKey(resource) == CasKey(resource.instance, resource.hash)

-----------------------------------------------------------------------------
(* read *)

DownloadAdmission(request) ==
    LET resource == Parse(request.name) IN
    IF ~Parses(request.name) \/ resource.upload THEN "InvalidArgument"
    ELSE IF ~SupportedMethod(resource) THEN "Unimplemented"
    ELSE Admission(resource.compressed => request.limit = 0)

DownloadArrives(c, request) ==
    /\ downloads[c] = Idle
    /\ downloads' = [downloads EXCEPT ![c] =
          [status |-> DownloadAdmission(request), request |-> request,
           chunks |-> << >>, before |-> DOMAIN blobs]]
    /\ UNCHANGED <<storeVars, writes>>

Least(a, b) == IF a <= b THEN a ELSE b

\* Mutant of InChunks: there is always a chunk, be it empty.
InChunksOneAtLeast(data) ==
    IF data = << >> THEN <<data>>
    ELSE [i \in 1..((Len(data) + ChunkSize - 1) \div ChunkSize) |->
            SubSeq(data, (i - 1) * ChunkSize + 1, Least(i * ChunkSize, Len(data)))]

\* data.chunks(READ_CHUNK_SIZE): all full but the last, none for no data.
InChunks(data) ==
    [i \in 1..((Len(data) + ChunkSize - 1) \div ChunkSize) |->
        SubSeq(data, (i - 1) * ChunkSize + 1, Least(i * ChunkSize, Len(data)))]

\* Mutant of Slice: the limit counts from the first byte of the blob.
SliceFromStart(data, offset, limit) ==
    SubSeq(data, offset + 1, IF limit = 0 THEN Len(data) ELSE Least(limit, Len(data)))

\* The bytes from the offset on, up to a limit; a limit of 0 is no limit.
Slice(data, offset, limit) ==
    SubSeq(data, offset + 1,
           IF limit = 0 THEN Len(data) ELSE Least(offset + limit, Len(data)))

\* What the handler finds under the key decides on the code.
DownloadOutcome(request) ==
    LET resource == Parse(request.name)
        blob == Get(ResourceKey(resource))
    IN  IF poisoned THEN "Internal"
        ELSE IF ~Contains(ResourceKey(resource)) THEN "NotFound"
        ELSE IF blob.uncompressed_size # resource.size THEN "NotFound"
        ELSE IF ~CanDecode(blob) THEN "Internal"
        ELSE IF ~Validates(resource.hash, resource.size, IdentityData(blob)) THEN "Internal"
        ELSE IF request.offset \notin 0..resource.size THEN "OutOfRange"
        ELSE IF request.limit < 0 THEN "InvalidArgument"
        ELSE "Ok"

DownloadReads(c) ==
    LET call == downloads[c]
        request == call.request
        resource == Parse(request.name)
        code == DownloadOutcome(request)
        slice == Slice(IdentityData(Get(ResourceKey(resource))),
                       request.offset, request.limit)
    IN  /\ Running(call)
        /\ downloads' = [downloads EXCEPT ![c] =
              [call EXCEPT !.status = code,
                           !.chunks = IF code # "Ok" THEN << >>
                                      ELSE InChunks(IF resource.compressed
                                                    THEN Compress(slice) ELSE slice)]]
        /\ UNCHANGED <<storeVars, writes>>

-----------------------------------------------------------------------------
(* write *)

WriteOpens(c) ==
    /\ writes[c] = Idle
    /\ writes' = [writes EXCEPT ![c] =
          [status |-> "running", name |-> EmptyName, received |-> << >>,
           committed |-> 0]]
    /\ UNCHANGED <<storeVars, downloads>>

WriteEnds(c, call) ==
    /\ writes' = [writes EXCEPT ![c] = call]
    /\ UNCHANGED <<storeVars, downloads>>

WriteFails(c, code) ==
    WriteEnds(c, [writes[c] EXCEPT !.status = code, !.received = << >>])

\* The first message names the resource, later ones may repeat the name.
NamedAsExpected(call, chunk) ==
    IF call.name = EmptyName
    THEN /\ chunk.name # EmptyName
         /\ Parses(chunk.name)
         /\ Parse(chunk.name).upload
    ELSE chunk.name \in {EmptyName, call.name}

Fits(call, chunk) ==
    chunk.offset = Len(call.received) /\ NamedAsExpected(call, chunk)

Extended(call, chunk) ==
    [call EXCEPT !.name = IF @ = EmptyName THEN chunk.name ELSE @,
                 !.received = @ \o chunk.data]

\* Bound: what a stream may carry in total, in place of all byte strings.
WithinStreamBound(call, chunk) == call.received \o chunk.data \in Bytes

WriteReceives(c, chunk) ==
    /\ Running(writes[c])
    /\ WithinStreamBound(writes[c], chunk)
    /\ \/ /\ ~Fits(writes[c], chunk)
          /\ WriteFails(c, "InvalidArgument")
       \/ /\ Fits(writes[c], chunk)
          /\ ~chunk.finish
          /\ WriteEnds(c, Extended(writes[c], chunk))

\* Whether the received bytes are the blob the resource name promises.
WriteVerifies(call) ==
    LET resource == Parse(call.name) IN
    VerifiedUpload(resource.hash, resource.size, call.received,
                   ResourceEncoding(resource))

WriteIdentity(call) ==
    LET resource == Parse(call.name) IN
    IdentityData(EncodedBlob(call.received, ResourceEncoding(resource), resource.size))

Finishes(c, chunk) ==
    /\ Running(writes[c])
    /\ WithinStreamBound(writes[c], chunk)
    /\ Fits(writes[c], chunk)
    /\ chunk.finish

WriteRejects(c, chunk) ==
    LET call == Extended(writes[c], chunk)
        supported == SupportedMethod(Parse(call.name))
    IN  /\ Finishes(c, chunk)
        /\ \/ /\ ~supported
              /\ WriteFails(c, "Unimplemented")
           \/ /\ supported /\ ~WriteVerifies(call)
              /\ WriteFails(c, "InvalidArgument")
           \/ /\ supported /\ WriteVerifies(call)
              /\ ~CanStore(WriteIdentity(call)) \/ poisoned
              /\ WriteFails(c, "Internal")

\* Mutant of WriteCommits: a blob that is stored already is not received again.
WriteCommitsKnown(c, chunk) ==
    LET call == Extended(writes[c], chunk)
        key == ResourceKey(Parse(call.name))
    IN  /\ Running(writes[c])
        /\ WithinStreamBound(writes[c], chunk)
        /\ Fits(writes[c], chunk)
        /\ \/ Contains(key) /\ UNCHANGED storeVars
           \/ /\ chunk.finish
              /\ SupportedMethod(Parse(call.name))
              /\ WriteVerifies(call)
              /\ CanStore(WriteIdentity(call))
              /\ Put(key, StoredForm(WriteIdentity(call)))
        /\ writes' = [writes EXCEPT ![c] =
              [call EXCEPT !.status = "Ok", !.committed = Len(call.received)]]
        /\ UNCHANGED downloads

\* The one put; committed_size counts the bytes as they were sent.
WriteCommits(c, chunk) ==
    LET call == Extended(writes[c], chunk) IN
    /\ Finishes(c, chunk)
    /\ SupportedMethod(Parse(call.name))
    /\ WriteVerifies(call)
    /\ CanStore(WriteIdentity(call))
    /\ Put(ResourceKey(Parse(call.name)), StoredForm(WriteIdentity(call)))
    /\ writes' = [writes EXCEPT ![c] =
          [call EXCEPT !.status = "Ok", !.committed = Len(call.received)]]
    /\ UNCHANGED downloads

WritePanics(c, chunk) ==
    LET call == Extended(writes[c], chunk) IN
    /\ Finishes(c, chunk)
    /\ SupportedMethod(Parse(call.name))
    /\ WriteVerifies(call)
    /\ CanStore(WriteIdentity(call))
    /\ PutPanics
    /\ writes' = [writes EXCEPT ![c] = Idle]
    /\ UNCHANGED downloads

\* The client closes its side before it has sent finish_write.
WriteStops(c) ==
    /\ Running(writes[c])
    /\ WriteFails(c, "InvalidArgument")

\* The client or the connection is gone: the handler fails or is dropped.
WriteBreaks(c) ==
    /\ Running(writes[c])
    /\ WriteEnds(c, Idle)

-----------------------------------------------------------------------------

StreamReturns ==
    \/ \E c \in DownloadCalls : /\ Replied(downloads[c])
                                /\ downloads' = [downloads EXCEPT ![c] = Idle]
                                /\ UNCHANGED <<storeVars, writes>>
    \/ \E c \in WriteCalls : Replied(writes[c]) /\ WriteEnds(c, Idle)

StreamNext ==
    \/ \E c \in DownloadCalls, request \in Downloads : DownloadArrives(c, request)
    \/ \E c \in DownloadCalls : DownloadReads(c)
    \/ \E c \in WriteCalls : WriteOpens(c) \/ WriteStops(c) \/ WriteBreaks(c)
    \/ \E c \in WriteCalls, chunk \in WriteChunks :
        \/ WriteReceives(c, chunk) \/ WriteRejects(c, chunk)
        \/ WriteCommits(c, chunk) \/ WritePanics(c, chunk)
    \/ StreamReturns

-----------------------------------------------------------------------------
(* Properties *)

\* The call tables hold calls of the shapes above.
StreamTypeOK ==
    /\ downloads \in [DownloadCalls -> DownloadCall \cup {Idle}]
    /\ writes \in [WriteCalls -> WriteCall \cup {Idle}]

(***************************************************************************)
(* Read: the chunks a client gets, put together, are the wanted part of    *)
(* the one blob with this hash and this size, compressed on request, so a  *)
(* download that is resumed at an offset continues the same bytes.  Chunks *)
(* are neither empty nor too large.  NotFound is not said of a blob that   *)
(* was there, in this size, when the call arrived; a stored blob never     *)
(* fails to decode or to validate.                                         *)
(***************************************************************************)
Wanted(data, offset, limit) ==
    LET rest == SubSeq(data, offset + 1, Len(data)) IN
    IF limit = 0 \/ Len(rest) <= limit THEN rest ELSE SubSeq(rest, 1, limit)

DownloadSound ==
    \A c \in DownloadCalls :
        LET call == downloads[c]
            request == call.request
            resource == Parse(request.name)
            Named(b) == Hash(b) = resource.hash /\ Len(b) = resource.size
        IN  /\ RepliedOk(call) => \E b \in Bytes :
                LET slice == Wanted(b, request.offset, request.limit) IN
                /\ Named(b)
                /\ SeqExt!FlattenSeq(call.chunks) =
                       IF resource.compressed THEN Compress(slice) ELSE slice
                /\ \A i \in DOMAIN call.chunks : Len(call.chunks[i]) \in 1..ChunkSize
            /\ Replied(call) =>
                /\ call.status = "NotFound" =>
                    \/ ResourceKey(resource) \notin call.before
                    \/ ~\E b \in Bytes : Named(b)
                /\ call.status = "Internal" => poisoned

(***************************************************************************)
(* Write: an acknowledged stream is stored, under the name of its first    *)
(* message: the CAS entry decodes to what this client sent, piece by piece *)
(* and decompressed on request, whichever other stream or batch wrote the  *)
(* same blob meanwhile; the acknowledged size is what was sent.            *)
(***************************************************************************)
WriteSound ==
    \A c \in WriteCalls : RepliedOk(writes[c]) =>
        LET call == writes[c]
            resource == Parse(call.name)
        IN  /\ Contains(ResourceKey(resource))
            /\ IdentityData(Get(ResourceKey(resource))) =
                   IF resource.compressed THEN Decompress(call.received)
                                          ELSE call.received
            /\ call.committed = Len(call.received)

=============================================================================
