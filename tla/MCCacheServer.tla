--------------------------- MODULE MCCacheServer ---------------------------
(* Instances of CacheServer for TLC. *)
EXTENDS CacheServer, MCBytes

CONSTANTS c1, c2, c3

\* Only for runs whose calls of every kind use all of c1 and c2, or neither.
MCSymmetry == Permutations({c1, c2})

MCDecode(f) == MCDecompress(CorruptFrame, f)

\* The instance names "main" and "", as sequences of segments.
Main == <<"main">>
MCInstances == {Main, << >>}

\* Segments that are numbers; "+2" is one for the parser, "9e9" is not.
MCDecimal(part) ==
    CASE part = "0" -> 0 [] part = "1" -> 1 [] part \in {"2", "+2"} -> 2
      [] part = "3" -> 3 [] part = "-1" -> -1 [] OTHER -> NotANumber

-----------------------------------------------------------------------------
(***************************************************************************)
(* Messages as byte strings.  The empty string decodes, as protobuf has it,*)
(* to the message without any field.                                       *)
(***************************************************************************)
ActionA == <<"A">>          \* an Action whose command is the blob A
ActionB == <<"A", "b">>     \* an Action whose command is the blob AB
ActionC == <<"A", "a">>     \* another one with the command of ActionA
TreeA == <<"T">>            \* a Tree with the file A and an empty file
TreeX == <<"T", "a">>       \* a Tree with a file that has no digest

Result(files, logs, trees) == [files |-> files, logs |-> logs, trees |-> trees]
NoOutput == Result(<< >>, << >>, << >>)
WithTree == Result(<< >>, << >>, <<DigestOf(TreeA)>>)
WithLogs == Result(<<DigestOf(A)>>, <<DigestOf(Empty)>>, << >>)

EmptyLog == Result(<< >>, <<DigestOf(Empty)>>, << >>)
OfTree(digest) == Result(<< >>, << >>, <<digest>>)
OfFile(digest) == Result(<<digest>>, << >>, << >>)
TooLarge == Result(<<DigestOf(A), DigestOf(A)>>, << >>, << >>)

MCResultCode ==
    (Empty :> NoOutput) @@ (<<"R">> :> WithTree) @@ (<<"R", "a">> :> WithLogs)
    @@ (<<"R", "L">> :> EmptyLog)
    @@ (<<"R", "b">> :> OfTree(DigestOf(A)))        \* not a Tree
    @@ (<<"R", "<">> :> OfTree(DigestOf(Empty)))    \* a Tree without a root
    @@ (<<"R", ">">> :> OfTree(DigestOf(TreeX)))
    @@ (<<"R", "T">> :> OfTree(NoDigest))
    @@ (<<"R", "A">> :> OfFile(NoDigest))
    @@ (<<"R", "R">> :> OfFile(Sized(A, 2)))        \* not the size of A
    @@ (<<"R", "a", "b">> :> TooLarge)

MCDecodeResult(b) ==
    IF b \in DOMAIN MCResultCode THEN MCResultCode[b] ELSE Malformed
MCEncodeResult(result) == CHOOSE b \in DOMAIN MCResultCode : MCResultCode[b] = result
MCDecodeAction(b) ==
    CASE b = Empty -> NoDigest [] b = ActionA -> DigestOf(A)
      [] b = ActionB -> DigestOf(AB) [] b = ActionC -> DigestOf(A) [] OTHER -> Malformed
MCDecodeTree(b) ==
    CASE b = Empty -> [rooted |-> FALSE, files |-> << >>]
      [] b = TreeA -> [rooted |-> TRUE, files |-> <<DigestOf(A), DigestOf(Empty)>>]
      [] b = TreeX -> [rooted |-> TRUE, files |-> <<NoDigest>>]
      [] OTHER -> Malformed

-----------------------------------------------------------------------------
(* ByteStream: two writes of the same blob at once and a read *)

Upload(parts) == Main \o <<"uploads", "u">> \o parts
PlainAB == <<"blobs", MCHash(AB), "2">>
ZstdAB == <<"compressed-blobs", "zstd", "sha256", MCHash(AB), "2">>

\* Names of uploads: plain, compressed, of another size, method or shape.
MCUploadNames ==
    {Upload(PlainAB), Upload(ZstdAB), Upload(<<"blobs", MCHash(AB), "1">>),
     Upload(<<"compressed-blobs", "brotli", MCHash(AB), "2">>),
     Upload(<<"compressed-blobs", "zstd", MCHash(AB), "9e9">>)}

MCDownloadNames ==
    {Main \o PlainAB, Main \o ZstdAB, Main \o <<"blobs", MCHash(AB), "1">>,
     Upload(PlainAB), Main \o <<"compressed-blobs", "lz4", MCHash(AB), "2">>}

MCStreamNames == MCUploadNames \cup MCDownloadNames

MCDownloads ==
    {[name |-> name, offset |-> offset, limit |-> limit] :
        name \in {Main \o PlainAB, Main \o ZstdAB}, offset \in {-1, 0, 1, 3},
        limit \in {-1, 0, 1}}
    \cup {[name |-> name, offset |-> 0, limit |-> 0] : name \in MCDownloadNames}

Chunk(name, offset, data, finish) ==
    [name |-> name, offset |-> offset, data |-> data, finish |-> finish]

\* Messages that open a stream or go on with it, in one piece or several.
MCWriteChunks ==
    {Chunk(name, 0, A, FALSE) : name \in {EmptyName, Upload(PlainAB), Main \o PlainAB}}
    \cup {Chunk(Upload(PlainAB), 1, <<"b">>, finish) : finish \in BOOLEAN}
    \cup {Chunk(EmptyName, 2, Empty, TRUE)}
    \cup {Chunk(Upload(ZstdAB), 0, MCCompress(AB), FALSE)}
    \cup {Chunk(EmptyName, 4, Empty, TRUE)}
    \cup {Chunk(name, 0, AB, TRUE) : name \in MCUploadNames}

MCStreamBytes ==
    MCBytesAll \cup {<<"b">>} \cup {SubSeq(MCCompress(AB), 1, n) : n \in 0..4}
MCStreamHashes == {MCHash(b) : b \in MCStreamBytes}

-----------------------------------------------------------------------------
(* ActionCache: results while their blobs are uploaded *)

MCMessages == {ActionA, ActionB, TreeA, TreeX} \cup DOMAIN MCResultCode
MCResultBytes ==
    MCMessages \cup {Empty, A, AB} \cup {MCCompress(b) : b \in {Empty, A, AB}}
MCResultHashes == {MCHash(b) : b \in MCResultBytes}

GetResult(action) ==
    [method |-> "get", instance |-> Main, function |-> "unknown", action |-> action,
     result |-> NoResult]
UpdateResult(action, result) ==
    [method |-> "update", instance |-> Main, function |-> "sha256", action |-> action,
     result |-> result]

\* The blobs of both results, trees before their files; the empty blob.
MCResultUploads ==
    {Update(Main, "sha256", <<Plain(ActionA), Plain(TreeA), Plain(A)>>),
     Update(Main, "sha256", <<Framed(Empty)>>)}

MCActionRequests ==
    {GetResult(DigestOf(ActionA)), UpdateResult(DigestOf(ActionA), WithTree),
     UpdateResult(DigestOf(ActionA), WithLogs)}

-----------------------------------------------------------------------------
(* ActionCache: requests and blobs with every kind of fault *)

MCFaultyUploads ==
    {Update(Main, "sha256", <<Plain(ActionA), Plain(A), Plain(TreeX)>>),
     Update(Main, "sha256", <<Framed(Empty), Plain(ActionB)>>)}

MCFaultyRequests ==
    {UpdateResult(DigestOf(ActionA), result) : result \in Range(MCResultCode)}
    \cup {UpdateResult(action, NoOutput) :     \* no, an empty or not an Action
            action \in {NoDigest, DigestOf(Empty), DigestOf(A), DigestOf(ActionB)}}
    \cup {UpdateResult(DigestOf(ActionA), NoResult), GetResult(NoDigest),
           GetResult(DigestOf(ActionA)),
           [GetResult(DigestOf(ActionA)) EXCEPT !.function = "unsupported"]}

-----------------------------------------------------------------------------
(* All services: one result, its blobs written through CAS and ByteStream *)

MCServerUploads == {Update(Main, "sha256", <<Plain(ActionA)>>)}
MCServerFinds == {Find(Main, "sha256", <<DigestOf(A), DigestOf(Empty)>>)}

NameOfA == <<"blobs", MCHash(A), "1">>
MCServerNames == {Upload(NameOfA)}
MCServerChunks ==
    {Chunk(Upload(NameOfA), 0, A, FALSE), Chunk(EmptyName, 1, Empty, TRUE)}
MCServerActions ==
    {GetResult(DigestOf(ActionA)), UpdateResult(DigestOf(ActionA), WithLogs)}

-----------------------------------------------------------------------------
(* All services: the empty blob, in either encoding *)

MCEmptyUploads == {Update(Main, "sha256", <<Plain(ActionA), Plain(A), Framed(Empty)>>)}
MCEmptyReads ==
    {BatchRead(Main, "sha256", {"identity", "zstd"}, <<DigestOf(Empty), DigestOf(Empty)>>)}

NameOfEmpty == <<"blobs", MCHash(Empty), "0">>
ZstdEmpty == <<"compressed-blobs", "zstd", MCHash(Empty), "0", "x">>
MCEmptyNames == {Main \o NameOfEmpty, Main \o ZstdEmpty}
MCEmptyDownloads == {[name |-> name, offset |-> 0, limit |-> 0] : name \in MCEmptyNames}
MCEmptyActions == {UpdateResult(DigestOf(ActionA), WithLogs)}

-----------------------------------------------------------------------------
(* Liveness: short requests, faulty entries among them *)

MCBriefUploads ==
    {Update(Main, "sha256", <<Entry(NoDigest, A, "identity"), Plain(ActionA), Plain(A)>>)}
MCBriefDownloads == {[name |-> Main \o NameOfEmpty, offset |-> 0, limit |-> 0]}
MCBriefActions == {UpdateResult(DigestOf(ActionA), EmptyLog)}

=============================================================================
