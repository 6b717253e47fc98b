---------------------------- MODULE MCCasService ----------------------------
(* Instances of CasService for TLC. *)
EXTENDS CasService, MCBytes

CONSTANTS c1, c2, i1, i2

MCDecode(f) == MCDecompress(CorruptFrame, f)

-----------------------------------------------------------------------------
(* Lookups while blobs arrive *)

\* Several digests, one of them twice and one with a wrong size; both instances.
MCFindRequests ==
    {Find(i1, "unknown", <<DigestOf(A), DigestOf(AB)>>),
     Find(i1, "unknown", <<DigestOf(AB), Sized(A, 2), DigestOf(AB)>>),
     Find(i2, "sha256", <<DigestOf(A)>>),
     Find(i2, "unsupported", <<DigestOf(A)>>)}

MCReadRequests ==
    {BatchRead(i1, "sha256", {"zstd"}, <<DigestOf(AB), DigestOf(A)>>),
     BatchRead(i1, "sha256", {"deflate"}, <<DigestOf(AB), DigestOf(A)>>),
     BatchRead(i2, "undefined", {}, <<DigestOf(A)>>)}

MCUploads ==
    {Update(i1, "sha256", <<Plain(A), Framed(AB)>>),
     Update(i2, "sha256", <<Framed(A)>>)}

-----------------------------------------------------------------------------
(* Uploads of the same blobs at once, with entries of every kind of fault:   *)
(* data of another blob, a body in the wrong encoding, no digest, an         *)
(* unsupported compressor, too large a blob, a cut frame, a negative size,   *)
(* a size that is too small.                                                 *)

MCUpdateRequests ==
    {Update(i1, "sha256", es) : es \in {
        << >>,
        <<Plain(A), Framed(AB)>>,
        <<Entry(DigestOf(AB), AB, "zstd"), Framed(A)>>,
        <<Entry(Sized(AB, 1), A, "identity"), Plain(AB)>>,
        <<Entry(NoDigest, A, "identity"), Entry(DigestOf(A), A, "brotli")>>,
        <<Plain(ABA), Entry(DigestOf(A), <<"<", "a">>, "zstd")>>,
        <<Entry(Sized(A, -1), A, "identity"), Entry(Sized(AB, 1), MCCompress(AB), "zstd"),
          Plain(A)>>}}
    \cup {Update(i2, f, <<Plain(A)>>) : f \in {"unknown", "unsupported"}}

-----------------------------------------------------------------------------
(* Liveness: one request of each kind, with an entry that is refused *)

MCBriefFinds == {Find(i1, "sha256", <<DigestOf(A), DigestOf(AB)>>)}
MCBriefReads == {BatchRead(i1, "sha256", {}, <<DigestOf(A), DigestOf(AB)>>)}
MCBriefUploads == {Update(i1, "sha256", <<Entry(NoDigest, A, "identity"), Plain(AB)>>)}

=============================================================================
