----------------------------- MODULE BlobCodec -----------------------------
(***************************************************************************)
(* Blobs in their storage encodings and the conversions between them:      *)
(* rust-reapi/src/storage/blob_codec.rs and the types of blob_store.rs.    *)
(*                                                                         *)
(* zstd is abstracted to Compress and Decompress; Decompress is partial    *)
(* and answers CorruptFrame for input that is not made of whole frames.  A *)
(* fallible conversion is a pair: CanTranscode says when the code returns  *)
(* Ok, Transcode what it then returns.                                     *)
(***************************************************************************)
EXTENDS Digests

CONSTANTS
    Compress(_),
    Decompress(_),
    CorruptFrame,
    MaxDecompressedSize     \* MAX_DECOMPRESSED_BLOB_SIZE

ASSUME CodecAssumption ==
    \A b \in Bytes :
        /\ Compress(b) \in Seq(Byte)
        /\ Decompress(Compress(b)) = b
        /\ Decompress(b) \in Bytes \cup {CorruptFrame}
        /\ \A m, n \in 0..Len(b) : Compress(SubSeq(b, m + 1, n)) \in Seq(Byte)

ASSUME CorruptFrameAssumption == CorruptFrame \notin Bytes

ASSUME LimitAssumption == MaxDecompressedSize \in Nat

Encoding == {"identity", "zstd"}

\* A blob and the metadata that travels with it (BlobRead, StoredBlob).
Blob == [encoding : Encoding, uncompressed_size : Nat,
         stored_size : Nat, data : Seq(Byte)]

\* Mutant of EncodedBlob: the size of the encoded form passes for the blob's.
EncodedBlobOfFormSize(data, encoding, size) ==
    [encoding |-> encoding, uncompressed_size |-> Len(data),
     stored_size |-> Len(data), data |-> data]

EncodedBlob(data, encoding, size) ==
    [encoding |-> encoding, uncompressed_size |-> size,
     stored_size |-> Len(data), data |-> data]

\* Mutant of IdentityBlob: plain data are labelled like every other entry.
PlainBlobAsZstd(data) == EncodedBlob(data, "zstd", Len(data))

IdentityBlob(data) == EncodedBlob(data, "identity", Len(data))

(***************************************************************************)
(* The compressors a message can name.  from_proto_value knows two of      *)
(* them; the others, and numbers the enumeration does not define, are      *)
(* refused.                                                                *)
(***************************************************************************)
Compressor == {"identity", "zstd", "deflate", "brotli", "undefined"}
SupportedCompressor(compressor) == compressor \in Encoding

(***************************************************************************)
(* BlobCodec::transcode.  The declared size is checked against the limit   *)
(* before anything else; when the encoding already is the wanted one the   *)
(* body is passed on unread, so its length is compared with the declared   *)
(* size only on a real conversion.                                         *)
(***************************************************************************)
DecompressesTo(data, size) ==
    Decompress(data) # CorruptFrame /\ Len(Decompress(data)) = size

CanTranscode(blob, target) ==
    /\ blob.uncompressed_size <= MaxDecompressedSize
    /\ blob.encoding # target =>
          IF target = "zstd" THEN Len(blob.data) = blob.uncompressed_size
                             ELSE DecompressesTo(blob.data, blob.uncompressed_size)

\* Mutant of Transcode: the label changes, the data do not.
Relabelled(blob, target) == [blob EXCEPT !.encoding = target]

Transcode(blob, target) ==
    IF blob.encoding = target THEN blob
    ELSE EncodedBlob(IF target = "zstd" THEN Compress(blob.data)
                                        ELSE Decompress(blob.data),
                     target, blob.uncompressed_size)

\* Mutant of CanStore: the size limit holds for readers only.
CanStoreAnySize(data) == Len(data) >= 0

\* BlobCodec::into_identity_data and from_identity_data
CanDecode(blob) == CanTranscode(blob, "identity")
IdentityData(blob) == Transcode(blob, "identity").data
CanStore(data) == CanTranscode(IdentityBlob(data), "zstd")
StoredForm(data) == Transcode(IdentityBlob(data), "zstd")

(***************************************************************************)
(* What put_verified_blob and the last message of a ByteStream write check *)
(* before they store: the declared size is not negative, the payload       *)
(* decodes to that many bytes and their hash is the one in the digest.     *)
(***************************************************************************)
VerifiedUpload(hash, size, data, encoding) ==
    /\ size >= 0
    /\ CanDecode(EncodedBlob(data, encoding, size))
    /\ Validates(hash, size, IdentityData(EncodedBlob(data, encoding, size)))

\* Mutant of ResponseEncoding: the entry goes out as it is stored.
ResponseEncodingAsStored(stored, acceptable) == stored

(***************************************************************************)
(* BlobCodec::select_batch_read_response_encoding: the stored encoding if  *)
(* it is compressed and acceptable, else the first of RESPONSE_PRIORITY    *)
(* (zstd, identity) the client accepts; identity is always acceptable.     *)
(***************************************************************************)
ResponseEncoding(stored, acceptable) ==
    IF stored # "identity" /\ stored \in acceptable THEN stored
    ELSE IF "zstd" \in acceptable THEN "zstd" ELSE "identity"

=============================================================================
