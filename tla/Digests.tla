------------------------------ MODULE Digests ------------------------------
(***************************************************************************)
(* Byte strings, the digests that name them and the checks of              *)
(* rust-reapi/src/digest/mod.rs.                                           *)
(*                                                                         *)
(* SHA-256 is abstracted to Hash, an operator that is injective on Bytes:  *)
(* two byte strings of the model never collide.  The server supports one   *)
(* algorithm, so the algorithm field of a key is constant and left out.    *)
(***************************************************************************)
EXTENDS Integers, Sequences

CONSTANTS
    Byte,       \* the symbols a byte string is made of
    Bytes,      \* the byte strings considered: what clients send and store
    Hashes,     \* the hash strings that occur in requests
    Hash(_),    \* SHA-256, in hexadecimal
    NoDigest    \* an unset Option<Digest> of a protobuf message

\* Digest sizes are signed 64-bit integers on the wire.
Digest == [hash : Hashes, size : Int]
OptionalDigest == Digest \cup {NoDigest}

ASSUME BytesAssumption ==
    /\ << >> \in Bytes
    /\ \A b \in Bytes : b \in Seq(Byte) /\ Hash(b) \in Hashes

ASSUME HashAssumption ==
    \A a, b \in Bytes : Hash(a) = Hash(b) => a = b

ASSUME NoDigestAssumption == NoDigest \notin Digest

\* EMPTY_SHA256, the digest of the empty byte string
EmptyHash == Hash(<< >>)
IsEmptyDigest(digest) == digest.size = 0 /\ digest.hash = EmptyHash

(***************************************************************************)
(* The values of REAPI's DigestFunction enumeration as a request may carry *)
(* them: unset, SHA-256, one the server does not support, and a number the *)
(* enumeration does not define.  An unset function means SHA-256.          *)
(***************************************************************************)
DigestFunction == {"unknown", "sha256", "unsupported", "undefined"}
ResolvesFunction(function) == function \in {"unknown", "sha256"}

\* Mutant of Validates: the hash of the data is not computed.
ValidatesSizeOnly(hash, size, data) == size >= 0 /\ Len(data) = size

\* DigestAlgorithm::validate: the size first, then the hash.
Validates(hash, size, data) ==
    /\ size >= 0
    /\ Len(data) = size
    /\ Hash(data) = hash

=============================================================================
