---------------------------- MODULE ResourceName ----------------------------
(***************************************************************************)
(* The resource names of the ByteStream service,                           *)
(* parse_bytestream_resource_name of rust-reapi/src/services/bytestream.rs:*)
(*                                                                         *)
(*    [instance/][uploads/id/]blobs/[function/]hash/size[/...]             *)
(*    [instance/][uploads/id/]compressed-blobs/method/[function/]hash/...  *)
(*                                                                         *)
(* A name is the sequence of its segments, the strings between slashes;    *)
(* the empty name is the one with a single, empty segment.                 *)
(***************************************************************************)
EXTENDS Integers, Sequences

SeqExt == INSTANCE SequencesExt

CONSTANTS
    Decimal(_),     \* the value of a segment that is an i64 in decimal
    NotANumber      \* what Decimal answers for the others

ASSUME NotANumberAssumption == NotANumber \notin Int

EmptyName == <<"">>
Markers == {"blobs", "compressed-blobs"}

\* Mutant of MarkerIndex: the last marker ends the prefix.
LastMarkerIndex(name) == SeqExt!SelectLastInSeq(name, LAMBDA part : part \in Markers)

\* The first marker ends the prefix, whatever the segments after it are.
MarkerIndex(name) == SeqExt!SelectInSeq(name, LAMBDA part : part \in Markers)
Prefix(name) == SubSeq(name, 1, MarkerIndex(name) - 1)
Suffix(name) == SubSeq(name, MarkerIndex(name) + 1, Len(name))

\* Mutant of HasUploadId: an upload id may be empty.
HasAnyUploadId(name) ==
    Len(Prefix(name)) >= 2 /\ Prefix(name)[Len(Prefix(name)) - 1] = "uploads"

HasUploadId(name) ==
    LET prefix == Prefix(name) IN
    /\ Len(prefix) >= 2
    /\ prefix[Len(prefix) - 1] = "uploads"
    /\ prefix[Len(prefix)] # ""

\* No segments and one empty segment join to the same instance name, "".
Joined(parts) == IF parts = EmptyName THEN << >> ELSE parts

InstanceOf(name) ==
    LET prefix == Prefix(name) IN
    Joined(IF HasUploadId(name) THEN SubSeq(prefix, 1, Len(prefix) - 2) ELSE prefix)

\* "identity" for plain blobs; a method is named for the others, "identity" too.
IsCompressed(name) == name[MarkerIndex(name)] = "compressed-blobs"
HasMethod(name) == Suffix(name) # << >> /\ Suffix(name)[1] # ""

DigestParts(name) == IF IsCompressed(name) THEN Tail(Suffix(name)) ELSE Suffix(name)

\* A leading digest function is skipped only if two more segments follow it.
NamesFunction(name) ==
    Len(DigestParts(name)) >= 3 /\ DigestParts(name)[1] = "sha256"
HashIndex(name) == IF NamesFunction(name) THEN 2 ELSE 1
HashPart(name) == DigestParts(name)[HashIndex(name)]
SizePart(name) == Decimal(DigestParts(name)[HashIndex(name) + 1])

Parses(name) ==
    /\ MarkerIndex(name) # 0
    /\ IsCompressed(name) => HasMethod(name)
    /\ Len(DigestParts(name)) >= 2
    /\ HashPart(name) # ""
    /\ SizePart(name) # NotANumber
    /\ SizePart(name) >= 0

\* ParsedReadResource, of a name that parses
Parse(name) ==
    [instance |-> InstanceOf(name),
     upload |-> HasUploadId(name),
     compressed |-> IsCompressed(name),
     method |-> IF IsCompressed(name) THEN Suffix(name)[1] ELSE "identity",
     hash |-> HashPart(name),
     size |-> SizePart(name)]

\* Compression::storage_encoding knows plain blobs and the method zstd.
SupportedMethod(resource) == resource.compressed => resource.method = "zstd"
ResourceEncoding(resource) == IF resource.compressed THEN "zstd" ELSE "identity"

=============================================================================
