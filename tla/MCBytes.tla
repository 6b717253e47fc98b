------------------------------ MODULE MCBytes ------------------------------
(***************************************************************************)
(* Byte strings, hashes, a toy zstd and toy messages for the model checker.*)
(*                                                                         *)
(* "a" and "b" are content bytes, "<" and ">" the delimiters of a frame.   *)
(* Frames are longer than what they hold, so stored, received and          *)
(* uncompressed sizes differ.  "A", "T" and "R" begin an Action, a Tree    *)
(* and an ActionResult, "L" occurs in one.  The size limit is 2.           *)
(***************************************************************************)
EXTENDS Integers, Sequences, TLC

MCByte == {"a", "b", "<", ">", "A", "T", "R", "L"}

MCCompress(b) == <<"<">> \o b \o <<">">>

MCDecompress(corrupt, f) ==
    IF Len(f) >= 2 /\ f[1] = "<" /\ f[Len(f)] = ">"
    THEN SubSeq(f, 2, Len(f) - 1)
    ELSE corrupt

Empty == << >>
A == <<"a">>
AB == <<"a", "b">>
ABA == <<"a", "b", "a">>        \* larger than the size limit

\* Contents of size 0, 1, 2 and 3, their frames and frames cut short.
MCContent == {Empty, A, AB, ABA}
MCFrames == {MCCompress(b) : b \in MCContent}
MCCutFrames == {SubSeq(f, 1, Len(f) - 1) : f \in MCFrames}
MCBytesAll == MCContent \cup MCFrames \cup MCCutFrames

\* An injective naming of byte strings
MCHash(b) == ToString(b)

MCHashes == {MCHash(b) : b \in MCBytesAll}

Sized(b, size) == [hash |-> MCHash(b), size |-> size]
DigestOf(b) == Sized(b, Len(b))

-----------------------------------------------------------------------------
(* Parts of requests *)

Entry(digest, data, compressor) ==
    [digest |-> digest, data |-> data, compressor |-> compressor]
Plain(b) == Entry(DigestOf(b), b, "identity")
Framed(b) == Entry(DigestOf(b), MCCompress(b), "zstd")

Update(instance, function, entries) ==
    [instance |-> instance, function |-> function, entries |-> entries]
Find(instance, function, digests) ==
    [instance |-> instance, function |-> function, digests |-> digests]
BatchRead(instance, function, acceptable, digests) ==
    [instance |-> instance, function |-> function, acceptable |-> acceptable,
     digests |-> digests]

=============================================================================
