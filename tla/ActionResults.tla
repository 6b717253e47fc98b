---------------------------- MODULE ActionResults ----------------------------
(***************************************************************************)
(* The messages of the action cache, reduced to the digests they carry,    *)
(* and what it means for a CAS to hold all a result needs, as the checks   *)
(* of rust-reapi/src/services/action_cache.rs have it.                     *)
(*                                                                         *)
(* A CAS is seen here as its contents, a partial function from pairs of an *)
(* instance name and a hash to byte strings.                               *)
(***************************************************************************)
EXTENDS Digests, Functions

CONSTANTS
    EncodeResult(_),    \* protobuf encoding of an ActionResult
    DecodeResult(_), DecodeAction(_), DecodeTree(_),
    Malformed,          \* what a decoder answers for bytes it refuses
    NoResult            \* an unset Option<ActionResult>

(***************************************************************************)
(* An Action is the digest of its command.  logs are stdout_digest and     *)
(* stderr_digest as far as they are set, trees the tree digests of         *)
(* output_directories; a Tree has the files of its root followed by those  *)
(* of its children, or no root.                                            *)
(***************************************************************************)
ActionResult == [files : Seq(OptionalDigest), logs : Seq(Digest),
                 trees : Seq(OptionalDigest)]
Tree == [rooted : BOOLEAN, files : Seq(OptionalDigest)]

ASSUME MessageAssumption ==
    /\ \A b \in Bytes :
        /\ DecodeResult(b) \in ActionResult \cup {Malformed}
        /\ DecodeAction(b) \in OptionalDigest \cup {Malformed}
        /\ DecodeTree(b) \in Tree \cup {Malformed}
    /\ Malformed \notin ActionResult \cup OptionalDigest \cup Tree

-----------------------------------------------------------------------------

Holds(contents, instance, digest) ==
    digest # NoDigest /\ <<instance, digest.hash>> \in DOMAIN contents

\* The Action of this hash is there and so is its command.
CommandAt(contents, instance, hash) == DecodeAction(contents[<<instance, hash>>])

ActionKnown(contents, instance, hash) ==
    /\ <<instance, hash>> \in DOMAIN contents
    /\ CommandAt(contents, instance, hash) # Malformed
    /\ Holds(contents, instance, CommandAt(contents, instance, hash))

\* The blobs a result needs: its trees, and the files in them and beside them.
TreeAt(contents, instance, digest) == DecodeTree(contents[<<instance, digest.hash>>])

TreesReadable(contents, instance, result) ==
    \A digest \in Range(result.trees) :
        /\ Holds(contents, instance, digest)
        /\ TreeAt(contents, instance, digest) # Malformed
        /\ TreeAt(contents, instance, digest).rooted

NeededFiles(contents, instance, result) ==
    Range(result.files) \cup Range(result.logs)
    \cup UNION {Range(TreeAt(contents, instance, digest).files) :
                    digest \in Range(result.trees)}

Complete(contents, instance, result) ==
    /\ TreesReadable(contents, instance, result)
    /\ \A digest \in NeededFiles(contents, instance, result) :
            Holds(contents, instance, digest)

=============================================================================
