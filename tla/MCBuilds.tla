------------------------------- MODULE MCBuilds -------------------------------
(* Instances of Builds for TLC: the messages and bytes of MCCacheServer. *)
EXTENDS Builds, MCCacheServer

\* Running an Action leaves a directory or just an empty log.
MCTargets == {ActionA}
MCOutcomes(target) == {WithTree, EmptyLog}
\* Two Actions that run one command.
MCTwoTargets == {ActionA, ActionC}
MCSoleOutcomes(target) == IF target = ActionA THEN {WithLogs} ELSE {EmptyLog}
MCOneInstance == {Main}

\* A digest function is named for compressed blobs only.
MCMarked(digest, encoding) ==
    (IF encoding = "identity" THEN <<"blobs">>
                              ELSE <<"compressed-blobs", encoding, "sha256">>)
    \o <<digest.hash, ToString(digest.size)>>
MCDownloadName(instance, digest, encoding) == instance \o MCMarked(digest, encoding)
MCUploadName(instance, digest, encoding) ==
    instance \o <<"uploads", "u">> \o MCMarked(digest, encoding)

\* What the clients send in the course of their builds.
MCBuildActions ==
    UNION {{ActionRequestOf("get", instance, target, NoResult)}
           \cup {ActionRequestOf("update", instance, target, result) :
                    result \in Outcomes(target)} : instance \in Instances, target \in Targets}
MCInOrder == <<DigestOf(ActionA), DigestOf(ActionC), DigestOf(A), DigestOf(TreeA)>>
MCFind(instance, digests) ==
    [instance |-> instance, function |-> ChosenFunction,
     digests |-> SelectSeq(MCInOrder, LAMBDA digest : digest \in digests)]
MCBuildFinds ==
    UNION {{MCFind(instance, Uploadable(target, result)) : result \in Outcomes(target)} :
           instance \in Instances, target \in Targets}
MCBuildBlobs ==
    UNION {UNION {Outputs(result) \cup Uploadable(target, result) : result \in Outcomes(target)} :
           target \in Targets}
MCMoves == Instances \X MCBuildBlobs \X Encoding
MCBuildMessages == {BlobMessage(m[1], m[2], m[3]) : m \in MCMoves}
MCBuildDownloads == {DownloadRequestOf(m[1], m[2], m[3]) : m \in MCMoves}
MCBuildNames == {r.name : r \in MCBuildMessages \cup MCBuildDownloads}

MCBuildBytes ==
    MCResultBytes \cup {ActionC} \cup {MCCompress(b) : b \in {ActionA, ActionC, TreeA}}
MCBuildHashes == {MCHash(b) : b \in MCBuildBytes}

=============================================================================
