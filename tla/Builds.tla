-------------------------------- MODULE Builds --------------------------------
(***************************************************************************)
(* Build clients over the cache server, after the two Bazel builds of      *)
(* rust-reapi/tests/smoke_test.sh: get the capabilities; ask for the       *)
(* result of an action; on a miss execute the action, find out what the    *)
(* CAS lacks, upload it and report the result; on a hit fetch the outputs. *)
(*                                                                         *)
(* Bazel is external.  A client here does one thing at a time and gives up *)
(* on the first failure.  It never uploads the empty blob, which the       *)
(* server is to provide (action_cache.rs, "bazel stores empty stdout").    *)
(***************************************************************************)
EXTENDS CacheServer, CapabilitiesService

CONSTANTS
    Clients,                \* each has the call slots of its name
    Targets,                \* the Actions that clients run, as byte strings
    Outcomes(_),            \* the results that running an Action may have
    \* Resource names of a digest in an instance, for an encoding
    UploadName(_, _, _), DownloadName(_, _, _)

VARIABLES
    builds,         \* per client: what it is doing
    reported,       \* history: the results that were sent to the server
    acknowledged    \* history: the Actions a result was accepted for

buildVars == <<builds, reported, acknowledged>>

\* What a client may transfer blobs as: plainly, or as the server offers.
Offered == {"identity"} \cup GetCapabilities.supported_compressors

\* zstd is the one compressor that the clients have.
OnTheWire(b, encoding) == IF encoding = "zstd" THEN Compress(b) ELSE b

DigestOfBlob(b) == [hash |-> Hash(b), size |-> Len(b)]
BlobOf(digest) == CHOOSE b \in Bytes : Hash(b) = digest.hash

-----------------------------------------------------------------------------
(* What a client knows of its action                                         *)

\* The files, the logs, the trees and the files in them.
Outputs(result) ==
    Range(result.files) \cup Range(result.logs) \cup Range(result.trees)
    \cup UNION {Range(DecodeTree(BlobOf(tree)).files) : tree \in Range(result.trees)}

\* All blobs but the empty one: the Action, its command, the outputs.
Uploadable(target, result) ==
    {digest \in {DigestOfBlob(target), DecodeAction(target)} \cup Outputs(result) :
        ~IsEmptyDigest(digest)}

(***************************************************************************)
(* What clients build: the blobs of an action are within the size limit    *)
(* and bear their true digests; the Action, its command and the trees are  *)
(* messages with a field at least, so not empty.                           *)
(***************************************************************************)
IsBlob(digest) == \E b \in Bytes : digest = DigestOfBlob(b) /\ CanStore(b)
IsMessage(digest) == IsBlob(digest) /\ ~IsEmptyDigest(digest)

ASSUME BuildAssumption ==
    /\ Clients \subseteq FindCalls \cap WriteCalls \cap DownloadCalls \cap ActionCalls
    /\ Targets \subseteq Bytes
    /\ \A target \in Targets :
        /\ IsMessage(DigestOfBlob(target))
        /\ IsMessage(DecodeAction(target))
        /\ Outcomes(target) \subseteq ActionResult
        /\ \A result \in Outcomes(target) :
            /\ CanStore(EncodeResult(result))
            /\ \A digest \in Outputs(result) : IsBlob(digest)
            /\ \A tree \in Range(result.trees) :
                /\ IsMessage(tree)
                /\ DecodeTree(BlobOf(tree)) # Malformed
                /\ DecodeTree(BlobOf(tree)).rooted

\* A name that stands for a blob in an instance, in an encoding.
NamesBlob(name, instance, b, encoding) ==
    /\ Parses(name)
    /\ ResourceKey(Parse(name)) = CasKey(instance, Hash(b))
    /\ Parse(name).size = Len(b)
    /\ SupportedMethod(Parse(name))
    /\ ResourceEncoding(Parse(name)) = encoding

ASSUME NamingAssumption ==
    \A instance \in Instances, b \in Bytes, encoding \in Encoding : CanStore(b) =>
        LET upload == UploadName(instance, DigestOfBlob(b), encoding)
            download == DownloadName(instance, DigestOfBlob(b), encoding)
        IN  /\ NamesBlob(upload, instance, b, encoding) /\ Parse(upload).upload
            /\ NamesBlob(download, instance, b, encoding) /\ ~Parse(download).upload

-----------------------------------------------------------------------------
(* The requests of clients, which are among those of the services            *)

ChosenFunction == CHOOSE f \in GetCapabilities.digest_functions : TRUE

ActionRequestOf(method, instance, target, result) ==
    [method |-> method, instance |-> instance, function |-> ChosenFunction,
     action |-> DigestOfBlob(target), result |-> result]

\* In which order a client lists the digests does not matter.
FindsAll(request, instance, digests) ==
    /\ request.instance = instance
    /\ request.function = ChosenFunction
    /\ Range(request.digests) = digests

\* The blob is sent in one message.
BlobMessage(instance, digest, encoding) ==
    [name |-> UploadName(instance, digest, encoding), offset |-> 0,
     data |-> OnTheWire(BlobOf(digest), encoding), finish |-> TRUE]

DownloadRequestOf(instance, digest, encoding) ==
    [name |-> DownloadName(instance, digest, encoding), offset |-> 0, limit |-> 0]

ASSUME RequestsAssumption ==
    \A instance \in Instances, target \in Targets :
        /\ ActionRequestOf("get", instance, target, NoResult) \in ActionRequests
        /\ \A result \in Outcomes(target) :
            /\ ActionRequestOf("update", instance, target, result) \in ActionRequests
            /\ \E request \in FindRequests :
                    FindsAll(request, instance, Uploadable(target, result))
            /\ \A encoding \in Encoding :
                /\ \A digest \in Uploadable(target, result) :
                        BlobMessage(instance, digest, encoding) \in WriteChunks
                /\ \A digest \in Outputs(result) :
                        DownloadRequestOf(instance, digest, encoding) \in Downloads

-----------------------------------------------------------------------------
(* A build: the encoding it has chosen for transfers, the step it is at,     *)
(* whether the request of the step is sent, and the blobs it has still to    *)
(* move.  disturbed and known are history variables: whether the store has   *)
(* failed, the server restarted meanwhile or the client's deadline struck,   *)
(* and whether the Action had an acknowledged result in this instance when   *)
(* the build began.                                                          *)

BuildInit ==
    /\ builds = [c \in Clients |-> Idle]
    /\ reported = {}
    /\ acknowledged = {}

Building(c) == builds[c] # Idle /\ builds[c].step # "failed"

Begins(c, instance, target, encoding) ==
    /\ ~Building(c)
    /\ builds' = [builds EXCEPT ![c] =
          [instance |-> instance, target |-> target, encoding |-> encoding,
           step |-> "ask", sent |-> FALSE, result |-> NoResult, todo |-> {}, disturbed |-> poisoned,
           known |-> <<instance, target>> \in acknowledged]]
    /\ UNCHANGED <<vars, reported, acknowledged>>

About(c, step) == builds[c] # Idle /\ builds[c].step = step /\ ~builds[c].sent
Awaits(c, step) == builds[c] # Idle /\ builds[c].step = step /\ builds[c].sent

Sent(c) ==
    /\ builds' = [builds EXCEPT ![c].sent = TRUE]
    /\ UNCHANGED acknowledged

Proceeds(c, step, result, todo) ==
    builds' = [builds EXCEPT ![c].step = step, ![c].sent = FALSE,
                             ![c].result = result, ![c].todo = todo]

Succeeds(c) == builds' = [builds EXCEPT ![c] = Idle]
GivesUpFor(c, disturbance) ==
    builds' = [builds EXCEPT ![c].step = "failed", ![c].sent = FALSE, ![c].known = FALSE,
                             ![c].encoding = "identity", ![c].result = NoResult, ![c].todo = {},
                             ![c].disturbed = disturbance]
GivesUp(c) == GivesUpFor(c, builds[c].disturbed)

\* The next blob to move, the others, and going on with them.
AnyOf(digests) == CHOOSE digest \in digests : TRUE
NextBlob(c) == AnyOf(builds[c].todo)
OtherBlobs(c) == builds[c].todo \ {NextBlob(c)}
MovesOn(c) == Proceeds(c, builds[c].step, builds[c].result, OtherBlobs(c))

-----------------------------------------------------------------------------
(* The requests of a build and what it makes of the answers                  *)

Asks(c) ==
    /\ About(c, "ask")
    /\ ActionArrives(c, ActionRequestOf("get", builds[c].instance, builds[c].target, NoResult))
    /\ Sent(c)
    /\ UNCHANGED <<casVars, streamVars, reported>>

\* A hit brings the result, a miss makes the client execute the action.
IsAnswered(c) ==
    LET call == actions[c] IN
    /\ Awaits(c, "ask")
    /\ ActionReturns(c)
    /\ \/ /\ call.status = "Ok"
          /\ IF Outputs(call.result) = {} THEN Succeeds(c)
             ELSE Proceeds(c, "fetch", call.result, Outputs(call.result))
       \/ /\ call.status = "NotFound"
          /\ \E result \in Outcomes(builds[c].target) :
                Proceeds(c, "find", result, Uploadable(builds[c].target, result))
       \/ call.status \notin {"Ok", "NotFound"} /\ GivesUp(c)
    /\ UNCHANGED <<casVars, streamVars, reported, acknowledged>>

AsksMissing(c) ==
    /\ About(c, "find")
    /\ \E request \in FindRequests :
            /\ FindsAll(request, builds[c].instance, builds[c].todo)
            /\ FindArrives(c, request)
    /\ Sent(c)
    /\ UNCHANGED <<streamVars, actions, reported>>

LearnsMissing(c) ==
    LET call == finds[c] IN
    /\ Awaits(c, "find")
    /\ Replied(call)
    /\ finds' = [finds EXCEPT ![c] = Idle]
    /\ IF call.status # "Ok" THEN GivesUp(c)
       ELSE Proceeds(c, IF call.missing = << >> THEN "report" ELSE "upload",
                     builds[c].result, Range(call.missing))
    /\ UNCHANGED <<storeVars, reads, updates, streamVars, actions, reported, acknowledged>>

Uploads(c) ==
    /\ About(c, "upload")
    /\ WriteOpens(c)
    /\ Sent(c)
    /\ UNCHANGED <<casVars, actions, reported>>

NextMessage(c) == BlobMessage(builds[c].instance, NextBlob(c), builds[c].encoding)

SendsBlob(c) ==
    /\ Awaits(c, "upload")
    /\ \/ WriteReceives(c, NextMessage(c))
       \/ WriteRejects(c, NextMessage(c))
       \/ WriteCommits(c, NextMessage(c))
    /\ UNCHANGED <<casVars, actions, buildVars>>

\* A deadline of the client's cuts an upload off, before the blob is sent or when
\* it is stored already and the answer is on its way.
TimesOut(c) ==
    /\ Awaits(c, "upload")
    /\ WriteBreaks(c) \/ (Replied(writes[c]) /\ WriteEnds(c, Idle))
    /\ GivesUpFor(c, TRUE)
    /\ UNCHANGED <<casVars, actions, reported, acknowledged>>

HasUploaded(c) ==
    /\ Awaits(c, "upload")
    /\ Replied(writes[c])
    /\ WriteEnds(c, Idle)
    /\ IF writes[c].status # "Ok" THEN GivesUp(c)
       ELSE IF OtherBlobs(c) = {} THEN Proceeds(c, "report", builds[c].result, {})
       ELSE MovesOn(c)
    /\ UNCHANGED <<casVars, actions, reported, acknowledged>>

Reports(c) ==
    /\ About(c, "report")
    /\ GetCapabilities.update_enabled
    /\ ActionArrives(c, ActionRequestOf("update", builds[c].instance, builds[c].target,
                                        builds[c].result))
    /\ Sent(c)
    /\ reported' = reported \cup {<<builds[c].instance, builds[c].target, builds[c].result>>}
    /\ UNCHANGED <<casVars, streamVars>>

IsAccepted(c) ==
    /\ Awaits(c, "report")
    /\ ActionReturns(c)
    /\ IF actions[c].status = "Ok"
       THEN /\ Succeeds(c)
            /\ acknowledged' = acknowledged \cup {<<builds[c].instance, builds[c].target>>}
       ELSE GivesUp(c) /\ UNCHANGED acknowledged
    /\ UNCHANGED <<casVars, streamVars, reported>>

Fetches(c) ==
    /\ About(c, "fetch")
    /\ DownloadArrives(c,
          DownloadRequestOf(builds[c].instance, NextBlob(c), builds[c].encoding))
    /\ Sent(c)
    /\ UNCHANGED <<casVars, actions, reported>>

\* The client compares what it got with the digest.
HasFetched(c) ==
    LET call == downloads[c] IN
    /\ Awaits(c, "fetch")
    /\ Replied(call)
    /\ downloads' = [downloads EXCEPT ![c] = Idle]
    /\ IF \/ call.status # "Ok"
          \/ SeqExt!FlattenSeq(call.chunks) # OnTheWire(BlobOf(NextBlob(c)), builds[c].encoding)
       THEN GivesUp(c)
       ELSE IF OtherBlobs(c) = {} THEN Succeeds(c) ELSE MovesOn(c)
    /\ UNCHANGED <<storeVars, casVars, writes, actions, reported, acknowledged>>

\* The call went down with its task or with the process.
IsCutOff(c) ==
    /\ \/ Awaits(c, "ask") /\ actions[c] = Idle
       \/ Awaits(c, "find") /\ finds[c] = Idle
       \/ Awaits(c, "upload") /\ writes[c] = Idle
       \/ Awaits(c, "report") /\ actions[c] = Idle
       \/ Awaits(c, "fetch") /\ downloads[c] = Idle
    /\ GivesUp(c)
    /\ UNCHANGED <<vars, reported, acknowledged>>

ClientStep(c) ==
    \/ Asks(c) \/ IsAnswered(c) \/ AsksMissing(c) \/ LearnsMissing(c)
    \/ Uploads(c) \/ TimesOut(c) \/ HasUploaded(c)
    \/ Reports(c) \/ IsAccepted(c) \/ Fetches(c) \/ HasFetched(c) \/ IsCutOff(c)

-----------------------------------------------------------------------------
(* The server's own steps                                                    *)

Finding(c) == FindStep(c) /\ UNCHANGED <<streamVars, actions, buildVars>>
Reading(c) == DownloadReads(c) /\ UNCHANGED <<casVars, actions, buildVars>>
Acting(c) == ActionStep(c) /\ UNCHANGED <<casVars, streamVars, buildVars>>

\* A client has one call at a time.
ServerStep(c) == Finding(c) \/ Reading(c) \/ Acting(c)

Disturbs ==
    builds' = [c \in Clients |-> IF builds[c] = Idle THEN Idle
                                 ELSE [builds[c] EXCEPT !.disturbed = TRUE]]

PanicOver(c) ==
    /\ \/ ActionPanics(c) /\ UNCHANGED <<casVars, streamVars>>
       \/ /\ Awaits(c, "upload")
          /\ WritePanics(c, NextMessage(c))
          /\ UNCHANGED <<casVars, actions>>
    /\ Disturbs
    /\ UNCHANGED <<reported, acknowledged>>

ServerRestarts ==
    /\ Restart
    /\ Disturbs
    /\ reported' = {}
    /\ acknowledged' = {}

BuildsNext ==
    \/ \E c \in Clients :
        \/ \E instance \in Instances, target \in Targets, encoding \in Offered :
                Begins(c, instance, target, encoding)
        \/ ClientStep(c) \/ SendsBlob(c) \/ ServerStep(c) \/ PanicOver(c)
    \/ ServerRestarts

allVars == <<vars, buildVars>>

\* A client that has begun goes on, and either sends a blob in time or not
\* at all; it may never begin.
BuildsFairness ==
    \A c \in Clients :
        WF_allVars(ClientStep(c)) /\ WF_allVars(ServerStep(c))

BuildsStateInit == Init /\ BuildInit

BuildsSpec == BuildsStateInit /\ [][BuildsNext]_allVars /\ BuildsFairness

-----------------------------------------------------------------------------
(* Properties *)

(***************************************************************************)
(* A build fails only when the store has failed, the server restarted      *)
(* after it began, or the client cut its own upload off at its deadline.   *)
(* So what FindMissingBlobs did not list is there when the result is       *)
(* reported, whoever else uploads; a report is not refused; and every      *)
(* output of a hit, the empty ones included, can be fetched, in the        *)
(* encoding the client has chosen of those the server advertises.          *)
(***************************************************************************)
UndisturbedBuildsSucceed ==
    \A c \in Clients : builds[c] # Idle =>
        (builds[c].step = "failed" => builds[c].disturbed)

(***************************************************************************)
(* smoke_test.sh expects the second build to report a remote cache hit: a  *)
(* build that begins after a result for its Action was acknowledged, in    *)
(* its instance and since the last restart, never executes the action.     *)
(***************************************************************************)
SecondBuildHits ==
    \A c \in Clients : builds[c] # Idle =>
        (builds[c].known /\ ~builds[c].disturbed =>
            builds[c].step \notin {"find", "upload", "report"})

(***************************************************************************)
(* What a build is served was reported for this Action in this instance:   *)
(* instances share a store but neither results nor blobs.                  *)
(***************************************************************************)
HitsWereReported ==
    \A c \in Clients : builds[c] # Idle =>
        (builds[c].step = "fetch" /\ ~builds[c].disturbed =>
            <<builds[c].instance, builds[c].target, builds[c].result>> \in reported)

(***************************************************************************)
(* smoke_test.sh takes a reported result for one that the next build can   *)
(* do with: after a report is acknowledged, what is cached for the Action  *)
(* was reported for it, and the blobs it stands for are in the CAS, also   *)
(* those that were uploaded before the server restarted and reported after *)
(* it, and those that another build replaces the result by.                *)
(***************************************************************************)
AcknowledgedResultsHold ==
    \A at \in acknowledged :
        LET instance == at[1]
            target == at[2]
            key == AcKey(instance, Hash(target))
            result == DecodeResult(IdentityData(Get(key)))
        IN  /\ Contains(key)
            /\ <<instance, target, result>> \in reported
            /\ \A digest \in {DigestOfBlob(target), DecodeAction(target)} \cup Outputs(result) :
                    Contains(CasKey(instance, digest.hash))

\* Every build that begins ends, whatever fails.
BuildsEnd == \A c \in Clients : Building(c) ~> ~Building(c)

=============================================================================
