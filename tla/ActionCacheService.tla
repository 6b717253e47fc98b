------------------------- MODULE ActionCacheService -------------------------
(***************************************************************************)
(* The ActionCache service, rust-reapi/src/services/action_cache.rs:       *)
(* GetActionResult and UpdateActionResult.                                 *)
(*                                                                         *)
(* Both methods walk over the CAS blobs an action result refers to, one    *)
(* store operation per blob, while other calls write to the store; only    *)
(* then is the result returned or cached.  Every store operation is one    *)
(* step here, together with the local work that follows it.                *)
(***************************************************************************)
EXTENDS Calls, ActionResults

CONSTANTS
    ActionCalls,        \* call slots
    ActionRequests      \* the requests clients send

VARIABLE actions

ActionRequest == [method : {"get", "update"}, instance : Instances,
                  function : DigestFunction, action : OptionalDigest,
                  result : ActionResult \cup {NoResult}]

ASSUME ActionRequestAssumption ==
    /\ ActionRequests \subseteq ActionRequest
    /\ NoResult \notin ActionResult

ASSUME EncodingAssumption ==
    \A request \in ActionRequests : request.result # NoResult =>
        /\ EncodeResult(request.result) \in Bytes
        /\ DecodeResult(EncodeResult(request.result)) = request.result

(***************************************************************************)
(* A call: where the handler is, the result it is about, the trees it has  *)
(* still to resolve and the digests it has still to look up.  before is a  *)
(* history variable, the keys present when the call arrived.               *)
(***************************************************************************)
Phase == {"lookup", "command", "artifacts", "done"}

ActionCall == [status : Status, request : ActionRequests, phase : Phase,
               command : OptionalDigest,
               result : ActionResult \cup {NoResult},
               trees : Seq(OptionalDigest), digests : Seq(Digest),
               before : SUBSET BlobKey]

ActionInit == actions = [c \in ActionCalls |-> Idle]

-----------------------------------------------------------------------------

ActionArrives(c, request) ==
    /\ actions[c] = Idle
    /\ actions' = [actions EXCEPT ![c] =
          [status |-> Admission(/\ request.action # NoDigest
                                /\ request.method = "update" => request.result # NoResult
                                /\ ResolvesFunction(request.function)),
           request |-> request, phase |-> "lookup", command |-> NoDigest,
           result |-> NoResult, trees |-> << >>, digests |-> << >>,
           before |-> DOMAIN blobs]]
    /\ UNCHANGED storeVars

At(call, method, phase) ==
    Running(call) /\ call.request.method = method /\ call.phase = phase

Finished(call, code) ==
    [call EXCEPT !.status = code, !.phase = "done", !.trees = << >>, !.digests = << >>]

Fails(c, code) ==
    /\ actions' = [actions EXCEPT ![c] = Finished(actions[c], code)]
    /\ UNCHANGED storeVars

Becomes(c, call) ==
    /\ actions' = [actions EXCEPT ![c] = call]
    /\ UNCHANGED storeVars

\* The missing_code each method passes to validate_action_result_artifacts.
MissingCode(call) ==
    IF call.request.method = "get" THEN "NotFound" ELSE "FailedPrecondition"

\* Mutant of StartsArtifacts: stdout and stderr are not looked up.
StartsArtifactsOfFiles(c, result) ==
    IF NoDigest \in Range(result.files) THEN Fails(c, MissingCode(actions[c]))
    ELSE Becomes(c, [actions[c] EXCEPT !.phase = "artifacts", !.result = result,
                                       !.trees = result.trees,
                                       !.digests = result.files])

\* validate_action_result_artifacts up to its first store operation
StartsArtifacts(c, result) ==
    IF NoDigest \in Range(result.files) THEN Fails(c, MissingCode(actions[c]))
    ELSE Becomes(c, [actions[c] EXCEPT !.phase = "artifacts", !.result = result,
                                       !.trees = result.trees,
                                       !.digests = result.files \o result.logs])

\* Mutant of ActionAcKey: the result goes under the name of the command.
ActionAcKeyOfCommand(call) ==
    AcKey(call.request.instance, IF call.request.method = "update" THEN call.command.hash
                                 ELSE call.request.action.hash)

ActionAcKey(call) == AcKey(call.request.instance, call.request.action.hash)

\* Mutant of ActionCasKey: the Action is looked up among the results.
ActionKeyAmongResults(call) == AcKey(call.request.instance, call.request.action.hash)

ActionCasKey(call) == CasKey(call.request.instance, call.request.action.hash)

\* Mutant of LooksUpResult: the handler waits for a store that works.
LooksUpResultWhenAvailable(c) ==
    LET call == actions[c]
        key == ActionAcKey(call)
    IN  /\ At(call, "get", "lookup")
        /\ ~poisoned
        /\ IF ~Contains(key) THEN Fails(c, "NotFound")
           ELSE StartsArtifacts(c, DecodeResult(IdentityData(Get(key))))

\* GetActionResult reads the cached result.
LooksUpResult(c) ==
    LET call == actions[c]
        key == ActionAcKey(call)
        result == DecodeResult(IdentityData(Get(key)))
    IN  /\ At(call, "get", "lookup")
        /\ \/ poisoned /\ Fails(c, "Internal")
           \/ ~poisoned /\ ~Contains(key) /\ Fails(c, "NotFound")
           \/ /\ ~poisoned /\ Contains(key)
              /\ IF ~CanDecode(Get(key)) THEN Fails(c, "Internal")
                 ELSE IF result = Malformed THEN Fails(c, "Internal")
                 ELSE StartsArtifacts(c, result)

\* UpdateActionResult reads the Action the result belongs to ...
ReadsAction(c) ==
    LET call == actions[c]
        key == ActionCasKey(call)
        command == DecodeAction(IdentityData(Get(key)))
        readable == /\ Contains(key)
                    /\ CanDecode(Get(key))
                    /\ command \notin {Malformed, NoDigest}
    IN  /\ At(call, "update", "lookup")
        /\ \/ poisoned /\ Fails(c, "Internal")
           \/ ~poisoned /\ ~readable /\ Fails(c, "FailedPrecondition")
           \/ /\ ~poisoned /\ readable
              /\ Becomes(c, [call EXCEPT !.phase = "command", !.command = command])

\* Mutant of FindsCommand: an Action that was uploaded is enough.
FindsCommandUnseen(c) ==
    /\ At(actions[c], "update", "command")
    /\ StartsArtifacts(c, actions[c].request.result)

\* ... and looks for the command the Action runs.
FindsCommand(c) ==
    LET call == actions[c]
        present == Contains(CasKey(call.request.instance, call.command.hash))
    IN  /\ At(call, "update", "command")
        /\ \/ poisoned /\ Fails(c, "Internal")
           \/ ~poisoned /\ ~present /\ Fails(c, "FailedPrecondition")
           \/ ~poisoned /\ present /\ StartsArtifacts(c, call.request.result)

-----------------------------------------------------------------------------
(* validate_action_result_artifacts *)

InArtifacts(call) == Running(call) /\ call.phase = "artifacts"

\* Mutant of CompleteTree: a Tree needs no root.
CompleteTreeWithoutRoot(tree) == NoDigest \notin Range(tree.files)

\* collect_tree_file_digests finds a root and a digest for every file.
CompleteTree(tree) == tree.rooted /\ NoDigest \notin Range(tree.files)

\* The loop over output_directories: the files of a tree join the digests.
ResolvesTree(c) ==
    LET call == actions[c]
        key == CasKey(call.request.instance, Head(call.trees).hash)
        tree == DecodeTree(IdentityData(Get(key)))
    IN  /\ InArtifacts(call)
        /\ call.trees # << >>
        /\ IF Head(call.trees) = NoDigest THEN Fails(c, MissingCode(call))
           ELSE IF poisoned THEN Fails(c, "Internal")
           ELSE IF ~Contains(key) THEN Fails(c, MissingCode(call))
           ELSE IF ~CanDecode(Get(key)) \/ tree = Malformed THEN Fails(c, "Internal")
           ELSE IF ~CompleteTree(tree) THEN Fails(c, MissingCode(call))
           ELSE Becomes(c, [call EXCEPT !.trees = Tail(@),
                                        !.digests = @ \o tree.files])

NextDigest(call) == Head(call.digests)
HasDigest(call) == InArtifacts(call) /\ call.trees = << >> /\ call.digests # << >>

\* The loop over the collected digests.  Only the hash decides.
FindsArtifact(c) ==
    LET call == actions[c]
        present == Contains(CasKey(call.request.instance, NextDigest(call).hash))
    IN  /\ HasDigest(call)
        /\ ~IsEmptyDigest(NextDigest(call))
        /\ \/ poisoned /\ Fails(c, "Internal")
           \/ ~poisoned /\ ~present /\ Fails(c, MissingCode(call))
           \/ ~poisoned /\ present /\ Becomes(c, [call EXCEPT !.digests = Tail(@)])

\* Mutant of StoresEmptyArtifact: everybody knows the empty blob.
StoresEmptyArtifactNowhere(c) ==
    /\ HasDigest(actions[c])
    /\ IsEmptyDigest(NextDigest(actions[c]))
    /\ Becomes(c, [actions[c] EXCEPT !.digests = Tail(@)])

\* An empty artifact is put into the CAS instead, by GetActionResult as well.
StoresEmptyArtifact(c) ==
    LET call == actions[c] IN
    /\ HasDigest(call)
    /\ IsEmptyDigest(NextDigest(call))
    /\ \/ poisoned /\ Fails(c, "Internal")
       \/ /\ Put(CasKey(call.request.instance, EmptyHash), IdentityBlob(<< >>))
          /\ actions' = [actions EXCEPT ![c] = [call EXCEPT !.digests = Tail(@)]]

-----------------------------------------------------------------------------

\* Mutant of Validated: the digests are looked up after the reply.
ValidatedTrees(call) == InArtifacts(call) /\ call.trees = << >>

\* Mutant of Validated: the handler waits for a store that works.
ValidatedWhenAvailable(call) ==
    InArtifacts(call) /\ call.trees = << >> /\ call.digests = << >> /\ ~poisoned

Validated(call) == InArtifacts(call) /\ call.trees = << >> /\ call.digests = << >>

\* Mutant of GetReplies: the result is read again to be sent.
GetRepliesAfresh(c) ==
    /\ Validated(actions[c])
    /\ actions[c].request.method = "get"
    /\ Becomes(c, [Finished(actions[c], "Ok") EXCEPT
                      !.result = DecodeResult(IdentityData(Get(ActionAcKey(actions[c]))))])

GetReplies(c) ==
    /\ Validated(actions[c])
    /\ actions[c].request.method = "get"
    /\ Becomes(c, Finished(actions[c], "Ok"))

CachesResult(c) ==
    LET call == actions[c]
        data == EncodeResult(call.result)
    IN  /\ Validated(call)
        /\ call.request.method = "update"
        /\ \/ (~CanStore(data) \/ poisoned) /\ Fails(c, "Internal")
           \/ /\ CanStore(data)
              /\ Put(ActionAcKey(call), StoredForm(data))
              /\ actions' = [actions EXCEPT ![c] = Finished(call, "Ok")]

\* A panic in either put takes the call down.
ActionPanics(c) ==
    LET call == actions[c] IN
    /\ \/ HasDigest(call) /\ IsEmptyDigest(NextDigest(call))
       \/ /\ Validated(call)
          /\ call.request.method = "update"
          /\ CanStore(EncodeResult(call.result))
    /\ PutPanics
    /\ actions' = [actions EXCEPT ![c] = Idle]

ActionReturns(c) ==
    /\ Replied(actions[c])
    /\ Becomes(c, Idle)

ActionStep(c) ==
    \/ LooksUpResult(c) \/ ReadsAction(c) \/ FindsCommand(c)
    \/ ResolvesTree(c) \/ FindsArtifact(c) \/ StoresEmptyArtifact(c)
    \/ GetReplies(c) \/ CachesResult(c)

ActionNext ==
    \/ \E c \in ActionCalls, request \in ActionRequests : ActionArrives(c, request)
    \/ \E c \in ActionCalls : ActionStep(c) \/ ActionPanics(c) \/ ActionReturns(c)

-----------------------------------------------------------------------------
(* Properties *)

\* The call table holds calls of the shape above.
ActionTypeOK == actions \in [ActionCalls -> ActionCall \cup {Idle}]

(***************************************************************************)
(* The cached results are closed: what is under an action's key decodes    *)
(* to a result, everything the result refers to is in the CAS of the same  *)
(* instance, through its trees, and so are the Action and its command.     *)
(* UpdateActionResult makes these checks one by one and caches the result  *)
(* later; GetActionResult repeats only some of them.                       *)
(***************************************************************************)
ResultsClosed ==
    \A k \in DOMAIN blobs : k.kind = "ac" =>
        LET result == DecodeResult(IdentityData(Get(k))) IN
        /\ CanDecode(Get(k))
        /\ result # Malformed
        /\ Complete(Contents, k.instance, result)
        /\ ActionKnown(Contents, k.instance, k.hash)

(***************************************************************************)
(* GetActionResult: an answered result is complete in the CAS, still when  *)
(* the client reads the answer.  A result cached before the call is found: *)
(* no artifact, empty ones included, makes it NotFound, and Internal means *)
(* that the store is unavailable, never that a cached message is invalid.  *)
(***************************************************************************)
GetResultSound ==
    \A c \in ActionCalls :
        LET call == actions[c] IN
        Replied(call) /\ call.request.method = "get" =>
            /\ call.status = "Ok" => Complete(Contents, call.request.instance, call.result)
            /\ call.status = "NotFound" => ActionAcKey(call) \notin call.before
            /\ call.status = "Internal" => poisoned

(***************************************************************************)
(* UpdateActionResult: an accepted result is cached under its action and   *)
(* complete.  A result whose Action, command, trees and (but for the empty *)
(* ones) files were all in the CAS when the call arrived is not refused,   *)
(* unless the store is unavailable or the result is too large for it.      *)
(***************************************************************************)
MeetsPreconditions(call) ==
    LET request == call.request
        instance == request.instance
        files == NeededFiles(Contents, instance, request.result)
        command == CommandAt(Contents, instance, request.action.hash)
        required == {request.action, command} \cup Range(request.result.trees)
                    \cup {digest \in files : ~IsEmptyDigest(digest)}
    IN  /\ ActionKnown(Contents, instance, request.action.hash)
        /\ TreesReadable(Contents, instance, request.result)
        /\ NoDigest \notin files
        /\ \A digest \in required : CasKey(instance, digest.hash) \in call.before

UpdateResultSound ==
    \A c \in ActionCalls :
        LET call == actions[c]
            request == call.request
        IN  Replied(call) /\ request.method = "update" =>
            /\ call.status = "Ok" =>
                /\ Contains(ActionAcKey(call))
                /\ Complete(Contents, request.instance, request.result)
            /\ call.status \in {"FailedPrecondition", "Internal"} =>
                \/ poisoned
                \/ ~CanStore(EncodeResult(request.result))
                \/ ~MeetsPreconditions(call)

=============================================================================
