---------------------- MODULE ActionCacheService_proofs ----------------------
(***************************************************************************)
(* The steps of the ActionCache service keep the shapes of its calls, the  *)
(* invariant of the store and the content of the CAS.                      *)
(***************************************************************************)
EXTENDS ActionCacheService, InMemoryStore_proofs, SequenceTheorems

\* A handler that still runs has the arguments it was admitted with, and
\* what UpdateActionResult is going to cache is what the client sent.
AdmittedActions ==
    \A c \in ActionCalls : Running(actions[c]) =>
        LET call == actions[c] IN
        /\ call.request.action # NoDigest
        /\ call.request.method = "update" =>
              /\ call.request.result # NoResult
              /\ call.phase = "artifacts" => call.result = call.request.result

ActionInv == ActionTypeOK /\ AdmittedActions

\* No call of a new server is in flight.
LEMMA ActionInitInv == ActionInit => ActionInv
BY DEF ActionInit, ActionInv, ActionTypeOK, AdmittedActions, Running

\* A call that is not idle, and the request it answers, have their types.
LEMMA ActionRequestType ==
    ASSUME ActionInv, NEW c \in ActionCalls, Running(actions[c])
    PROVE  /\ actions[c] \in ActionCall
           /\ actions[c].request \in ActionRequest
           /\ actions[c].request.action \in Digest
BY ActionRequestAssumption
   DEF ActionInv, ActionTypeOK, AdmittedActions, Running, ActionCall,
       ActionRequest, OptionalDigest

\* A list in which every digest is set is a list of digests.
LEMMA AllDigestsSet ==
    ASSUME NEW s \in Seq(OptionalDigest), NoDigest \notin Range(s)
    PROVE  s \in Seq(Digest)
BY DEF OptionalDigest, Range

-----------------------------------------------------------------------------
(* What a step makes of a call *)

\* A step that leaves the store alone and turns one call into another call of
\* its type, admitted like the one before, keeps the invariant.
LEMMA BecomesInv ==
    ASSUME ActionInv, NEW c \in ActionCalls, NEW call \in ActionCall,
           Running(call) =>
              /\ call.request.action # NoDigest
              /\ call.request.method = "update" =>
                    /\ call.request.result # NoResult
                    /\ call.phase = "artifacts" => call.result = call.request.result,
           actions' = [actions EXCEPT ![c] = call]
    PROVE  ActionInv'
BY DEF ActionInv, ActionTypeOK, AdmittedActions, Running

\* So does a step that frees a slot.
LEMMA IdleInv ==
    ASSUME ActionInv, NEW c \in ActionCalls, actions' = [actions EXCEPT ![c] = Idle]
    PROVE  ActionInv'
BY DEF ActionInv, ActionTypeOK, AdmittedActions, Running

\* Answering a call, with whatever code, gives a call.
LEMMA FinishedType ==
    ASSUME NEW call \in ActionCall, NEW code \in Code
    PROVE  /\ Finished(call, code) \in ActionCall
           /\ Finished(call, code).status = code
<1>1. << >> \in Seq(OptionalDigest) /\ << >> \in Seq(Digest)
  OBVIOUS
<1> QED
  BY <1>1 DEF Finished, ActionCall, Status, Phase

\* An answered call owes the invariant nothing more.
LEMMA FinishedInv ==
    ASSUME ActionInv, NEW c \in ActionCalls, Running(actions[c]), NEW code \in Code,
           actions' = [actions EXCEPT ![c] = Finished(actions[c], code)]
    PROVE  ActionInv'
<1>1. ~Running(Finished(actions[c], code))
  BY ActionRequestType, FinishedType DEF Running, Code
<1> QED
  BY <1>1, ActionRequestType, FinishedType, BecomesInv

\* A handler that returns an error keeps the invariant.
LEMMA FailsInv ==
    ASSUME ActionInv, NEW c \in ActionCalls, Running(actions[c]), NEW code \in Code,
           Fails(c, code)
    PROVE  ActionInv' /\ UNCHANGED storeVars
BY FinishedInv DEF Fails

\* The code for missing blobs is a gRPC code for either method.
LEMMA MissingCodeType == ASSUME NEW call PROVE MissingCode(call) \in Code
BY DEF MissingCode, Code

\* The digests validate_action_result_artifacts starts with are digests: it has
\* returned if a file lacks its own.
LEMMA StartsArtifactsInv ==
    ASSUME ActionInv, NEW c \in ActionCalls, Running(actions[c]),
           NEW result \in ActionResult,
           actions[c].request.method = "update" => result = actions[c].request.result,
           StartsArtifacts(c, result)
    PROVE  ActionInv' /\ UNCHANGED storeVars
<1>1. CASE NoDigest \in Range(result.files)
  BY <1>1, MissingCodeType, FailsInv DEF StartsArtifacts
<1>2. CASE NoDigest \notin Range(result.files)
  <2> DEFINE digests == result.files \o result.logs
             call == [actions[c] EXCEPT !.phase = "artifacts", !.result = result,
                                        !.trees = result.trees, !.digests = digests]
  <2>1. result.files \in Seq(Digest)
    BY <1>2, AllDigestsSet DEF ActionResult
  <2>2. digests \in Seq(Digest) /\ result.trees \in Seq(OptionalDigest)
    BY <2>1 DEF ActionResult
  <2> HIDE DEF digests
  <2>3. call \in ActionCall
    BY <2>2, ActionRequestType DEF ActionCall, Phase
  <2>4. call.request = actions[c].request /\ call.result = result
    BY ActionRequestType DEF ActionCall
  <2>5. actions[c].request.action # NoDigest
        /\ (actions[c].request.method = "update" => actions[c].request.result # NoResult)
    BY DEF ActionInv, AdmittedActions
  <2>6. Becomes(c, call)
    BY <1>2 DEF StartsArtifacts, digests
  <2> QED
    BY <2>3, <2>4, <2>5, <2>6, BecomesInv DEF Becomes
<1> QED
  BY <1>1, <1>2

-----------------------------------------------------------------------------
(* The steps that only read the store *)

\* A request that is let in names its action, and its result for an update.
LEMMA ArrivesInv ==
    ASSUME StoreInv, ActionInv, NEW c \in ActionCalls, NEW request \in ActionRequests,
           ActionArrives(c, request)
    PROVE  ActionInv' /\ UNCHANGED storeVars
<1> DEFINE valid == /\ request.action # NoDigest
                    /\ request.method = "update" => request.result # NoResult
                    /\ ResolvesFunction(request.function)
           call == [status |-> Admission(valid), request |-> request,
                    phase |-> "lookup", command |-> NoDigest, result |-> NoResult,
                    trees |-> << >>, digests |-> << >>, before |-> DOMAIN blobs]
<1>1. Admission(valid) \in Status /\ (Admission(valid) = "running" => valid)
  BY DEF Admission, Status, Code
<1>2. << >> \in Seq(OptionalDigest) /\ << >> \in Seq(Digest)
  OBVIOUS
<1>3. actions' = [actions EXCEPT ![c] = call] /\ UNCHANGED storeVars
  BY DEF ActionArrives
<1> HIDE DEF valid
<1>4. call \in ActionCall
  BY <1>1, <1>2 DEF ActionCall, Phase, OptionalDigest, StoreInv
<1>5. Running(call) => valid
  BY <1>1 DEF Running
<1> QED
  BY <1>3, <1>4, <1>5, BecomesInv DEF valid

\* A cached result that decodes has the type of a result.
LEMMA LooksUpResultInv ==
    ASSUME StoreInv, ActionInv, NEW c \in ActionCalls, LooksUpResult(c)
    PROVE  ActionInv' /\ UNCHANGED storeVars
<1> DEFINE call == actions[c]
           key == ActionAcKey(call)
           result == DecodeResult(IdentityData(Get(key)))
<1>1. Running(call) /\ call.request.method = "get"
  BY DEF LooksUpResult, At
<1>2. CASE Fails(c, "Internal") \/ Fails(c, "NotFound")
  BY <1>1, <1>2, FailsInv DEF Code
<1>3. CASE Contains(key) /\ result # Malformed /\ StartsArtifacts(c, result)
  <2>1. IdentityData(Get(key)) \in Bytes
    BY <1>3 DEF Contains, Get, StoreInv, Decodes
  <2>2. result \in ActionResult
    BY <1>3, <2>1, MessageAssumption
  <2> QED
    BY <1>1, <1>3, <2>2, StartsArtifactsInv
<1> QED
  BY <1>2, <1>3 DEF LooksUpResult

\* An Action that is accepted names its command.
LEMMA ReadsActionInv ==
    ASSUME StoreInv, ActionInv, NEW c \in ActionCalls, ReadsAction(c)
    PROVE  ActionInv' /\ UNCHANGED storeVars
<1> DEFINE call == actions[c]
           key == ActionCasKey(call)
           command == DecodeAction(IdentityData(Get(key)))
           next == [call EXCEPT !.phase = "command", !.command = command]
<1>1. Running(call)
  BY DEF ReadsAction, At
<1>2. CASE Fails(c, "Internal") \/ Fails(c, "FailedPrecondition")
  BY <1>1, <1>2, FailsInv DEF Code
<1>3. CASE Contains(key) /\ command \notin {Malformed, NoDigest} /\ Becomes(c, next)
  <2>1. IdentityData(Get(key)) \in Bytes
    BY <1>3 DEF Contains, Get, StoreInv, Decodes
  <2>2. command \in OptionalDigest
    BY <1>3, <2>1, MessageAssumption
  <2> HIDE DEF command
  <2>3. next \in ActionCall /\ next.request = call.request /\ next.phase = "command"
    BY <1>1, <2>2, ActionRequestType DEF ActionCall, Phase
  <2>4. call.request.action # NoDigest
        /\ (call.request.method = "update" => call.request.result # NoResult)
    BY <1>1 DEF ActionInv, AdmittedActions
  <2> QED
    BY <1>3, <2>3, <2>4, BecomesInv DEF Becomes
<1> QED
  BY <1>2, <1>3 DEF ReadsAction

\* Looking for the command starts the validation of the request's own result.
LEMMA FindsCommandInv ==
    ASSUME StoreInv, ActionInv, NEW c \in ActionCalls, FindsCommand(c)
    PROVE  ActionInv' /\ UNCHANGED storeVars
<1>1. Running(actions[c]) /\ actions[c].request.method = "update"
  BY DEF FindsCommand, At
<1>2. CASE Fails(c, "Internal") \/ Fails(c, "FailedPrecondition")
  BY <1>1, <1>2, FailsInv DEF Code
<1>3. CASE StartsArtifacts(c, actions[c].request.result)
  <2>1. actions[c].request.result \in ActionResult
    BY <1>1, ActionRequestType DEF ActionRequest, ActionInv, AdmittedActions
  <2> QED
    BY <1>1, <1>3, <2>1, StartsArtifactsInv
<1> QED
  BY <1>2, <1>3 DEF FindsCommand

\* A call that has worked off a tree or a digest is otherwise as before.
LEMMA WorkedOffInv ==
    ASSUME ActionInv, NEW c \in ActionCalls, InArtifacts(actions[c]),
           NEW trees \in Seq(OptionalDigest), NEW digests \in Seq(Digest),
           actions' = [actions EXCEPT ![c] =
                          [actions[c] EXCEPT !.trees = trees, !.digests = digests]]
    PROVE  ActionInv'
<1> DEFINE call == [actions[c] EXCEPT !.trees = trees, !.digests = digests]
<1>1. Running(actions[c]) /\ actions[c].phase = "artifacts"
  BY DEF InArtifacts
<1>2. /\ call \in ActionCall
      /\ call.request = actions[c].request
      /\ call.result = actions[c].result
  BY <1>1, ActionRequestType DEF ActionCall
<1>3. /\ actions[c].request.action # NoDigest
      /\ actions[c].request.method = "update" =>
            /\ actions[c].request.result # NoResult
            /\ actions[c].result = actions[c].request.result
  BY <1>1 DEF ActionInv, AdmittedActions
<1> QED
  BY <1>2, <1>3, BecomesInv

\* The files of a complete tree are digests, like those collected before.
LEMMA ResolvesTreeInv ==
    ASSUME StoreInv, ActionInv, NEW c \in ActionCalls, ResolvesTree(c)
    PROVE  ActionInv' /\ UNCHANGED storeVars
<1> DEFINE call == actions[c]
           key == CasKey(call.request.instance, Head(call.trees).hash)
           tree == DecodeTree(IdentityData(Get(key)))
<1>1. InArtifacts(call) /\ Running(call) /\ call.trees # << >>
  BY DEF ResolvesTree, InArtifacts
<1>2. CASE Fails(c, "Internal") \/ Fails(c, MissingCode(call))
  BY <1>1, <1>2, FailsInv, MissingCodeType DEF Code
<1>3. CASE /\ Contains(key)
           /\ tree # Malformed
           /\ NoDigest \notin Range(tree.files)
           /\ Becomes(c, [call EXCEPT !.trees = Tail(@), !.digests = @ \o tree.files])
  <2>1. IdentityData(Get(key)) \in Bytes
    BY <1>3 DEF Contains, Get, StoreInv, Decodes
  <2>2. tree \in Tree
    BY <1>3, <2>1, MessageAssumption
  <2>3. tree.files \in Seq(Digest)
    BY <1>3, <2>2, AllDigestsSet DEF Tree
  <2>4. call \in ActionCall
    BY <1>1, ActionRequestType
  <2>5. Tail(call.trees) \in Seq(OptionalDigest) /\ call.digests \o tree.files \in Seq(Digest)
    BY <1>1, <2>3, <2>4, HeadTailProperties DEF ActionCall
  <2> QED
    BY <1>1, <1>3, <2>5, WorkedOffInv DEF Becomes
<1> QED
  BY <1>2, <1>3 DEF ResolvesTree, CompleteTree

\* A call that works off one digest has one fewer and is otherwise the same.
LEMMA DigestsLeft ==
    ASSUME ActionInv, NEW c \in ActionCalls, HasDigest(actions[c])
    PROVE  /\ InArtifacts(actions[c])
           /\ Running(actions[c])
           /\ [actions[c] EXCEPT !.digests = Tail(@)]
                = [actions[c] EXCEPT !.trees = << >>, !.digests = Tail(actions[c].digests)]
           /\ Tail(actions[c].digests) \in Seq(Digest)
<1>1. /\ InArtifacts(actions[c])
      /\ Running(actions[c])
      /\ actions[c].trees = << >>
      /\ actions[c].digests # << >>
  BY DEF HasDigest, InArtifacts
<1>2. actions[c] \in ActionCall
  BY <1>1, ActionRequestType
<1>3. Tail(actions[c].digests) \in Seq(Digest)
  BY <1>1, <1>2, HeadTailProperties DEF ActionCall
<1> QED
  BY <1>1, <1>2, <1>3 DEF ActionCall

\* Looking an artifact up changes neither the store nor what is invariant.
LEMMA FindsArtifactInv ==
    ASSUME ActionInv, NEW c \in ActionCalls, FindsArtifact(c)
    PROVE  ActionInv' /\ UNCHANGED storeVars
<1>1. HasDigest(actions[c])
  BY DEF FindsArtifact
<1>2. CASE Fails(c, "Internal") \/ Fails(c, MissingCode(actions[c]))
  BY <1>1, <1>2, DigestsLeft, FailsInv, MissingCodeType DEF Code
<1>3. CASE Becomes(c, [actions[c] EXCEPT !.digests = Tail(@)])
  <2>1. << >> \in Seq(OptionalDigest)
    OBVIOUS
  <2> QED
    BY <1>1, <1>3, <2>1, DigestsLeft, WorkedOffInv DEF Becomes
<1> QED
  BY <1>2, <1>3 DEF FindsArtifact

-----------------------------------------------------------------------------
(* The steps that put *)

\* An empty artifact is stored as what its digest names.
LEMMA StoresEmptyArtifactInv ==
    ASSUME StoreInv, ActionInv, NEW c \in ActionCalls, StoresEmptyArtifact(c)
    PROVE  ActionInv' /\ StoreStep("cas")
<1> DEFINE call == actions[c]
           key == CasKey(call.request.instance, EmptyHash)
<1>1. HasDigest(call)
  BY DEF StoresEmptyArtifact
<1>2. CASE Fails(c, "Internal")
  BY <1>1, <1>2, DigestsLeft, FailsInv DEF Code, StoreStep
<1>3. CASE /\ Put(key, IdentityBlob(<< >>))
           /\ actions' = [actions EXCEPT ![c] = [call EXCEPT !.digests = Tail(@)]]
  <2>1. call.request.instance \in Instances
    BY <1>1, DigestsLeft, ActionRequestType DEF ActionRequest
  <2>2. EmptyHash \in Hashes
    BY BytesAssumption DEF EmptyHash
  <2>3. /\ key \in BlobKey
        /\ IdentityBlob(<< >>) \in Blob
        /\ GoodEntry(key, IdentityBlob(<< >>))
    BY <2>1, <2>2, EmptyBlobDecodes
       DEF GoodEntry, Decodes, CasKey, BlobKey, Kind, EmptyHash
  <2>4. << >> \in Seq(OptionalDigest)
    OBVIOUS
  <2>5. ActionInv'
    BY <1>1, <1>3, <2>4, DigestsLeft, WorkedOffInv
  <2> QED
    BY <1>3, <2>3, <2>5 DEF StoreStep, CasKey
<1> QED
  BY <1>2, <1>3 DEF StoresEmptyArtifact

\* A result is stored under a key of the action cache.
LEMMA CachesResultInv ==
    ASSUME StoreInv, ActionInv, NEW c \in ActionCalls, CachesResult(c)
    PROVE  ActionInv' /\ StoreStep("ac")
<1> DEFINE call == actions[c]
           data == EncodeResult(call.result)
           key == ActionAcKey(call)
<1>1. Running(call) /\ call.phase = "artifacts" /\ call.request.method = "update"
  BY DEF CachesResult, Validated, InArtifacts
<1>2. CASE Fails(c, "Internal")
  BY <1>1, <1>2, FailsInv DEF Code, StoreStep
<1>3. CASE /\ CanStore(data)
           /\ Put(key, StoredForm(data))
           /\ actions' = [actions EXCEPT ![c] = Finished(call, "Ok")]
  <2>1. /\ call \in ActionCall
        /\ call.request \in ActionRequest
        /\ call.request.action \in Digest
    BY <1>1, ActionRequestType
  <2>2. data \in Bytes
    <3>1. call.request \in ActionRequests /\ call.request.result # NoResult
          /\ call.result = call.request.result
      BY <1>1, <2>1 DEF ActionInv, AdmittedActions, ActionCall
    <3> QED
      BY <3>1, EncodingAssumption
  <2>3. Decodes(StoredForm(data))
    BY <1>3, <2>2, StoredFormDecodes
  <2>4. /\ key \in BlobKey
        /\ StoredForm(data) \in Blob
        /\ GoodEntry(key, StoredForm(data))
    BY <2>1, <2>3
       DEF GoodEntry, Decodes, ActionAcKey, AcKey, BlobKey, Kind, ActionRequest, Digest
  <2>5. ActionInv'
    BY <1>1, <1>3, FinishedInv DEF Code
  <2> QED
    BY <1>3, <2>4, <2>5 DEF StoreStep, ActionAcKey, AcKey
<1> QED
  BY <1>2, <1>3 DEF CachesResult

-----------------------------------------------------------------------------

\* A step of the service keeps the invariant and only adds to either cache.
LEMMA ActionServiceStep ==
    ASSUME StoreInv, ActionInv, ActionNext
    PROVE  ActionInv' /\ (StoreStep("cas") \/ StoreStep("ac"))
<1>1. CASE \E c \in ActionCalls, request \in ActionRequests : ActionArrives(c, request)
  BY <1>1, ArrivesInv DEF StoreStep
<1>2. CASE \E c \in ActionCalls : LooksUpResult(c) \/ ReadsAction(c) \/ FindsCommand(c)
  BY <1>2, LooksUpResultInv, ReadsActionInv, FindsCommandInv DEF StoreStep
<1>3. CASE \E c \in ActionCalls : ResolvesTree(c) \/ FindsArtifact(c)
  BY <1>3, ResolvesTreeInv, FindsArtifactInv DEF StoreStep
<1>4. CASE \E c \in ActionCalls : StoresEmptyArtifact(c) \/ CachesResult(c)
  BY <1>4, StoresEmptyArtifactInv, CachesResultInv
<1>5. CASE \E c \in ActionCalls : GetReplies(c)
  <2> PICK c \in ActionCalls : GetReplies(c)
    BY <1>5
  <2>1. ActionInv' /\ UNCHANGED storeVars
    BY FinishedInv DEF GetReplies, Validated, InArtifacts, Becomes, Code
  <2> QED
    BY <2>1 DEF StoreStep
<1>6. CASE \E c \in ActionCalls : ActionPanics(c) \/ ActionReturns(c)
  BY <1>6, IdleInv DEF ActionPanics, ActionReturns, Becomes, StoreStep
<1> QED
  BY <1>1, <1>2, <1>3, <1>4, <1>5, <1>6 DEF ActionNext, ActionStep

=============================================================================
