------------------------- MODULE CacheServer_proofs -------------------------
(***************************************************************************)
(* Type correctness, content addressing, the permanence of content, the    *)
(* answers of the services and the refinement of ResultCache, for the      *)
(* whole server and all values of the constants.                           *)
(***************************************************************************)
EXTENDS CacheServer, CasService_proofs, ByteStreamService_proofs, Results_proofs

(***************************************************************************)
(* The inductive invariant.  Types and content addressing depend on each   *)
(* other: a batch read or a download answers bytes because what is stored  *)
(* decodes, and a put keeps the store because the call it belongs to holds *)
(* bytes, a name that parses and the result its client sent.  What the     *)
(* batches have collected for their answers, what streams have transferred *)
(* and what the action cache knows of the CAS rest on both.                *)
(***************************************************************************)
IInv ==
    /\ StoreInv
    /\ CasTypeOK
    /\ AnswersInv
    /\ StreamInv
    /\ TransfersInv
    /\ ActionInv
    /\ ResultsInv

\* A server that has just started satisfies the invariant.
LEMMA InitIInv == Init => IInv
<1>1. StoreInit => StoreInv
  BY DEF StoreInit, StoreInv
<1>2. StoreInit /\ ActionInit => ResultsInv
  BY DEF StoreInit, ActionInit, ResultsInv, ResultsClosed
<1> QED
  BY <1>1, <1>2, CasInitTypes, AnswersInit, StreamInitInv, TransfersInit,
     ActionInitInv DEF Init, IInv

\* A new process is in an initial state.
LEMMA RestartIInv == ASSUME IInv, Restart PROVE IInv'
<1>1. StoreInv'
  BY DEF Restart, StoreInv
<1>2. CasTypeOK' /\ AnswersInv'
  BY DEF Restart, CasTypeOK, AnswersInv
<1>3. StreamInv' /\ TransfersInv'
  BY DEF Restart, StreamInv, StreamTypeOK, NamedStreams, TransfersInv
<1>4. ActionInv'
  BY DEF Restart, ActionInv, ActionTypeOK, AdmittedActions, Running
<1>5. ResultsInv'
  BY DEF Restart, ResultsInv, ResultsClosed
<1> QED
  BY <1>1, <1>2, <1>3, <1>4, <1>5 DEF IInv

\* Every step of every service, and a restart, preserves it.
LEMMA NextIInv ==
    ASSUME IInv, [Next]_vars
    PROVE  IInv' /\ (StoreGrows \/ Restart)
<1>1. CASE CasNext /\ UNCHANGED <<streamVars, actions>>
  <2>1. CasTypeOK' /\ StoreStep("cas")
    BY <1>1, CasStep DEF IInv
  <2>2. StoreInv' /\ StoreGrows /\ ResultsInv' /\ AnswersInv'
    BY <1>1, <2>1, StoreStepGrows, OtherServicesKeepResults, CasStepKeepsAnswers
       DEF IInv
  <2>3. StreamInv' /\ ActionInv'
    BY <1>1 DEF IInv, streamVars, StreamInv, StreamTypeOK, NamedStreams,
                ActionInv, ActionTypeOK, AdmittedActions, Running
  <2>4. TransfersInv'
    BY <1>1, <2>2, TransfersInvLater DEF IInv
  <2> QED
    BY <2>1, <2>2, <2>3, <2>4 DEF IInv
<1>2. CASE StreamNext /\ UNCHANGED <<casVars, actions>>
  <2>1. StreamInv' /\ TransfersInv' /\ StoreStep("cas")
    BY <1>2, StreamStep, StreamStepKeepsTransfers DEF IInv
  <2>2. StoreInv' /\ StoreGrows /\ ResultsInv'
    BY <1>2, <2>1, StoreStepGrows, OtherServicesKeepResults DEF IInv
  <2>3. CasTypeOK' /\ ActionInv'
    BY <1>2 DEF IInv, casVars, CasTypeOK, ActionInv, ActionTypeOK,
                AdmittedActions, Running
  <2>4. AnswersInv'
    BY <1>2, <2>2, AnswersInvLater DEF IInv
  <2> QED
    BY <2>1, <2>2, <2>3, <2>4 DEF IInv
<1>3. CASE ActionNext /\ UNCHANGED <<casVars, streamVars>>
  <2>1. ActionInv' /\ ResultsInv' /\ (StoreStep("cas") \/ StoreStep("ac"))
    BY <1>3, ActionServiceStep, ActionStepsKeepResults DEF IInv
  <2>2. StoreInv' /\ StoreGrows
    BY <2>1, StoreStepGrows DEF IInv
  <2>3. CasTypeOK' /\ StreamInv'
    BY <1>3 DEF IInv, casVars, streamVars, CasTypeOK, StreamInv, StreamTypeOK,
                NamedStreams
  <2>4. AnswersInv' /\ TransfersInv'
    BY <1>3, <2>2, AnswersInvLater, TransfersInvLater DEF IInv
  <2> QED
    BY <2>1, <2>2, <2>3, <2>4 DEF IInv
<1>4. CASE Restart
  BY <1>4, RestartIInv
<1>5. CASE UNCHANGED vars
  <2>1. StoreStep("cas") /\ UNCHANGED actions
    BY <1>5 DEF vars, StoreStep
  <2>2. StoreInv' /\ StoreGrows /\ ResultsInv'
    BY <2>1, StoreStepGrows, OtherServicesKeepResults DEF IInv
  <2>3. CasTypeOK' /\ StreamInv' /\ ActionInv'
    BY <1>5 DEF IInv, vars, casVars, streamVars, CasTypeOK, StreamInv, StreamTypeOK,
                NamedStreams, ActionInv, ActionTypeOK, AdmittedActions, Running
  <2>4. AnswersInv' /\ TransfersInv'
    BY <1>5, <2>2, AnswersInvLater, TransfersInvLater DEF IInv, vars
  <2> QED
    BY <2>2, <2>3, <2>4 DEF IInv
<1> QED
  BY <1>1, <1>2, <1>3, <1>4, <1>5 DEF Next

\* The inductive invariant holds in every reachable state of the server: the
\* store holds only blobs that decode to what their keys name (cas.rs,
\* bytestream.rs and action_cache.rs all verify before they put), and the call
\* tables of the handlers are well-formed.
THEOREM Invariance == Spec => []IInv
BY InitIInv, NextIInv, PTL DEF Spec

\* The store and all call tables keep their types; among them, every answer of
\* BatchReadBlobs and every chunk of a ByteStream read is a byte string.
THEOREM TypeCorrectness == Spec => []TypeOK
<1>1. IInv => TypeOK
  BY StoreInvImplies DEF IInv, TypeOK, StreamInv, ActionInv
<1> QED
  BY <1>1, Invariance, PTL

\* Whatever clients send, and whichever service writes it, what is stored under
\* a CAS key is the blob whose hash the key carries.
THEOREM ContentAddressing == Spec => []CasIntegrity
<1>1. IInv => CasIntegrity
  BY StoreInvImplies DEF IInv
<1> QED
  BY <1>1, Invariance, PTL

\* Until the process restarts, no step removes a blob or changes its bytes.
THEOREM ContentPermanence == Spec => ContentKept
<1>1. IInv /\ [Next]_vars => [KeepsContent \/ Restart]_vars
  BY NextIInv DEF StoreGrows
<1> QED
  BY <1>1, Invariance, PTL DEF Spec, ContentKept

\* FindMissingBlobs never reports a blob missing that was stored before the call,
\* and what it does not report is there, still when the client reads the answer.
THEOREM FindAnswersSound == Spec => []FindMissingSound
<1>1. IInv => FindMissingSound
  BY AnswersInvImplies DEF IInv
<1> QED
  BY <1>1, Invariance, PTL

\* BatchReadBlobs answers each digest with the blob of its hash in an encoding
\* the client accepts; NotFound and Internal only when they are true.
THEOREM ReadAnswersSound == Spec => []BatchReadSound
<1>1. IInv => BatchReadSound
  BY AnswersInvImplies DEF IInv
<1> QED
  BY <1>1, Invariance, PTL

\* What BatchUpdateBlobs acknowledges is stored with the size declared, and a
\* valid entry is refused only by a store that is unavailable.
THEOREM BatchUpdatesSound == Spec => []BatchUpdateSound
<1>1. IInv => BatchUpdateSound
  BY AnswersInvImplies DEF IInv
<1> QED
  BY <1>1, Invariance, PTL

\* The chunks of a ByteStream read, put together, are the wanted part of the one
\* blob with the hash and the size in the name; none is empty or too large, and
\* NotFound and Internal are said only when they are true.
THEOREM DownloadsSound == Spec => []DownloadSound
<1>1. IInv => DownloadSound
  BY TransfersInvImplies DEF IInv
<1> QED
  BY <1>1, Invariance, PTL

\* A ByteStream write that is acknowledged is stored under the name of its first
\* message and decodes to all its client sent, whoever wrote the blob meanwhile.
THEOREM WritesSound == Spec => []WriteSound
<1>1. IInv => WriteSound
  BY TransfersInvImplies DEF IInv
<1> QED
  BY <1>1, Invariance, PTL

\* What is cached for an action decodes to a result whose blobs, Action and
\* command are all in the CAS: UpdateActionResult checks them one by one, but
\* nothing it has found can be gone when it puts the result.
THEOREM CachedResultsClosed == Spec => []ResultsClosed
<1>1. IInv => ResultsClosed
  BY ResultsInvImplies DEF IInv
<1> QED
  BY <1>1, Invariance, PTL

\* GetActionResult answers with complete results only, finds what was cached
\* before the call, and fails only when the store is unavailable.
THEOREM GetAnswersSound == Spec => []GetResultSound
<1>1. IInv => GetResultSound
  BY ResultsInvImplies DEF IInv
<1> QED
  BY <1>1, Invariance, PTL

\* UpdateActionResult accepts only what it has cached completely, and refuses
\* no result whose blobs were there before the call.
THEOREM UpdateAnswersSound == Spec => []UpdateResultSound
<1>1. IInv => UpdateResultSound
  BY ResultsInvImplies DEF IInv
<1> QED
  BY <1>1, Invariance, PTL

-----------------------------------------------------------------------------
(***************************************************************************)
(* The server implements ResultCache: its calls, which look blobs up one   *)
(* by one between the steps of all others, answer as if each had looked at *)
(* the whole store at one instant.                                         *)
(***************************************************************************)

\* The variables of ResultCache as CacheServer maps them.
Results ==
    [at \in {<<k.instance, k.hash>> : k \in AcKeys} |->
        DecodeResult(IdentityData(Get(AcKey(at[1], at[2]))))]

\* What ResultCache sees of a call.
View(call) ==
    IF call = Idle THEN Idle
    ELSE [request |-> call.request, status |-> call.status,
          result |-> IF call.request.method = "get" THEN call.result ELSE NoResult]

Views == [c \in ActionCalls |-> View(actions[c])]

\* The empty server is the empty cache.
LEMMA InitPromise == Init => Promise!Init
<1> SUFFICES ASSUME Init PROVE Promise!Init
  OBVIOUS
<1>1. blobs = [k \in {} |-> IdentityBlob(<< >>)] /\ poisoned = FALSE
      /\ actions = [c \in ActionCalls |-> Idle]
  BY DEF Init, StoreInit, ActionInit
<1>2. CasKeys = {} /\ AcKeys = {}
  BY <1>1 DEF CasKeys, AcKeys
<1>3. \A f : f = [x \in {} |-> f[x]] => f = << >>
  OBVIOUS
<1>4. Contents = << >>
  BY <1>2 DEF Contents
<1>5. Results = << >>
  BY <1>2 DEF Results
<1>6. Views = [c \in ActionCalls |-> Idle]
  BY <1>1 DEF Views, View
<1> QED
  BY <1>1, <1>4, <1>5, <1>6 DEF Promise!Init, Results, Views, View

-----------------------------------------------------------------------------
(* The variables of ResultCache, one by one *)

\* Looking under a key of the action cache is looking at the results.
LEMMA ResultsOfKeys ==
    ASSUME StoreInv, NEW instance, NEW hash
    PROVE  LET key == AcKey(instance, hash) IN
           /\ <<instance, hash>> \in DOMAIN Results <=> Contains(key)
           /\ Contains(key) =>
                 Results[<<instance, hash>>] = DecodeResult(IdentityData(Get(key)))
<1> DEFINE key == AcKey(instance, hash)
<1>1. DOMAIN Results = {<<k.instance, k.hash>> : k \in AcKeys}
  BY DEF Results
<1>2. ASSUME Contains(key)
      PROVE  <<instance, hash>> \in DOMAIN Results
  <2>1. key \in AcKeys /\ key.instance = instance /\ key.hash = hash
    BY <1>2 DEF AcKeys, Contains, AcKey
  <2> QED
    BY <1>1, <2>1
<1>3. ASSUME <<instance, hash>> \in DOMAIN Results
      PROVE  Contains(key)
  <2>1. PICK k \in AcKeys : <<instance, hash>> = <<k.instance, k.hash>>
    BY <1>1, <1>3
  <2>2. k \in BlobKey /\ k.kind = "ac" /\ k.instance = instance /\ k.hash = hash
    BY <2>1 DEF AcKeys, StoreInv
  <2>3. k = key
    BY <2>2 DEF BlobKey, AcKey
  <2> QED
    BY <2>1, <2>3 DEF AcKeys, Contains
<1>4. ASSUME <<instance, hash>> \in DOMAIN Results
      PROVE  Results[<<instance, hash>>] = DecodeResult(IdentityData(Get(key)))
  BY <1>1, <1>4 DEF Results
<1> QED
  BY <1>2, <1>3, <1>4

\* A step that puts into the CAS leaves the results alone.
LEMMA ResultsStay ==
    ASSUME StoreInv, StoreStep("cas")
    PROVE  Results' = Results
<1>1. AcKeys' = AcKeys
  BY ResultsUntouched DEF AcKeys
<1>2. ASSUME NEW at \in {<<k.instance, k.hash>> : k \in AcKeys}
      PROVE  Get(AcKey(at[1], at[2]))' = Get(AcKey(at[1], at[2]))
  <2>1. PICK k \in AcKeys : at = <<k.instance, k.hash>>
    BY <1>2
  <2>2. k \in BlobKey /\ k.kind = "ac" /\ k \in DOMAIN blobs
    BY <2>1 DEF AcKeys, StoreInv
  <2>3. AcKey(at[1], at[2]) = k
    BY <2>1, <2>2 DEF BlobKey, AcKey
  <2>4. k \in DOMAIN blobs' /\ blobs'[k] = blobs[k]
    BY <2>2, ResultsUntouched
  <2>5. Get(AcKey(at[1], at[2]))' = blobs'[AcKey(at[1], at[2])]
    BY DEF Get, AcKey
  <2> QED
    BY <2>3, <2>4, <2>5 DEF Get
<1> QED
  BY <1>1, <1>2 DEF Results

\* A put into the CAS adds the bytes under their own hash, or changes nothing.
LEMMA PutAddsContent ==
    ASSUME StoreInv, NEW key, NEW blob, key.kind = "cas", GoodEntry(key, blob),
           Put(key, blob)
    PROVE  Contents' = Promise!With(Contents, <<key.instance, key.hash>>,
                                    IdentityData(blob))
<1> DEFINE at == <<key.instance, key.hash>>
           b == IdentityData(blob)
<1>1. /\ DOMAIN blobs' = DOMAIN blobs \cup {key}
      /\ \A k \in DOMAIN blobs' : blobs'[k] = IF k = key THEN blob ELSE blobs[k]
  BY DEF Put
<1>2. CasKeys' = CasKeys \cup {key}
  BY <1>1 DEF CasKeys
<1>3. /\ DOMAIN Contents = {<<k.instance, k.hash>> : k \in CasKeys}
      /\ DOMAIN Contents' = {<<k.instance, k.hash>> : k \in CasKeys'}
  BY DEF Contents
<1>4. DOMAIN Contents' = DOMAIN Contents \cup {at}
  BY <1>2, <1>3
<1>5. ASSUME NEW k \in CasKeys'
      PROVE  Contents'[<<k.instance, k.hash>>] = IdentityData(blobs'[k])
  <2>1. k \in DOMAIN blobs' /\ k \in BlobKey /\ k.kind = "cas"
    BY <1>1, <1>5 DEF CasKeys, StoreInv, GoodEntry
  <2>2. CasKey(k.instance, k.hash) = k
    BY <2>1 DEF BlobKey, CasKey
  <2>3. StoreInv'
    BY PutKeepsStore
  <2> QED
    BY <2>1, <2>2, <2>3, ContentsOfKeysAfter DEF ContentsMatch, Contains, Get
<1>6. ASSUME NEW k \in CasKeys
      PROVE  Contents[<<k.instance, k.hash>>] = IdentityData(blobs[k])
  <2>1. k \in DOMAIN blobs /\ k \in BlobKey /\ k.kind = "cas"
    BY <1>6 DEF CasKeys, StoreInv
  <2>2. CasKey(k.instance, k.hash) = k
    BY <2>1 DEF BlobKey, CasKey
  <2> QED
    BY <2>1, <2>2, ContentsOfKeys DEF ContentsMatch, Contains, Get
<1>7. ASSUME NEW x \in DOMAIN Contents'
      PROVE  Contents'[x] = IF x = at THEN b ELSE Contents[x]
  <2>1. PICK k \in CasKeys' : x = <<k.instance, k.hash>>
    BY <1>3, <1>7
  <2>2. CASE k = key
    BY <1>1, <1>5, <2>1, <2>2
  <2>3. CASE k # key
    <3>1. k \in CasKeys /\ blobs'[k] = blobs[k]
      BY <1>1, <1>2, <2>1, <2>3 DEF CasKeys
    <3>2. x # at
      BY <2>1, <2>3, <3>1 DEF CasKeys, StoreInv, GoodEntry, BlobKey
    <3> QED
      BY <1>5, <1>6, <2>1, <3>1, <3>2
  <2> QED
    BY <2>2, <2>3
<1>8. Contents' = [x \in DOMAIN Contents' |-> Contents'[x]]
  BY DEF Contents
<1> HIDE DEF at, b
<1>9. Contents' = [x \in DOMAIN Contents \cup {at} |-> IF x = at THEN b ELSE Contents[x]]
  BY <1>4, <1>7, <1>8
<1> QED
  BY <1>9 DEF Promise!With, at, b

\* A step of one call is a step of its view.
LEMMA ViewSteps ==
    ASSUME ActionTypeOK, NEW c \in ActionCalls, NEW call,
           actions' = [actions EXCEPT ![c] = call]
    PROVE  Views' = [Views EXCEPT ![c] = View(call)]
BY DEF ActionTypeOK, Views, View

\* A put into the action cache leaves the CAS alone and adds one result.
LEMMA PutAddsResult ==
    ASSUME StoreInv, NEW key, NEW blob, key.kind = "ac", GoodEntry(key, blob),
           Put(key, blob)
    PROVE  /\ Contents' = Contents
           /\ Results' = Promise!With(Results, <<key.instance, key.hash>>,
                                      DecodeResult(IdentityData(blob)))
<1> DEFINE at == <<key.instance, key.hash>>
           result == DecodeResult(IdentityData(blob))
<1>1. /\ DOMAIN blobs' = DOMAIN blobs \cup {key}
      /\ \A k \in DOMAIN blobs' : blobs'[k] = IF k = key THEN blob ELSE blobs[k]
  BY DEF Put
<1>2. CasKeys' = CasKeys /\ AcKeys' = AcKeys \cup {key}
  BY <1>1 DEF CasKeys, AcKeys
<1>3. Contents' = Contents
  <2>1. ASSUME NEW x \in {<<k.instance, k.hash>> : k \in CasKeys}
        PROVE  blobs'[CasKey(x[1], x[2])] = blobs[CasKey(x[1], x[2])]
    <3>1. PICK k \in CasKeys : x = <<k.instance, k.hash>>
      BY <2>1
    <3>2. k \in DOMAIN blobs /\ k \in BlobKey /\ k.kind = "cas"
      BY <3>1 DEF CasKeys, StoreInv
    <3>3. CasKey(x[1], x[2]) = k
      BY <3>1, <3>2 DEF BlobKey, CasKey
    <3> QED
      BY <1>1, <3>2, <3>3
  <2>2. \A x : Get(CasKey(x[1], x[2]))' = blobs'[CasKey(x[1], x[2])]
    BY DEF Get, CasKey
  <2> QED
    BY <1>2, <2>1, <2>2 DEF Contents, Get
<1>4. DOMAIN Results' = DOMAIN Results \cup {at}
  BY <1>2 DEF Results
<1>5. StoreInv'
  BY PutKeepsStore
<1>6. ASSUME NEW k \in AcKeys'
      PROVE  Results'[<<k.instance, k.hash>>] = DecodeResult(IdentityData(blobs'[k]))
  <2>1. k \in DOMAIN blobs' /\ k \in BlobKey /\ k.kind = "ac"
    BY <1>1, <1>6 DEF AcKeys, StoreInv, GoodEntry
  <2>2. AcKey(k.instance, k.hash) = k
    BY <2>1 DEF BlobKey, AcKey
  <2>3. Results'[<<k.instance, k.hash>>]
            = DecodeResult(IdentityData(blobs'[AcKey(k.instance, k.hash)]))
    BY <1>6 DEF Results, Get
  <2> QED
    BY <2>2, <2>3
<1>7. ASSUME NEW k \in AcKeys
      PROVE  Results[<<k.instance, k.hash>>] = DecodeResult(IdentityData(blobs[k]))
  <2>1. k \in DOMAIN blobs /\ k \in BlobKey /\ k.kind = "ac"
    BY <1>7 DEF AcKeys, StoreInv
  <2>2. AcKey(k.instance, k.hash) = k
    BY <2>1 DEF BlobKey, AcKey
  <2> QED
    BY <2>1, <2>2, ResultsOfKeys DEF Contains, Get
<1>8. ASSUME NEW x \in DOMAIN Results'
      PROVE  Results'[x] = IF x = at THEN result ELSE Results[x]
  <2>1. PICK k \in AcKeys' : x = <<k.instance, k.hash>>
    BY <1>8 DEF Results
  <2>2. CASE k = key
    BY <1>1, <1>6, <2>1, <2>2
  <2>3. CASE k # key
    <3>1. k \in AcKeys /\ blobs'[k] = blobs[k]
      BY <1>1, <1>2, <2>1, <2>3 DEF AcKeys
    <3>2. x # at
      BY <2>1, <2>3, <3>1 DEF AcKeys, StoreInv, GoodEntry, BlobKey
    <3> QED
      BY <1>6, <1>7, <2>1, <3>1, <3>2
  <2> QED
    BY <2>2, <2>3
<1>9. Results' = [x \in DOMAIN Results' |-> Results'[x]]
  BY DEF Results
<1> HIDE DEF at, result
<1>10. Results' = [x \in DOMAIN Results \cup {at} |-> IF x = at THEN result ELSE Results[x]]
  BY <1>4, <1>8, <1>9
<1> QED
  BY <1>3, <1>10 DEF Promise!With, at, result

\* Both sides read messages and trees alike.
LEMMA SameReading ==
    ASSUME NEW instance, NEW hash, NEW result
    PROVE  /\ Promise!ActionKnown(Contents, instance, hash)
                  <=> ActionKnown(Contents, instance, hash)
           /\ Promise!Complete(Contents, instance, result)
                  <=> Complete(Contents, instance, result)
<1>1. \A f : Promise!Range(f) = Range(f)
  BY DEF Promise!Range, Range
<1>2. \A digest : /\ Promise!Holds(Contents, instance, digest)
                         <=> Holds(Contents, instance, digest)
                  /\ Promise!TreeAt(Contents, instance, digest)
                         = TreeAt(Contents, instance, digest)
  BY DEF Promise!Holds, Holds, Promise!TreeAt, TreeAt
<1>3. Promise!CommandAt(Contents, instance, hash) = CommandAt(Contents, instance, hash)
  BY DEF Promise!CommandAt, CommandAt
<1>4. Promise!ActionKnown(Contents, instance, hash) <=> ActionKnown(Contents, instance, hash)
  BY <1>2, <1>3 DEF Promise!ActionKnown, ActionKnown
<1>5. Promise!NeededFiles(Contents, instance, result) = NeededFiles(Contents, instance, result)
  BY <1>1, <1>2 DEF Promise!NeededFiles, NeededFiles
<1>6. Promise!TreesReadable(Contents, instance, result)
          <=> TreesReadable(Contents, instance, result)
  BY <1>1, <1>2 DEF Promise!TreesReadable, TreesReadable
<1> QED
  BY <1>2, <1>4, <1>5, <1>6 DEF Promise!Complete, Complete

\* A call that runs is one in the view, and is pending there.
LEMMA RunningViews ==
    ASSUME StoreInv, ActionInv, ResultsInv, NEW c \in ActionCalls, Running(actions[c])
    PROVE  /\ actions[c] \in ActionCall
           /\ Views[c] # Idle
           /\ Views[c].status = "running"
           /\ Views[c].request = actions[c].request
           /\ Views[c].result = IF actions[c].request.method = "get"
                                THEN actions[c].result ELSE NoResult
           /\ Progress(Contents, actions[c])
           /\ actions[c].request.method \in {"get", "update"}
<1>1. /\ actions[c] \in ActionCall
      /\ actions[c].status = "running"
      /\ Progress(Contents, actions[c])
      /\ actions[c].request.method \in {"get", "update"}
  BY RunningKnows DEF ActionRequest
<1>2. actions[c] # Idle
  BY DEF Running
<1>3. Views[c] = [request |-> actions[c].request, status |-> actions[c].status,
                  result |-> IF actions[c].request.method = "get"
                             THEN actions[c].result ELSE NoResult]
  BY <1>2 DEF Views, View
<1>4. Views[c] \in [request : ActionRequests, status : Status,
                    result : ActionResult \cup {NoResult}]
  BY <1>1, <1>3 DEF ActionCall
<1> QED
  BY <1>1, <1>3, <1>4, IdleAssumption

-----------------------------------------------------------------------------
(* The steps of ResultCache that the steps of the server are *)

\* Puts into the CAS and panics, of whichever service, while no call moves.
LEMMA OthersStep ==
    ASSUME StoreInv, StoreStep("cas"), Views' = Views
    PROVE  Promise!Stores \/ Promise!Breaks \/ UNCHANGED Promise!promiseVars
<1>1. Results' = Results
  BY ResultsStay
<1>2. CASE UNCHANGED storeVars
  BY <1>1, <1>2, CasStays DEF Promise!promiseVars, storeVars, Results, Views, View
<1>3. CASE PutPanics
  <2>1. Contents' = Contents /\ MayPoison /\ ~poisoned /\ poisoned' = TRUE
    BY <1>3 DEF PutPanics, Contents, CasKeys, Get
  <2> QED
    BY <1>1, <2>1 DEF Promise!Breaks, Results, Views, View
<1>4. ASSUME NEW key \in BlobKey, NEW blob \in Blob,
             key.kind = "cas", GoodEntry(key, blob), Put(key, blob)
      PROVE  Promise!Stores \/ UNCHANGED Promise!promiseVars
  <2> DEFINE b == IdentityData(blob)
  <2>1. Contents' = Promise!With(Contents, <<key.instance, key.hash>>, b)
    BY <1>4, PutAddsContent
  <2>2. b \in Bytes /\ Hash(b) = key.hash /\ key.instance \in Instances
    BY <1>4 DEF GoodEntry, Decodes, BlobKey
  <2>3. ~poisoned /\ poisoned' = poisoned
    BY <1>4 DEF Put
  <2>4. CASE Contents' = Contents
    BY <1>1, <2>3, <2>4 DEF Promise!promiseVars, Results, Views, View
  <2>5. CASE Contents' # Contents
    BY <1>1, <2>1, <2>2, <2>3, <2>5 DEF Promise!Stores, Results, Views, View
  <2> QED
    BY <2>4, <2>5
<1> QED
  BY <1>2, <1>3, <1>4 DEF StoreStep

\* An answer is the same answer in the view.
LEMMA AnswerViews ==
    ASSUME StoreInv, ActionInv, ResultsInv, NEW c \in ActionCalls, Running(actions[c]),
           NEW code \in Code, actions' = [actions EXCEPT ![c] = Finished(actions[c], code)]
    PROVE  Views' = [Views EXCEPT ![c].status = code]
<1> DEFINE call == actions[c]
           next == Finished(call, code)
           Seen(x) == [request |-> x.request, status |-> x.status,
                       result |-> IF x.request.method = "get" THEN x.result ELSE NoResult]
<1>1. call \in ActionCall /\ call # Idle /\ ActionTypeOK
  BY RunningKnows DEF Running, ActionInv
<1>2. next \in ActionCall /\ next # Idle
  BY <1>1, FinishedType, IdleAssumption
<1>3. next.request = call.request /\ next.result = call.result /\ next.status = code
  BY <1>1, FinishedFields
<1>4. View(call) = Seen(call) /\ View(next) = Seen(next)
  BY <1>1, <1>2 DEF View
<1>5. Views' = [Views EXCEPT ![c] = View(next)]
  BY <1>1, ViewSteps
<1> HIDE DEF next
<1>6. View(next) = [View(call) EXCEPT !.status = code]
  BY <1>3, <1>4
<1>7. Views[c] = View(call) /\ Views = [d \in ActionCalls |-> Views[d]]
  BY DEF Views
<1> QED
  BY <1>5, <1>6, <1>7

\* A failing call leaves everything else alone.
LEMMA FailsViews ==
    ASSUME StoreInv, ActionInv, ResultsInv, NEW c \in ActionCalls, Running(actions[c]),
           NEW code \in Code, Fails(c, code)
    PROVE  /\ Views' = [Views EXCEPT ![c].status = code]
           /\ Contents' = Contents
           /\ Results' = Results
           /\ poisoned' = poisoned
<1>1. StoreStep("cas")
  BY DEF Fails, StoreStep
<1> QED
  BY <1>1, AnswerViews, CasStays, ResultsStay DEF Fails, storeVars

\* A refusal is one of ResultCache: the update is not justified.
LEMMA RefusedRefuses ==
    ASSUME StoreInv, ActionInv, ResultsInv, NEW c \in ActionCalls, Running(actions[c]),
           Refused(c)
    PROVE  Promise!Refuses(c)
<1> DEFINE request == actions[c].request
<1>1. /\ Views' = [Views EXCEPT ![c].status = "FailedPrecondition"]
      /\ Contents' = Contents
      /\ Results' = Results
      /\ poisoned' = poisoned
  BY FailsViews DEF Refused, Code
<1>2. Views[c] # Idle /\ Views[c].status = "running" /\ Views[c].request = request
  BY RunningViews
<1>3. request.method = "update" /\ Lacks(Contents, request)
  BY DEF Refused
<1>4. ~(/\ ActionKnown(Contents, request.instance, request.action.hash)
        /\ Complete(Contents, request.instance, request.result))
  <2>1. ASSUME NEW digest,
               Refers(Contents, request.instance, request.result, digest),
               \/ digest = NoDigest
               \/ ~IsEmptyDigest(digest) /\ ~Holds(Contents, request.instance, digest)
        PROVE  ~Complete(Contents, request.instance, request.result)
    <3>1. digest \in NeededFiles(Contents, request.instance, request.result)
      BY <2>1 DEF Refers, NeededFiles
    <3> QED
      BY <2>1, <3>1 DEF Complete, Holds
  <2> QED
    BY <1>3, <2>1 DEF Lacks, Complete
<1>5. ~Promise!Justified(request)
  BY <1>4, SameReading DEF Promise!Justified
<1> QED
  BY <1>1, <1>2, <1>3, <1>5
     DEF Promise!Refuses, Promise!Pending, Promise!Reply, Results, Views, View

\* A call that is given up is given up in ResultCache, for one of its reasons.
LEMMA GivenUpGivesUp ==
    ASSUME StoreInv, ActionInv, ResultsInv, NEW c \in ActionCalls, Running(actions[c]),
           GivenUp(c)
    PROVE  Promise!GivesUp(c)
<1> DEFINE request == actions[c].request
<1>1. /\ Views' = [Views EXCEPT ![c].status = "Internal"]
      /\ Contents' = Contents
      /\ Results' = Results
      /\ poisoned' = poisoned
  BY FailsViews DEF GivenUp, Code
<1>2. /\ Views[c] # Idle /\ Views[c].status = "running" /\ Views[c].request = request
      /\ actions[c] \in ActionCall
      /\ request.method \in {"get", "update"}
  BY RunningViews
<1>3. ASSUME request.method = "update", Hopeless(Contents, request)
      PROVE  Promise!Unusable(request)
  <2>1. EncodeResult(request.result) \in Bytes
    <3>1. request \in ActionRequests
      BY <1>2 DEF ActionCall
    <3>2. request.result # NoResult
      BY <1>3 DEF ActionInv, AdmittedActions
    <3> QED
      BY <3>1, <3>2, EncodingAssumption
  <2>2. Len(EncodeResult(request.result)) \in Nat
    BY <2>1, BytesAreSequences
  <2>3. ~CanStore(EncodeResult(request.result))
            => Len(EncodeResult(request.result)) > MaxDecompressedSize
    BY <2>2, LimitAssumption DEF CanStore, CanTranscode, IdentityBlob, EncodedBlob
  <2>4. \A tree : /\ Promise!Holds(Contents, request.instance, tree)
                         <=> Holds(Contents, request.instance, tree)
                  /\ Promise!TreeAt(Contents, request.instance, tree)
                         = TreeAt(Contents, request.instance, tree)
    BY DEF Promise!Holds, Holds, Promise!TreeAt, TreeAt
  <2>5. \A f : Promise!Range(f) = Range(f)
    BY DEF Promise!Range, Range
  <2> QED
    BY <1>3, <2>3, <2>4, <2>5 DEF Hopeless, Promise!Unusable
<1>4. \/ poisoned
      \/ request.method = "update" /\ Promise!Unusable(request)
  BY <1>3 DEF GivenUp
<1> QED
  BY <1>1, <1>2, <1>4
     DEF Promise!GivesUp, Promise!Pending, Promise!Reply, Results, Views, View

\* A miss is one of ResultCache.
LEMMA MissedMisses ==
    ASSUME StoreInv, ActionInv, ResultsInv, NEW c \in ActionCalls, Running(actions[c]),
           Missed(c)
    PROVE  Promise!Misses(c)
<1> DEFINE request == actions[c].request
           at == <<request.instance, request.action.hash>>
<1>1. /\ Views' = [Views EXCEPT ![c].status = "NotFound"]
      /\ Contents' = Contents
      /\ Results' = Results
      /\ poisoned' = poisoned
  BY FailsViews DEF Missed, Code
<1>2. request.method = "get" /\ actions[c].phase = "lookup"
  BY DEF Missed, At
<1>3. /\ Views[c] # Idle /\ Views[c].status = "running" /\ Views[c].request = request
      /\ Views[c].result = NoResult
  BY <1>2, RunningViews DEF Progress
<1>4. ~poisoned /\ at \notin DOMAIN Results
  BY ResultsOfKeys DEF Missed, ActionAcKey
<1> QED
  BY <1>1, <1>2, <1>3, <1>4
     DEF Promise!Misses, Promise!Pending, Promise!Reply, Promise!Key, Results, Views, View

\* A call that goes on has looked, or has done nothing that can be seen.
LEMMA AdvancedLooks ==
    ASSUME StoreInv, ActionInv, ResultsInv, NEW c \in ActionCalls, Running(actions[c]),
           Advanced(c)
    PROVE  Promise!Looks(c) \/ UNCHANGED Promise!promiseVars
<1> DEFINE call == actions[c]
           request == call.request
           at == <<request.instance, request.action.hash>>
<1>1. PICK next \in ActionCall :
          GoesOn(c, next) /\ KeepsResult(c, next) /\ Becomes(c, next)
  BY DEF Advanced
<1>2. Contents' = Contents /\ Results' = Results /\ poisoned' = poisoned
  <2>1. StoreStep("cas") /\ UNCHANGED storeVars
    BY <1>1 DEF Becomes, StoreStep
  <2> QED
    BY <2>1, CasStays, ResultsStay DEF storeVars
<1>3. Views' = [Views EXCEPT ![c] = View(next)]
  BY <1>1, ViewSteps DEF Becomes, ActionInv
<1>4. View(next) = [request |-> request, status |-> "running",
                    result |-> IF request.method = "get" THEN next.result ELSE NoResult]
  BY <1>1, IdleAssumption DEF View, GoesOn
<1>5. /\ Views[c] # Idle /\ Views[c].status = "running" /\ Views[c].request = request
      /\ Views[c].result = IF request.method = "get" THEN call.result ELSE NoResult
      /\ Progress(Contents, call)
  BY RunningViews
<1>6. Views[c] = [request |-> request, status |-> "running",
                  result |-> IF request.method = "get" THEN call.result ELSE NoResult]
  BY <1>5 DEF Views, View
<1>7. Views = [d \in ActionCalls |-> Views[d]]
  BY DEF Views
<1>8. CASE request.method = "get" => next.result = call.result
  <2>1. View(next) = Views[c]
    BY <1>4, <1>6, <1>8
  <2>2. Views' = Views
    BY <1>3, <1>7, <2>1
  <2> QED
    BY <1>2, <2>2 DEF Promise!promiseVars, Results, Views, View
<1>9. CASE /\ request.method = "get"
           /\ call.phase = "lookup"
           /\ ~poisoned
           /\ Contains(ActionAcKey(call))
           /\ next.result = Cached(call)
  <2>1. at \in DOMAIN Results /\ next.result = Results[at]
    BY <1>9, ResultsOfKeys DEF Cached, ActionAcKey
  <2>2. Views[c].result = NoResult
    BY <1>5, <1>9 DEF Progress
  <2>3. View(next) = [Views[c] EXCEPT !.result = Results[at]]
    BY <1>4, <1>6, <1>9, <2>1
  <2>4. Views' = [Views EXCEPT ![c].result = Results[at]]
    BY <1>3, <1>7, <2>3
  <2> QED
    BY <1>2, <1>5, <1>9, <2>1, <2>2, <2>4
       DEF Promise!Looks, Promise!Pending, Promise!Key, Results, Views, View
<1> QED
  BY <1>1, <1>8, <1>9 DEF KeepsResult, GoesOn

\* Whatever comes of a step that only reads the store, it is a step here too.
LEMMA ReadingStepViews ==
    ASSUME StoreInv, ActionInv, ResultsInv, NEW c \in ActionCalls, ReadingStep(c)
    PROVE  [Promise!Next]_Promise!promiseVars
<1>1. Running(actions[c]) /\ (Refused(c) \/ GivenUp(c) \/ Missed(c) \/ Advanced(c))
  BY ReadingStepOutcome
<1>2. \/ Promise!Refuses(c) \/ Promise!GivesUp(c) \/ Promise!Misses(c) \/ Promise!Looks(c)
      \/ UNCHANGED Promise!promiseVars
  BY <1>1, RefusedRefuses, GivenUpGivesUp, MissedMisses, AdvancedLooks
<1> QED
  BY <1>2 DEF Promise!Next

\* A call arrives and is refused at once, or is pending.
LEMMA ArrivesAsks ==
    ASSUME StoreInv, ActionInv, NEW c \in ActionCalls,
           NEW request \in ActionRequests, ActionArrives(c, request)
    PROVE  Promise!Asks(c)
<1> DEFINE valid == /\ request.action # NoDigest
                    /\ request.method = "update" => request.result # NoResult
                    /\ ResolvesFunction(request.function)
           call == [status |-> Admission(valid), request |-> request,
                    phase |-> "lookup", command |-> NoDigest, result |-> NoResult,
                    trees |-> << >>, digests |-> << >>, before |-> DOMAIN blobs]
<1>1. /\ actions[c] = Idle
      /\ actions' = [actions EXCEPT ![c] = call]
      /\ UNCHANGED storeVars
  BY DEF ActionArrives
<1>2. valid <=> Promise!WellFormed(request)
  BY DEF Promise!WellFormed, Promise!ResolvesFunction, ResolvesFunction
<1>3. Admission(valid) = IF Promise!WellFormed(request) THEN "running" ELSE "InvalidArgument"
  BY <1>2 DEF Admission
<1> HIDE DEF valid
<1>4. call \in ActionCall
  <2>1. << >> \in Seq(OptionalDigest) /\ << >> \in Seq(Digest)
    OBVIOUS
  <2>2. Admission(valid) \in Status
    BY DEF Admission, Status, Code
  <2> QED
    BY <2>1, <2>2 DEF ActionCall, Phase, OptionalDigest, StoreInv
<1>5. call # Idle
  BY <1>4, IdleAssumption
<1>6. View(call) = [request |-> request, status |-> Admission(valid), result |-> NoResult]
  BY <1>5 DEF View
<1> HIDE DEF call
<1>7. Views' = [Views EXCEPT ![c] =
          [request |-> request, result |-> NoResult,
           status |-> IF Promise!WellFormed(request) THEN "running" ELSE "InvalidArgument"]]
  BY <1>1, <1>3, <1>6, ViewSteps DEF ActionInv
<1>8. Views[c] = Idle
  BY <1>1 DEF Views, View
<1>9. Contents' = Contents /\ Results' = Results /\ poisoned' = poisoned
  BY <1>1, CasStays, ResultsStay DEF StoreStep, storeVars
<1> QED
  BY <1>7, <1>8, <1>9 DEF Promise!Asks, Results, Views, View

\* The empty blob joins the CAS, or is there already; the call does not move.
LEMMA StoresEmptyArtifactViews ==
    ASSUME StoreInv, ActionInv, ResultsInv, NEW c \in ActionCalls, StoresEmptyArtifact(c)
    PROVE  [Promise!Next]_Promise!promiseVars
<1> DEFINE call == actions[c]
           next == [call EXCEPT !.digests = Tail(@)]
<1>1. InArtifacts(call) /\ Running(call) /\ call.digests # << >>
  BY DEF StoresEmptyArtifact, HasDigest, InArtifacts
<1>2. CASE poisoned /\ Fails(c, "Internal")
  <2>1. Promise!GivesUp(c)
    BY <1>1, <1>2, GivenUpGivesUp DEF GivenUp
  <2> QED
    BY <2>1 DEF Promise!Next
<1>3. CASE /\ Put(CasKey(call.request.instance, EmptyHash), IdentityBlob(<< >>))
           /\ actions' = [actions EXCEPT ![c] = next]
  <2>1. StoreStep("cas")
    BY StoresEmptyArtifactInv
  <2>2. call \in ActionCall
    BY <1>1, InArtifactsKnows
  <2>3. next \in ActionCall
    <3>1. Tail(call.digests) \in Seq(Digest)
      BY <1>1, <2>2, HeadTailProperties DEF ActionCall
    <3> QED
      BY <2>2, <3>1 DEF ActionCall
  <2>4. /\ next.request = call.request
        /\ next.status = call.status
        /\ next.result = call.result
    BY <2>2 DEF ActionCall
  <2>5. next # Idle /\ call # Idle
    BY <1>1, <2>3, IdleAssumption DEF Running
  <2> HIDE DEF next
  <2>6. View(next) = View(call)
    BY <2>4, <2>5 DEF View
  <2>7. Views' = [Views EXCEPT ![c] = View(call)]
    BY <1>3, <2>6, ViewSteps DEF ActionInv
  <2>8. Views' = Views
    BY <2>7 DEF Views
  <2> QED
    BY <2>1, <2>8, OthersStep DEF Promise!Next
<1> QED
  BY <1>2, <1>3 DEF StoresEmptyArtifact

\* The answer of a get is complete when it is given.
LEMMA GetRepliesHits ==
    ASSUME StoreInv, ActionInv, ResultsInv, NEW c \in ActionCalls, GetReplies(c)
    PROVE  Promise!Hits(c)
<1> DEFINE call == actions[c]
           request == call.request
<1>1. /\ InArtifacts(call) /\ Running(call)
      /\ request.method = "get"
      /\ Fails(c, "Ok")
  BY DEF GetReplies, Validated, InArtifacts, Becomes, Fails
<1>2. /\ Views' = [Views EXCEPT ![c].status = "Ok"]
      /\ Contents' = Contents
      /\ Results' = Results
      /\ poisoned' = poisoned
  BY <1>1, FailsViews DEF Code
<1>3. /\ Views[c] # Idle /\ Views[c].status = "running" /\ Views[c].request = request
      /\ Views[c].result = call.result
  BY <1>1, RunningViews
<1>4. Complete(Contents, request.instance, call.result) /\ call.result \in ActionResult
  BY <1>1, InArtifactsKnows DEF Collected
<1>5. Promise!Complete(Contents, request.instance, call.result) /\ call.result # NoResult
  BY <1>4, SameReading, ActionRequestAssumption
<1> QED
  BY <1>1, <1>2, <1>3, <1>5
     DEF Promise!Hits, Promise!Pending, Promise!Reply, Results, Views, View

\* An update is justified when its result is put, however long ago it looked.
LEMMA CachesResultAccepts ==
    ASSUME StoreInv, ActionInv, ResultsInv, NEW c \in ActionCalls, CachesResult(c)
    PROVE  Promise!Accepts(c) \/ Promise!GivesUp(c)
<1> DEFINE call == actions[c]
           request == call.request
           data == EncodeResult(call.result)
           key == ActionAcKey(call)
           at == <<request.instance, request.action.hash>>
<1>1. /\ InArtifacts(call) /\ Running(call)
      /\ call.digests = << >> /\ call.trees = << >>
      /\ request.method = "update"
  BY DEF CachesResult, Validated, InArtifacts
<1>2. /\ call \in ActionCall
      /\ Progress(Contents, call)
      /\ Collected(Contents, call)
      /\ call.result = request.result
      /\ call.phase = "artifacts"
  BY <1>1, InArtifactsKnows
<1>3. CASE /\ ~CanStore(data) \/ poisoned
           /\ Fails(c, "Internal")
  BY <1>1, <1>2, <1>3, GivenUpGivesUp DEF GivenUp, Hopeless
<1>4. CASE /\ CanStore(data)
           /\ Put(key, StoredForm(data))
           /\ actions' = [actions EXCEPT ![c] = Finished(call, "Ok")]
  <2>1. /\ Complete(Contents, request.instance, request.result)
        /\ ActionKnown(Contents, request.instance, request.action.hash)
    BY <1>1, <1>2, CollectedAll DEF Progress
  <2>2. Promise!Justified(request)
    BY <2>1, SameReading DEF Promise!Justified
  <2>3. data \in Bytes /\ DecodeResult(data) = request.result
    <3>1. request \in ActionRequests /\ request.result # NoResult
      BY <1>1, <1>2 DEF ActionInv, AdmittedActions, ActionCall
    <3> QED
      BY <1>2, <3>1, EncodingAssumption
  <2>4. Decodes(StoredForm(data)) /\ IdentityData(StoredForm(data)) = data
    BY <1>4, <2>3, StoredFormDecodes
  <2>5. /\ key.kind = "ac" /\ key.instance = request.instance
        /\ key.hash = request.action.hash
        /\ GoodEntry(key, StoredForm(data))
    <3>1. request \in ActionRequest /\ request.action \in Digest
      BY <1>1, ActionRequestType
    <3> QED
      BY <2>4, <3>1
         DEF GoodEntry, ActionAcKey, AcKey, BlobKey, Kind, ActionRequest, Digest
  <2>6. Contents' = Contents /\ Results' = Promise!With(Results, at, request.result)
    BY <1>4, <2>3, <2>4, <2>5, PutAddsResult
  <2>7. ~poisoned /\ poisoned' = poisoned
    BY <1>4 DEF Put
  <2>8. /\ Views[c] # Idle /\ Views[c].status = "running" /\ Views[c].request = request
    BY <1>1, RunningViews
  <2>9. Views' = [Views EXCEPT ![c].status = "Ok"]
    BY <1>1, <1>4, AnswerViews DEF Code
  <2> QED
    BY <1>1, <2>2, <2>6, <2>7, <2>8, <2>9
       DEF Promise!Accepts, Promise!Pending, Promise!Reply, Promise!Key,
           Results, Views, View
<1> QED
  BY <1>3, <1>4 DEF CachesResult

\* A panic takes down the call it happens in.
LEMMA ActionPanicsBreaks ==
    ASSUME StoreInv, ActionInv, ResultsInv, NEW c \in ActionCalls, ActionPanics(c)
    PROVE  Promise!Breaks
<1>1. Running(actions[c])
  BY DEF ActionPanics, HasDigest, Validated, InArtifacts
<1>2. Views[c] # Idle /\ Views[c].status = "running"
  BY <1>1, RunningViews
<1>3. Results' = Results
  BY ResultsStay DEF ActionPanics, StoreStep
<1>4. Contents' = Contents /\ MayPoison /\ ~poisoned /\ poisoned' = TRUE
  BY DEF ActionPanics, PutPanics, Contents, CasKeys, Get
<1>5. View(Idle) = Idle
  BY DEF View
<1>6. Views' = [Views EXCEPT ![c] = Idle]
  BY <1>5, ViewSteps DEF ActionPanics, ActionInv
<1> QED
  BY <1>2, <1>3, <1>4, <1>6 DEF Promise!Breaks, Results, Views, View

\* A response that is taken.
LEMMA ActionReturnsTakes ==
    ASSUME StoreInv, ActionInv, NEW c \in ActionCalls, ActionReturns(c)
    PROVE  Promise!Takes(c)
<1> DEFINE call == actions[c]
<1>1. call # Idle /\ call.status # "running" /\ call \in ActionCall /\ ActionTypeOK
  BY DEF ActionReturns, Replied, ActionInv, ActionTypeOK
<1>2. UNCHANGED storeVars /\ actions' = [actions EXCEPT ![c] = Idle]
  BY DEF ActionReturns, Becomes
<1>3. Views[c] # Idle /\ Views[c].status = call.status
  <2>1. Views[c] = [request |-> call.request, status |-> call.status,
                    result |-> IF call.request.method = "get" THEN call.result
                               ELSE NoResult]
    BY <1>1 DEF Views, View
  <2>2. Views[c] \in [request : ActionRequests, status : Status,
                      result : ActionResult \cup {NoResult}]
    BY <1>1, <2>1 DEF ActionCall
  <2> QED
    BY <2>1, <2>2, IdleAssumption
<1>4. View(Idle) = Idle
  BY DEF View
<1>5. Views' = [Views EXCEPT ![c] = Idle]
  BY <1>1, <1>2, <1>4, ViewSteps
<1>6. Contents' = Contents /\ Results' = Results /\ poisoned' = poisoned
  BY <1>2, CasStays, ResultsStay DEF StoreStep, storeVars
<1> QED
  BY <1>1, <1>3, <1>5, <1>6 DEF Promise!Takes, Results, Views, View

\* A new process is a new cache.
LEMMA RestartRestarts == Restart => Promise!Restarts
<1> SUFFICES ASSUME Restart PROVE Promise!Restarts
  OBVIOUS
<1>1. MayRestart /\ poisoned' = FALSE /\ actions' = [c \in ActionCalls |-> Idle]
      /\ DOMAIN blobs' = {}
  BY DEF Restart
<1>2. CasKeys' = {} /\ AcKeys' = {}
  BY <1>1 DEF CasKeys, AcKeys
<1>3. Contents' = << >>
  BY <1>2 DEF Contents
<1>4. Results' = << >>
  BY <1>2 DEF Results
<1>5. Views' = [c \in ActionCalls |-> Idle]
  BY <1>1 DEF Views, View
<1> QED
  BY <1>1, <1>3, <1>4, <1>5 DEF Promise!Restarts, Results, Views, View

-----------------------------------------------------------------------------

\* The steps of the action cache service, one by one.
LEMMA ActionNextPromise ==
    ASSUME StoreInv, ActionInv, ResultsInv, ActionNext
    PROVE  [Promise!Next]_Promise!promiseVars
<1>1. CASE \E c \in ActionCalls, request \in ActionRequests : ActionArrives(c, request)
  BY <1>1, ArrivesAsks DEF Promise!Next
<1>2. CASE \E c \in ActionCalls : ReadingStep(c)
  BY <1>2, ReadingStepViews
<1>3. CASE \E c \in ActionCalls : StoresEmptyArtifact(c)
  BY <1>3, StoresEmptyArtifactViews
<1>4. CASE \E c \in ActionCalls : GetReplies(c)
  BY <1>4, GetRepliesHits DEF Promise!Next
<1>5. CASE \E c \in ActionCalls : CachesResult(c)
  BY <1>5, CachesResultAccepts DEF Promise!Next
<1>6. CASE \E c \in ActionCalls : ActionPanics(c)
  BY <1>6, ActionPanicsBreaks DEF Promise!Next
<1>7. CASE \E c \in ActionCalls : ActionReturns(c)
  BY <1>7, ActionReturnsTakes DEF Promise!Next
<1> QED
  BY <1>1, <1>2, <1>3, <1>4, <1>5, <1>6, <1>7 DEF ActionNext, ActionStep, ReadingStep

\* Every step of the server is a step of ResultCache, or none.
LEMMA NextPromise ==
    ASSUME IInv, [Next]_vars
    PROVE  [Promise!Next]_Promise!promiseVars
<1>1. CASE CasNext /\ UNCHANGED <<streamVars, actions>>
  <2>1. StoreStep("cas") /\ Views' = Views
    BY <1>1, CasStep DEF IInv, Views, View
  <2> QED
    BY <2>1, OthersStep DEF IInv, Promise!Next
<1>2. CASE StreamNext /\ UNCHANGED <<casVars, actions>>
  <2>1. StoreStep("cas") /\ Views' = Views
    BY <1>2, StreamStep DEF IInv, Views, View
  <2> QED
    BY <2>1, OthersStep DEF IInv, Promise!Next
<1>3. CASE ActionNext /\ UNCHANGED <<casVars, streamVars>>
  BY <1>3, ActionNextPromise DEF IInv
<1>4. CASE Restart
  BY <1>4, RestartRestarts DEF Promise!Next
<1>5. CASE UNCHANGED vars
  <2>1. StoreStep("cas") /\ Views' = Views
    BY <1>5 DEF vars, StoreStep, Views, View
  <2> QED
    BY <2>1, OthersStep DEF IInv, Promise!Next
<1> QED
  BY <1>1, <1>2, <1>3, <1>4, <1>5 DEF Next

\* The server implements ResultCache, for any number of calls, requests and
\* blobs: the lookups of GetActionResult and UpdateActionResult, made one by one
\* between the steps of all other calls, cannot be told from single looks at the
\* whole store.
THEOREM Refinement == Spec => ServesResults
BY InitPromise, NextPromise, Invariance, PTL DEF Spec, ServesResults, Promise!Spec

=============================================================================
