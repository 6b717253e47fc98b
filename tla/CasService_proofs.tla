-------------------------- MODULE CasService_proofs --------------------------
(***************************************************************************)
(* The ContentAddressableStorage service: its steps keep the shapes of its *)
(* calls and only add to the CAS, and what a call has collected for its    *)
(* response stays true while other calls go on.                            *)
(***************************************************************************)
EXTENDS CasService, InMemoryStore_proofs, SequenceTheorems

\* The tables of a new service have their types.
LEMMA CasInitTypes == CasInit => CasTypeOK
BY DEF CasInit, CasTypeOK

\* A call is let in or answered at once.
LEMMA AdmissionIsStatus ==
    ASSUME NEW function PROVE Admission(ResolvesFunction(function)) \in Status
BY DEF Admission, Status, Code

\* A call starts at its first entry with nothing collected.
LEMMA CallStart == 1 \in Nat \ {0} /\ \A S : << >> \in Seq(S)
OBVIOUS

\* After an entry there is a next index.
LEMMA NextEntry == ASSUME NEW n \in Nat \ {0} PROVE n + 1 \in Nat \ {0}
OBVIOUS

\* A list that takes one more element.
LEMMA RangeOfAppend ==
    ASSUME NEW S, NEW s \in Seq(S), NEW x \in S
    PROVE  Range(Append(s, x)) = Range(s) \cup {x}
<1>1. /\ Append(s, x) \in Seq(S)
      /\ Len(Append(s, x)) = Len(s) + 1
      /\ \A i \in 1..Len(s) : Append(s, x)[i] = s[i]
      /\ Append(s, x)[Len(s) + 1] = x
  BY AppendProperties
<1>2. Range(s) = {s[i] : i \in 1..Len(s)}
  BY RangeEquality
<1>3. Range(Append(s, x)) = {Append(s, x)[i] : i \in 1..(Len(s) + 1)}
  BY <1>1, RangeEquality
<1>4. Len(s) \in Nat /\ 1..(Len(s) + 1) = 1..Len(s) \cup {Len(s) + 1}
  OBVIOUS
<1> QED
  BY <1>1, <1>2, <1>3, <1>4

-----------------------------------------------------------------------------
(* The three methods, one lemma for the types of each *)

\* FindMissingBlobs keeps its table well-formed and only reads the store.
LEMMA FindTypes ==
    ASSUME StoreInv, CasTypeOK, NEW c \in FindCalls,
           \/ \E request \in FindRequests : FindArrives(c, request)
           \/ FindStep(c)
    PROVE  CasTypeOK' /\ UNCHANGED storeVars /\ finds'[c] \in FindCall
<1>1. ASSUME NEW request \in FindRequests, FindArrives(c, request)
      PROVE  CasTypeOK' /\ UNCHANGED storeVars /\ finds'[c] \in FindCall
  <2> DEFINE call == finds'[c]
  <2>1. call = [status |-> Admission(ResolvesFunction(request.function)),
                request |-> request, next |-> 1, missing |-> << >>,
                before |-> DOMAIN blobs]
    BY <1>1 DEF FindArrives, CasTypeOK
  <2>2. call \in FindCall
    BY <2>1, AdmissionIsStatus, CallStart DEF FindCall, StoreInv
  <2> QED
    BY <1>1, <2>1, <2>2 DEF FindArrives, CasTypeOK
<1>2. ASSUME FindEntry(c)
      PROVE  CasTypeOK' /\ UNCHANGED storeVars /\ finds'[c] \in FindCall
  <2> DEFINE digest == finds[c].request.digests[finds[c].next]
  <2>1. finds[c] \in FindCall
    BY <1>2 DEF FindEntry, CasTypeOK, Running
  <2>2. digest \in Digest
    BY <1>2, <2>1, CasRequestAssumption DEF FindEntry, FindCall, FindRequest
  <2>3. /\ finds[c].next + 1 \in Nat \ {0}
        /\ Append(finds[c].missing, digest) \in Seq(Digest)
        /\ << >> \in Seq(Digest)
    BY <2>1, <2>2, CallStart, NextEntry DEF FindCall
  <2>4. /\ [finds[c] EXCEPT !.status = "Internal", !.missing = << >>] \in FindCall
        /\ \A missing \in Seq(Digest) :
              [finds[c] EXCEPT !.next = finds[c].next + 1, !.missing = missing] \in FindCall
    BY <2>1, <2>3 DEF FindCall, Status, Code
  <2>5. finds'[c] \in FindCall
    BY <1>2, <2>1, <2>3, <2>4 DEF FindEntry, FindOutcome, Looked, CasTypeOK, FindCall
  <2> QED
    BY <1>2, <2>5 DEF FindEntry, CasTypeOK
<1>3. ASSUME FindReplies(c)
      PROVE  CasTypeOK' /\ UNCHANGED storeVars /\ finds'[c] \in FindCall
  <2>1. finds[c] \in FindCall
    BY <1>3 DEF FindReplies, CasTypeOK, Running
  <2>2. finds'[c] \in FindCall
    BY <1>3, <2>1 DEF FindReplies, FindCall, CasTypeOK, Status, Code
  <2> QED
    BY <1>3, <2>2 DEF FindReplies, CasTypeOK
<1> QED
  BY <1>1, <1>2, <1>3 DEF FindStep

\* An answer to one digest of a BatchRead has its type because what is stored
\* decodes.
LEMMA AnswerReadType ==
    ASSUME StoreInv, NEW request \in ReadRequest, NEW digest \in Digest
    PROVE  AnswerRead(request, digest) \in ReadAnswer
<1> DEFINE key == CasKey(request.instance, digest.hash)
           acceptable == {e \in request.acceptable : SupportedCompressor(e)}
           target == ResponseEncoding(Get(key).encoding, acceptable)
<1>1. \A code \in Code : ReadFailure(digest, code) \in ReadAnswer
  <2>1. << >> \in Seq(Byte)
    BY BytesAssumption
  <2> QED
    BY <2>1 DEF ReadFailure, ReadAnswer, Encoding
<1>2. ASSUME Contains(key)
      PROVE  [digest |-> digest, data |-> Transcode(Get(key), target).data,
              compressor |-> target, code |-> "Ok"] \in ReadAnswer
  <2>1. Decodes(Get(key))
    BY <1>2 DEF Contains, Get, StoreInv
  <2>2. target \in Encoding
    BY <2>1 DEF ResponseEncoding, Decodes, Blob, Encoding
  <2>3. Transcode(Get(key), target).data \in Seq(Byte)
    BY <2>1, <2>2, TranscodeGivesBytes
  <2> QED
    BY <2>2, <2>3 DEF ReadAnswer, Code
<1> QED
  BY <1>1, <1>2 DEF AnswerRead, Code

\* So does BatchReadBlobs.
LEMMA ReadTypes ==
    ASSUME StoreInv, CasTypeOK, NEW c \in ReadCalls,
           \/ \E request \in ReadRequests : ReadArrives(c, request)
           \/ ReadStep(c)
    PROVE  CasTypeOK' /\ UNCHANGED storeVars
<1>1. ASSUME NEW request \in ReadRequests, ReadArrives(c, request)
      PROVE  CasTypeOK' /\ UNCHANGED storeVars
  <2>1. reads'[c] = [status |-> Admission(ResolvesFunction(request.function)),
                     request |-> request, next |-> 1, responses |-> << >>,
                     before |-> DOMAIN blobs]
    BY <1>1 DEF ReadArrives, CasTypeOK
  <2>2. reads'[c] \in ReadCall
    BY <2>1, AdmissionIsStatus, CallStart DEF ReadCall, StoreInv
  <2> QED
    BY <1>1, <2>2 DEF ReadArrives, CasTypeOK
<1>2. ASSUME ReadEntry(c)
      PROVE  CasTypeOK' /\ UNCHANGED storeVars
  <2> DEFINE call == reads[c]
             answer == AnswerRead(call.request, call.request.digests[call.next])
  <2>1. call \in ReadCall
    BY <1>2 DEF ReadEntry, CasTypeOK, Running
  <2>2. call.request \in ReadRequest /\ call.request.digests[call.next] \in Digest
    BY <1>2, <2>1, CasRequestAssumption DEF ReadEntry, ReadCall, ReadRequest
  <2>3. answer \in ReadAnswer
    BY <2>2, AnswerReadType
  <2>4. reads'[c] = [call EXCEPT !.next = call.next + 1,
                                 !.responses = Append(@, answer)]
    BY <1>2 DEF ReadEntry, CasTypeOK
  <2>5. /\ call.next + 1 \in Nat \ {0}
        /\ Append(call.responses, answer) \in Seq(ReadAnswer)
    BY <2>1, <2>3, NextEntry DEF ReadCall
  <2>6. reads'[c] \in ReadCall
    BY <2>1, <2>4, <2>5 DEF ReadCall
  <2> QED
    BY <1>2, <2>6 DEF ReadEntry, CasTypeOK
<1>3. ASSUME ReadReplies(c)
      PROVE  CasTypeOK' /\ UNCHANGED storeVars
  <2>1. reads[c] \in ReadCall
    BY <1>3 DEF ReadReplies, CasTypeOK, Running
  <2>2. reads'[c] \in ReadCall
    BY <1>3, <2>1 DEF ReadReplies, ReadCall, CasTypeOK, Status, Code
  <2> QED
    BY <1>3, <2>2 DEF ReadReplies, CasTypeOK
<1> QED
  BY <1>1, <1>2, <1>3 DEF ReadStep

\* Answering an entry of a BatchUpdate gives a call.
LEMMA AnsweredType ==
    ASSUME NEW call \in UpdateCall, HasEntry(call), NEW code \in Code
    PROVE  Answered(call, code) \in UpdateCall /\ Current(call) \in UpdateEntry
           /\ call.request \in UpdateRequest
<1>1. call.request \in UpdateRequest /\ Current(call) \in UpdateEntry
  BY CasRequestAssumption DEF HasEntry, Current, UpdateCall, UpdateRequest
<1>2. [digest |-> Current(call).digest, code |-> code] \in UpdateAnswer
  BY <1>1 DEF UpdateEntry, UpdateAnswer
<1> DEFINE answer == [digest |-> Current(call).digest, code |-> code]
<1>3. /\ call.next + 1 \in Nat \ {0}
      /\ Append(call.responses, answer) \in Seq(UpdateAnswer)
  BY <1>2, NextEntry DEF UpdateCall
<1> QED
  BY <1>1, <1>3 DEF Answered, UpdateCall

\* A batch update stores what it has verified, under the key it was sent for.
LEMMA UpdatePutsGoodEntry ==
    ASSUME StoreInv, CasTypeOK, NEW c \in UpdateCalls, UpdateStores(c)
    PROVE  CasTypeOK' /\ StoreStep("cas")
<1> DEFINE call == updates[c]
           entry == Current(call)
           data == EntryIdentity(entry)
           key == CasKey(call.request.instance, entry.digest.hash)
<1>1. call \in UpdateCall /\ HasEntry(call)
  BY DEF UpdateStores, HasEntry, CasTypeOK, Running
<1>2. /\ Answered(call, "Ok") \in UpdateCall
      /\ entry \in UpdateEntry
      /\ call.request \in UpdateRequest
  BY <1>1, AnsweredType DEF Code
<1>3. entry.digest \in Digest /\ entry.compressor \in Encoding /\ entry.data \in Bytes
  BY <1>2 DEF UpdateStores, Acceptable, UpdateEntry, OptionalDigest, SupportedCompressor
<1>4. data \in Bytes /\ Hash(data) = entry.digest.hash
  <2>1. VerifiedUpload(entry.digest.hash, entry.digest.size, entry.data, entry.compressor)
    BY DEF UpdateStores, Acceptable
  <2> QED
    BY <1>3, <2>1, VerifiedUploadIdentity DEF EntryIdentity
<1>5. Decodes(StoredForm(data)) /\ IdentityData(StoredForm(data)) = data
  BY <1>4, StoredFormDecodes DEF UpdateStores
<1>6. key \in BlobKey
  BY <1>2, <1>3 DEF UpdateRequest, Digest, CasKey, BlobKey, Kind
<1>7. GoodEntry(key, StoredForm(data))
  BY <1>4, <1>5, <1>6 DEF GoodEntry, CasKey
<1>8. StoreStep("cas")
  <2>1. Put(key, StoredForm(data)) /\ key.kind = "cas"
    BY DEF UpdateStores, CasKey
  <2>2. StoredForm(data) \in Blob
    BY <1>5 DEF Decodes
  <2> QED
    BY <1>6, <1>7, <2>1, <2>2 DEF StoreStep
<1>9. CasTypeOK'
  BY <1>2 DEF UpdateStores, CasTypeOK
<1> QED
  BY <1>8, <1>9

\* BatchUpdateBlobs keeps its table well-formed, whatever it does to the store.
LEMMA UpdateTypes ==
    ASSUME StoreInv, CasTypeOK, NEW c \in UpdateCalls,
           \/ \E request \in UpdateRequests : UpdateArrives(c, request)
           \/ UpdateRejects(c) \/ UpdateReplies(c) \/ UpdatePanics(c)
    PROVE  CasTypeOK' /\ (UNCHANGED storeVars \/ PutPanics)
<1>1. ASSUME NEW request \in UpdateRequests, UpdateArrives(c, request)
      PROVE  CasTypeOK' /\ UNCHANGED storeVars
  <2>1. updates'[c] = [status |-> Admission(ResolvesFunction(request.function)),
                       request |-> request, next |-> 1, responses |-> << >>]
    BY <1>1 DEF UpdateArrives, CasTypeOK
  <2>2. updates'[c] \in UpdateCall
    BY <2>1, AdmissionIsStatus, CallStart DEF UpdateCall
  <2> QED
    BY <1>1, <2>2 DEF UpdateArrives, CasTypeOK
<1>2. ASSUME UpdateRejects(c)
      PROVE  CasTypeOK' /\ UNCHANGED storeVars
  <2>1. updates[c] \in UpdateCall /\ HasEntry(updates[c])
    BY <1>2 DEF UpdateRejects, HasEntry, CasTypeOK, Running
  <2>2. \A code \in Code : Answered(updates[c], code) \in UpdateCall
    BY <2>1, AnsweredType
  <2> QED
    BY <1>2, <2>2 DEF UpdateRejects, CasTypeOK, Code
<1>3. ASSUME UpdateReplies(c)
      PROVE  CasTypeOK' /\ UNCHANGED storeVars
  <2>1. updates[c] \in UpdateCall
    BY <1>3 DEF UpdateReplies, CasTypeOK, Running
  <2>2. updates'[c] \in UpdateCall
    BY <1>3, <2>1 DEF UpdateReplies, UpdateCall, CasTypeOK, Status, Code
  <2> QED
    BY <1>3, <2>2 DEF UpdateReplies, CasTypeOK
<1>4. ASSUME UpdatePanics(c)
      PROVE  CasTypeOK' /\ PutPanics
  BY <1>4 DEF UpdatePanics, CasTypeOK
<1> QED
  BY <1>1, <1>2, <1>3, <1>4

-----------------------------------------------------------------------------

\* A step of the service, whichever, keeps the types and only adds to the CAS.
LEMMA CasStep ==
    ASSUME StoreInv, CasTypeOK, CasNext
    PROVE  CasTypeOK' /\ StoreStep("cas")
<1>1. CASE \E c \in FindCalls :
              \/ \E request \in FindRequests : FindArrives(c, request)
              \/ FindStep(c)
  BY <1>1, FindTypes DEF StoreStep
<1>2. CASE \E c \in ReadCalls :
              \/ \E request \in ReadRequests : ReadArrives(c, request)
              \/ ReadStep(c)
  BY <1>2, ReadTypes DEF StoreStep
<1>3. CASE \E c \in UpdateCalls : UpdateStores(c)
  BY <1>3, UpdatePutsGoodEntry
<1>4. CASE \E c \in UpdateCalls :
              \/ \E request \in UpdateRequests : UpdateArrives(c, request)
              \/ UpdateRejects(c) \/ UpdateReplies(c) \/ UpdatePanics(c)
  BY <1>4, UpdateTypes DEF StoreStep
<1>5. CASE CasReturns
  BY <1>5 DEF CasReturns, CasTypeOK, StoreStep
<1> QED
  BY <1>1, <1>2, <1>3, <1>4, <1>5 DEF CasNext, UpdateStep

-----------------------------------------------------------------------------
(* What a call knows before it answers *)

\* A FindMissingBlobs call over the keys of the store: what it has passed was
\* listed, and then missing before the call, or is there.
FindSoFar(keys, call) ==
    LET digests == call.request.digests
        Key(digest) == CasKey(call.request.instance, digest.hash)
    IN  /\ call.before \subseteq keys
        /\ call.status = "Ok" => call.next > Len(digests)
        /\ call.next <= Len(digests) + 1
        /\ call.status \in {"running", "Ok"} =>
              /\ \A digest \in Range(call.missing) : Key(digest) \notin call.before
              /\ \A i \in 1..(call.next - 1) :
                    digests[i] \in Range(call.missing) \/ Key(digests[i]) \in keys

\* One answer of BatchReadBlobs.
ReadRight(failed, call, digest, answer) ==
    /\ answer.digest = digest
    /\ answer.code = "Ok" =>
          /\ answer.compressor \in call.request.acceptable \cup {"identity"}
          /\ \E b \in Bytes :
                /\ Hash(b) = digest.hash
                /\ answer.data = IF answer.compressor = "identity" THEN b ELSE Compress(b)
    /\ answer.code = "NotFound" =>
          CasKey(call.request.instance, digest.hash) \notin call.before
    /\ answer.code = "Internal" => failed

\* A BatchReadBlobs call: an answer for each digest it has passed.
ReadSoFar(keys, failed, call) ==
    LET digests == call.request.digests
    IN  /\ call.before \subseteq keys
        /\ call.status = "Ok" => call.next > Len(digests)
        /\ call.next <= Len(digests) + 1
        /\ Len(call.responses) = call.next - 1
        /\ \A i \in 1..(call.next - 1) :
              ReadRight(failed, call, digests[i], call.responses[i])

\* One answer of BatchUpdateBlobs, against the store as it is now.
UpdateRight(store, failed, call, entry, answer) ==
    LET key == CasKey(call.request.instance, entry.digest.hash)
    IN  /\ answer.digest = entry.digest
        /\ answer.code = "Ok" =>
              key \in DOMAIN store /\ store[key].uncompressed_size = entry.digest.size
        /\ answer.code # "Ok" => ~Acceptable(entry) \/ failed

\* A BatchUpdateBlobs call: an answer for each entry it has passed.
UpdateSoFar(store, failed, call) ==
    LET entries == call.request.entries
    IN  /\ call.status = "Ok" => call.next > Len(entries)
        /\ call.next <= Len(entries) + 1
        /\ Len(call.responses) = call.next - 1
        /\ \A i \in 1..(call.next - 1) :
              UpdateRight(store, failed, call, entries[i], call.responses[i])

(***************************************************************************)
(* The inductive invariant of the service, on top of the types: what its   *)
(* calls have collected is right, and stays right until they answer.       *)
(***************************************************************************)
AnswersInv ==
    /\ \A c \in FindCalls : finds[c] # Idle => FindSoFar(DOMAIN blobs, finds[c])
    /\ \A c \in ReadCalls : reads[c] # Idle => ReadSoFar(DOMAIN blobs, poisoned, reads[c])
    /\ \A c \in UpdateCalls :
          updates[c] # Idle => UpdateSoFar(blobs, poisoned, updates[c])

\* Nothing has been collected in the beginning.
LEMMA AnswersInit == CasInit => AnswersInv
BY DEF CasInit, AnswersInv

\* Calls that have passed all their entries answer right.
LEMMA AnswersInvImplies ==
    ASSUME CasTypeOK, AnswersInv
    PROVE  FindMissingSound /\ BatchReadSound /\ BatchUpdateSound
<1>1. FindMissingSound
  <2> SUFFICES ASSUME NEW c \in FindCalls, RepliedOk(finds[c]),
                      NEW digest \in Range(finds[c].request.digests)
               PROVE  LET key == CasKey(finds[c].request.instance, digest.hash) IN
                      IF digest \in Range(finds[c].missing)
                      THEN key \notin finds[c].before
                      ELSE Contains(key)
    BY DEF FindMissingSound
  <2> DEFINE call == finds[c]
             digests == call.request.digests
  <2>1. call \in FindCall /\ FindSoFar(DOMAIN blobs, call) /\ call.status = "Ok"
    BY DEF RepliedOk, CasTypeOK, AnswersInv
  <2>2. digests \in Seq(Digest) /\ call.next \in Nat
    BY <2>1, CasRequestAssumption DEF FindCall, FindRequest
  <2>3. PICK i \in 1..Len(digests) : digest = digests[i]
    BY <2>2, RangeEquality
  <2>4. i \in 1..(call.next - 1)
    BY <2>1, <2>2, <2>3 DEF FindSoFar
  <2> QED
    BY <2>1, <2>3, <2>4 DEF FindSoFar, Contains
<1>2. BatchReadSound
  <2> SUFFICES ASSUME NEW c \in ReadCalls, RepliedOk(reads[c])
               PROVE  LET call == reads[c]
                          digests == call.request.digests
                      IN  /\ Len(call.responses) = Len(digests)
                          /\ \A i \in DOMAIN digests :
                                ReadRight(poisoned, call, digests[i], call.responses[i])
    BY DEF BatchReadSound, ReadRight
  <2> DEFINE call == reads[c]
             digests == call.request.digests
  <2>1. call \in ReadCall /\ ReadSoFar(DOMAIN blobs, poisoned, call) /\ call.status = "Ok"
    BY DEF RepliedOk, CasTypeOK, AnswersInv
  <2>2. digests \in Seq(Digest) /\ call.next \in Nat
    BY <2>1, CasRequestAssumption DEF ReadCall, ReadRequest
  <2>3. DOMAIN digests = 1..(call.next - 1) /\ Len(call.responses) = Len(digests)
    BY <2>1, <2>2 DEF ReadSoFar
  <2> QED
    BY <2>1, <2>3 DEF ReadSoFar
<1>3. BatchUpdateSound
  <2> SUFFICES ASSUME NEW c \in UpdateCalls, RepliedOk(updates[c])
               PROVE  LET call == updates[c]
                          entries == call.request.entries
                      IN  /\ Len(call.responses) = Len(entries)
                          /\ \A i \in DOMAIN entries :
                                UpdateRight(blobs, poisoned, call, entries[i],
                                            call.responses[i])
    BY DEF BatchUpdateSound, UpdateRight, Contains, Get
  <2> DEFINE call == updates[c]
             entries == call.request.entries
  <2>1. call \in UpdateCall /\ UpdateSoFar(blobs, poisoned, call) /\ call.status = "Ok"
    BY DEF RepliedOk, CasTypeOK, AnswersInv
  <2>2. entries \in Seq(UpdateEntry) /\ call.next \in Nat
    BY <2>1, CasRequestAssumption DEF UpdateCall, UpdateRequest
  <2>3. /\ call.next > Len(entries)
        /\ call.next <= Len(entries) + 1
        /\ Len(call.responses) = call.next - 1
    BY <2>1 DEF UpdateSoFar
  <2>4. DOMAIN entries = 1..(call.next - 1) /\ Len(call.responses) = Len(entries)
    BY <2>2, <2>3
  <2> QED
    BY <2>1, <2>4 DEF UpdateSoFar
<1> QED
  BY <1>1, <1>2, <1>3

-----------------------------------------------------------------------------
(* What a call knows stays true while the store grows *)

\* Keys that were there stay there, and more are no harm.
LEMMA FindLater ==
    ASSUME NEW keys, NEW larger, keys \subseteq larger,
           NEW call, FindSoFar(keys, call)
    PROVE  FindSoFar(larger, call)
BY DEF FindSoFar

\* An answer to a read is about the past; only the lock may break meanwhile.
LEMMA ReadLater ==
    ASSUME NEW keys, NEW larger, keys \subseteq larger,
           NEW failed, NEW failedLater, failed => failedLater,
           NEW call, ReadSoFar(keys, failed, call)
    PROVE  ReadSoFar(larger, failedLater, call)
<1>1. \A digest, answer : ReadRight(failed, call, digest, answer)
                              => ReadRight(failedLater, call, digest, answer)
  BY DEF ReadRight
<1> QED
  BY <1>1 DEF ReadSoFar

\* What was stored stays stored, with its size, whoever writes it again.
LEMMA UpdateLater ==
    ASSUME StoreInv, StoreInv', StoreGrows,
           NEW call, UpdateSoFar(blobs, poisoned, call)
    PROVE  UpdateSoFar(blobs', poisoned', call)
<1>1. ASSUME NEW k \in DOMAIN blobs, k.kind = "cas"
      PROVE  k \in DOMAIN blobs' /\ blobs'[k].uncompressed_size = blobs[k].uncompressed_size
  BY <1>1, SizesKept DEF StoreGrows
<1>2. poisoned => poisoned'
  BY DEF StoreGrows
<1>3. \A entry, answer : UpdateRight(blobs, poisoned, call, entry, answer)
                             => UpdateRight(blobs', poisoned', call, entry, answer)
  BY <1>1, <1>2 DEF UpdateRight, CasKey
<1> QED
  BY <1>3 DEF UpdateSoFar

\* So the invariant survives the steps of other services.
LEMMA AnswersInvLater ==
    ASSUME StoreInv, StoreInv', StoreGrows, AnswersInv, UNCHANGED casVars
    PROVE  AnswersInv'
<1>1. DOMAIN blobs \subseteq DOMAIN blobs' /\ (poisoned => poisoned')
  BY DEF StoreGrows
<1>2. \A c \in FindCalls : finds[c] # Idle => FindSoFar(DOMAIN blobs', finds[c])
  BY <1>1, FindLater DEF AnswersInv
<1>3. \A c \in ReadCalls : reads[c] # Idle => ReadSoFar(DOMAIN blobs', poisoned', reads[c])
  BY <1>1, ReadLater DEF AnswersInv
<1>4. \A c \in UpdateCalls : updates[c] # Idle => UpdateSoFar(blobs', poisoned', updates[c])
  BY UpdateLater DEF AnswersInv
<1> QED
  BY <1>2, <1>3, <1>4 DEF AnswersInv, casVars

\* One call of FindMissingBlobs moves, and nothing else.
LEMMA OneFindMoves ==
    ASSUME CasTypeOK, AnswersInv, UNCHANGED <<storeVars, reads, updates>>,
           NEW c \in FindCalls, NEW call, finds' = [finds EXCEPT ![c] = call],
           call = Idle \/ FindSoFar(DOMAIN blobs, call)
    PROVE  AnswersInv'
<1>1. \A d \in FindCalls : finds'[d] # Idle => FindSoFar(DOMAIN blobs, finds'[d])
  BY DEF AnswersInv, CasTypeOK
<1> QED
  BY <1>1 DEF AnswersInv, storeVars

\* The same for a call of BatchReadBlobs.
LEMMA OneReadMoves ==
    ASSUME CasTypeOK, AnswersInv, UNCHANGED <<storeVars, finds, updates>>,
           NEW c \in ReadCalls, NEW call, reads' = [reads EXCEPT ![c] = call],
           call = Idle \/ ReadSoFar(DOMAIN blobs, poisoned, call)
    PROVE  AnswersInv'
<1>1. \A d \in ReadCalls : reads'[d] # Idle => ReadSoFar(DOMAIN blobs, poisoned, reads'[d])
  BY DEF AnswersInv, CasTypeOK
<1> QED
  BY <1>1 DEF AnswersInv, storeVars

\* A call of BatchUpdateBlobs may have put something.
LEMMA OneUpdateMoves ==
    ASSUME StoreInv, StoreInv', StoreGrows, CasTypeOK, AnswersInv,
           UNCHANGED <<finds, reads>>,
           NEW c \in UpdateCalls, NEW call, updates' = [updates EXCEPT ![c] = call],
           call = Idle \/ UpdateSoFar(blobs', poisoned', call)
    PROVE  AnswersInv'
<1>1. DOMAIN blobs \subseteq DOMAIN blobs' /\ (poisoned => poisoned')
  BY DEF StoreGrows
<1>2. \A d \in FindCalls : finds[d] # Idle => FindSoFar(DOMAIN blobs', finds[d])
  BY <1>1, FindLater DEF AnswersInv
<1>3. \A d \in ReadCalls : reads[d] # Idle => ReadSoFar(DOMAIN blobs', poisoned', reads[d])
  BY <1>1, ReadLater DEF AnswersInv
<1>4. ASSUME NEW d \in UpdateCalls, updates'[d] # Idle
      PROVE  UpdateSoFar(blobs', poisoned', updates'[d])
  <2>1. CASE d = c
    BY <1>4, <2>1 DEF CasTypeOK
  <2>2. CASE d # c
    <3>1. updates'[d] = updates[d]
      BY <2>2 DEF CasTypeOK
    <3>2. UpdateSoFar(blobs, poisoned, updates[d])
      BY <1>4, <3>1 DEF AnswersInv
    <3> QED
      BY <3>1, <3>2, UpdateLater
  <2> QED
    BY <2>1, <2>2
<1> QED
  BY <1>2, <1>3, <1>4 DEF AnswersInv

-----------------------------------------------------------------------------
(* The steps of the methods *)

\* FindMissingBlobs collects what was missing before the call.
LEMMA FindKeepsAnswers ==
    ASSUME StoreInv, CasTypeOK, AnswersInv, NEW c \in FindCalls,
           \/ \E request \in FindRequests : FindArrives(c, request)
           \/ FindStep(c)
    PROVE  AnswersInv'
<1>1. ASSUME NEW request \in FindRequests, FindArrives(c, request)
      PROVE  AnswersInv'
  <2> DEFINE call == [status |-> Admission(ResolvesFunction(request.function)),
                      request |-> request, next |-> 1, missing |-> << >>,
                      before |-> DOMAIN blobs]
  <2>1. Len(request.digests) \in Nat
    BY CasRequestAssumption DEF FindRequest
  <2>2. call.status \in {"running", "InvalidArgument"}
    BY DEF Admission
  <2>3. FindSoFar(DOMAIN blobs, call)
    BY <2>1, <2>2 DEF FindSoFar, Range
  <2> QED
    BY <1>1, <2>3, OneFindMoves DEF FindArrives
<1>2. ASSUME FindEntry(c)
      PROVE  AnswersInv'
  <2> DEFINE call == finds[c]
             digests == call.request.digests
             digest == digests[call.next]
             next == FindOutcome(call, digest)
             Key(d) == CasKey(call.request.instance, d.hash)
  <2>1. /\ call \in FindCall /\ call.status = "running"
        /\ FindSoFar(DOMAIN blobs, call)
        /\ call.next <= Len(digests)
    BY <1>2 DEF FindEntry, CasTypeOK, AnswersInv, Running
  <2>2. /\ digests \in Seq(Digest) /\ digest \in Digest
        /\ call.next \in Nat \ {0} /\ Len(digests) \in Nat
        /\ call.missing \in Seq(Digest)
    BY <2>1, CasRequestAssumption DEF FindCall, FindRequest
  <2>3. CASE poisoned
    <3>1. next = [call EXCEPT !.status = "Internal", !.missing = << >>]
      BY <2>3 DEF FindOutcome
    <3>2. /\ next.status = "Internal" /\ next.request = call.request
          /\ next.next = call.next /\ next.before = call.before
      BY <2>1, <3>1 DEF FindCall
    <3> HIDE DEF next
    <3>3. FindSoFar(DOMAIN blobs, next)
      BY <2>1, <3>2 DEF FindSoFar
    <3> QED
      BY <1>2, <3>3, OneFindMoves DEF FindEntry, next
  <2>4. CASE ~poisoned
    <3> DEFINE found == Contains(Key(digest))
               missing == IF found THEN call.missing ELSE Append(call.missing, digest)
    <3>1. next = [call EXCEPT !.next = call.next + 1, !.missing = missing]
      BY <2>1, <2>4 DEF FindOutcome, Looked, FindsBlob, FindCall
    <3>2. /\ next.status = "running" /\ next.request = call.request
          /\ next.next = call.next + 1 /\ next.before = call.before
          /\ next.missing = missing
      BY <2>1, <3>1 DEF FindCall
    <3>3. Range(missing) = IF found THEN Range(call.missing)
                           ELSE Range(call.missing) \cup {digest}
      <4>1. Range(Append(call.missing, digest)) = Range(call.missing) \cup {digest}
        BY <2>2, RangeOfAppend
      <4> QED
        BY <4>1
    <3> HIDE DEF next, missing
    <3>4. \A d \in Range(missing) : Key(d) \notin call.before
      BY <2>1, <3>3 DEF FindSoFar, Contains
    <3>5. ASSUME NEW i \in 1..call.next
          PROVE  digests[i] \in Range(missing) \/ Key(digests[i]) \in DOMAIN blobs
      <4>1. CASE i = call.next
        BY <3>3, <4>1 DEF Contains
      <4>2. CASE i # call.next
        <5>1. i \in 1..(call.next - 1)
          BY <2>2, <4>2
        <5> QED
          BY <2>1, <3>3, <5>1 DEF FindSoFar
      <4> QED
        BY <4>1, <4>2
    <3>6. FindSoFar(DOMAIN blobs, next)
      BY <2>1, <2>2, <3>2, <3>4, <3>5 DEF FindSoFar
    <3> QED
      BY <1>2, <3>6, OneFindMoves DEF FindEntry, next
  <2> QED
    BY <2>3, <2>4
<1>3. ASSUME FindReplies(c)
      PROVE  AnswersInv'
  <2> DEFINE call == finds[c]
             next == [call EXCEPT !.status = "Ok"]
  <2>1. /\ call \in FindCall /\ call.status = "running"
        /\ FindSoFar(DOMAIN blobs, call)
        /\ call.next > Len(call.request.digests)
    BY <1>3 DEF FindReplies, CasTypeOK, AnswersInv, Running
  <2>2. /\ next.status = "Ok" /\ next.request = call.request
        /\ next.next = call.next /\ next.before = call.before
        /\ next.missing = call.missing
    BY <2>1 DEF FindCall
  <2>3. finds' = [finds EXCEPT ![c] = next]
    BY <1>3 DEF FindReplies
  <2> HIDE DEF next
  <2>4. FindSoFar(DOMAIN blobs, next)
    BY <2>1, <2>2 DEF FindSoFar
  <2> QED
    BY <1>3, <2>3, <2>4, OneFindMoves DEF FindReplies
<1> QED
  BY <1>1, <1>2, <1>3 DEF FindStep

\* What is answered to one digest is right: a stored blob converts to any
\* encoding, and is the blob of its hash.
LEMMA AnswerReadRight ==
    ASSUME StoreInv, NEW call, call.before \subseteq DOMAIN blobs, NEW digest
    PROVE  ReadRight(poisoned, call, digest, AnswerRead(call.request, digest))
<1> DEFINE key == CasKey(call.request.instance, digest.hash)
           acceptable == {e \in call.request.acceptable : SupportedCompressor(e)}
           target == ResponseEncoding(Get(key).encoding, acceptable)
           data == Transcode(Get(key), target).data
           b == IdentityData(Get(key))
<1>1. CASE poisoned
  BY <1>1 DEF AnswerRead, ReadFailure, ReadRight
<1>2. CASE ~poisoned /\ ~Contains(key)
  BY <1>2 DEF AnswerRead, ReadFailure, ReadRight, Contains
<1>3. CASE ~poisoned /\ Contains(key)
  <2>1. Decodes(Get(key)) /\ Hash(b) = digest.hash /\ b \in Bytes
    BY <1>3 DEF StoreInv, Contains, Get, CasKey, Decodes
  <2>2. target \in Encoding /\ target \in call.request.acceptable \cup {"identity"}
    BY <2>1 DEF ResponseEncoding, Decodes, Blob, Encoding
  <2>3. /\ CanTranscode(Get(key), target)
        /\ data = IF target = "identity" THEN b ELSE Compress(b)
    BY <2>1, <2>2, StoredBlobsConvert
  <2>4. AnswerRead(call.request, digest)
            = [digest |-> digest, data |-> data, compressor |-> target, code |-> "Ok"]
    BY <1>3, <2>3 DEF AnswerRead
  <2> HIDE DEF data, target, b
  <2> QED
    BY <2>1, <2>2, <2>3, <2>4 DEF ReadRight
<1> QED
  BY <1>1, <1>2, <1>3

\* BatchReadBlobs answers each digest when it comes to it.
LEMMA ReadKeepsAnswers ==
    ASSUME StoreInv, CasTypeOK, AnswersInv, NEW c \in ReadCalls,
           \/ \E request \in ReadRequests : ReadArrives(c, request)
           \/ ReadStep(c)
    PROVE  AnswersInv'
<1>1. ASSUME NEW request \in ReadRequests, ReadArrives(c, request)
      PROVE  AnswersInv'
  <2> DEFINE call == [status |-> Admission(ResolvesFunction(request.function)),
                      request |-> request, next |-> 1, responses |-> << >>,
                      before |-> DOMAIN blobs]
  <2>1. Len(request.digests) \in Nat
    BY CasRequestAssumption DEF ReadRequest
  <2>2. call.status \in {"running", "InvalidArgument"}
    BY DEF Admission
  <2>3. ReadSoFar(DOMAIN blobs, poisoned, call)
    BY <2>1, <2>2 DEF ReadSoFar
  <2> QED
    BY <1>1, <2>3, OneReadMoves DEF ReadArrives
<1>2. ASSUME ReadEntry(c)
      PROVE  AnswersInv'
  <2> DEFINE call == reads[c]
             digests == call.request.digests
             digest == digests[call.next]
             answer == AnswerRead(call.request, digest)
             responses == Append(call.responses, answer)
             next == [call EXCEPT !.next = call.next + 1, !.responses = responses]
  <2>1. /\ call \in ReadCall /\ call.status = "running"
        /\ ReadSoFar(DOMAIN blobs, poisoned, call)
        /\ call.next <= Len(digests)
    BY <1>2 DEF ReadEntry, CasTypeOK, AnswersInv, Running
  <2>2. /\ call.request \in ReadRequest /\ digest \in Digest
        /\ call.next \in Nat \ {0} /\ Len(digests) \in Nat
        /\ call.responses \in Seq(ReadAnswer)
    BY <2>1, CasRequestAssumption DEF ReadCall, ReadRequest
  <2>3. /\ next.status = "running" /\ next.request = call.request
        /\ next.next = call.next + 1 /\ next.before = call.before
        /\ next.responses = responses
    BY <2>1 DEF ReadCall
  <2>4. /\ Len(call.responses) = call.next - 1
        /\ call.before \subseteq DOMAIN blobs
        /\ \A i \in 1..(call.next - 1) :
              ReadRight(poisoned, call, digests[i], call.responses[i])
    BY <2>1 DEF ReadSoFar
  <2>5. answer \in ReadAnswer
    BY <2>2, AnswerReadType
  <2>6. ReadRight(poisoned, call, digest, answer)
    BY <2>4, AnswerReadRight
  <2> HIDE DEF answer
  <2>7. /\ Len(responses) = call.next
        /\ \A i \in 1..(call.next - 1) : responses[i] = call.responses[i]
        /\ responses[call.next] = answer
    BY <2>2, <2>4, <2>5, AppendProperties
  <2>8. reads' = [reads EXCEPT ![c] = next]
    BY <1>2 DEF ReadEntry, answer
  <2> HIDE DEF next, responses
  <2>9. ASSUME NEW i \in 1..call.next
        PROVE  ReadRight(poisoned, next, digests[i], responses[i])
    <3>1. \A d, a : ReadRight(poisoned, call, d, a) => ReadRight(poisoned, next, d, a)
      BY <2>3 DEF ReadRight
    <3>2. CASE i = call.next
      BY <2>6, <2>7, <3>1, <3>2
    <3>3. CASE i # call.next
      <4>1. i \in 1..(call.next - 1)
        BY <2>2, <3>3
      <4> QED
        BY <2>4, <2>7, <3>1, <4>1
    <3> QED
      BY <3>2, <3>3
  <2>10. ReadSoFar(DOMAIN blobs, poisoned, next)
    BY <2>1, <2>2, <2>3, <2>4, <2>7, <2>9 DEF ReadSoFar
  <2> QED
    BY <1>2, <2>8, <2>10, OneReadMoves DEF ReadEntry
<1>3. ASSUME ReadReplies(c)
      PROVE  AnswersInv'
  <2> DEFINE call == reads[c]
             next == [call EXCEPT !.status = "Ok"]
  <2>1. /\ call \in ReadCall /\ call.status = "running"
        /\ ReadSoFar(DOMAIN blobs, poisoned, call)
        /\ call.next > Len(call.request.digests)
    BY <1>3 DEF ReadReplies, CasTypeOK, AnswersInv, Running
  <2>2. /\ next.status = "Ok" /\ next.request = call.request
        /\ next.next = call.next /\ next.before = call.before
        /\ next.responses = call.responses
    BY <2>1 DEF ReadCall
  <2>3. reads' = [reads EXCEPT ![c] = next]
    BY <1>3 DEF ReadReplies
  <2> HIDE DEF next
  <2>4. ReadSoFar(DOMAIN blobs, poisoned, next)
    BY <2>1, <2>2 DEF ReadSoFar, ReadRight
  <2> QED
    BY <1>3, <2>3, <2>4, OneReadMoves DEF ReadReplies
<1> QED
  BY <1>1, <1>2, <1>3 DEF ReadStep

\* An entry that is answered right extends what is right.
LEMMA AnsweredRight ==
    ASSUME CasTypeOK, NEW call \in UpdateCall, HasEntry(call), NEW code \in Code,
           NEW store, NEW failed, UpdateSoFar(store, failed, call),
           UpdateRight(store, failed, call, Current(call),
                       [digest |-> Current(call).digest, code |-> code])
    PROVE  UpdateSoFar(store, failed, Answered(call, code))
<1> DEFINE entries == call.request.entries
           answer == [digest |-> Current(call).digest, code |-> code]
           responses == Append(call.responses, answer)
           next == Answered(call, code)
<1>1. /\ call.request \in UpdateRequest /\ Current(call) \in UpdateEntry
      /\ call.next \in Nat \ {0} /\ Len(entries) \in Nat
      /\ call.responses \in Seq(UpdateAnswer)
      /\ call.next <= Len(entries)
  BY CasRequestAssumption, AnsweredType DEF UpdateCall, UpdateRequest, HasEntry
<1>2. answer \in UpdateAnswer
  BY <1>1 DEF UpdateAnswer, UpdateEntry
<1>3. /\ next.status = "running" /\ next.request = call.request
      /\ next.next = call.next + 1 /\ next.responses = responses
  BY DEF Answered, UpdateCall, HasEntry, Running
<1>4. /\ Len(call.responses) = call.next - 1
      /\ \A i \in 1..(call.next - 1) :
            UpdateRight(store, failed, call, entries[i], call.responses[i])
  BY DEF UpdateSoFar
<1>5. UpdateRight(store, failed, call, entries[call.next], answer)
  BY DEF Current
<1> HIDE DEF answer, next
<1>6. /\ Len(responses) = call.next
      /\ \A i \in 1..(call.next - 1) : responses[i] = call.responses[i]
      /\ responses[call.next] = answer
  BY <1>1, <1>2, <1>4, AppendProperties
<1> HIDE DEF responses
<1>7. ASSUME NEW i \in 1..call.next
      PROVE  UpdateRight(store, failed, next, entries[i], responses[i])
  <2>1. \A e, a : UpdateRight(store, failed, call, e, a)
                      => UpdateRight(store, failed, next, e, a)
    BY <1>3 DEF UpdateRight
  <2>2. CASE i = call.next
    BY <1>5, <1>6, <2>1, <2>2
  <2>3. CASE i # call.next
    <3>1. i \in 1..(call.next - 1)
      BY <1>1, <2>3
    <3> QED
      BY <1>4, <1>6, <2>1, <3>1
  <2> QED
    BY <2>2, <2>3
<1>8. UpdateSoFar(store, failed, next)
  BY <1>1, <1>3, <1>6, <1>7 DEF UpdateSoFar
<1> QED
  BY <1>8 DEF next

\* An entry that is stored is there, with the size its digest declares.
LEMMA UpdateStoresKeepsAnswers ==
    ASSUME StoreInv, CasTypeOK, AnswersInv, NEW c \in UpdateCalls, UpdateStores(c)
    PROVE  AnswersInv'
<1> DEFINE call == updates[c]
           entry == Current(call)
           data == EntryIdentity(entry)
           key == CasKey(call.request.instance, entry.digest.hash)
           answer == [digest |-> entry.digest, code |-> "Ok"]
<1>1. /\ call \in UpdateCall /\ HasEntry(call)
      /\ UpdateSoFar(blobs, poisoned, call)
  BY DEF UpdateStores, HasEntry, CasTypeOK, Running, AnswersInv
<1>2. StoreInv' /\ StoreGrows
  BY UpdatePutsGoodEntry, StoreStepGrows
<1>3. UpdateSoFar(blobs', poisoned', call)
  BY <1>1, <1>2, UpdateLater
<1>4. /\ Acceptable(entry) /\ CanStore(data)
      /\ key \in DOMAIN blobs' /\ blobs'[key] = StoredForm(data)
  BY DEF UpdateStores, Put
<1>5. entry.digest \in Digest /\ entry.compressor \in Encoding /\ entry.data \in Bytes
  BY <1>1, <1>4, AnsweredType
     DEF Acceptable, UpdateEntry, OptionalDigest, SupportedCompressor, Code
<1>6. data \in Bytes /\ Len(data) = entry.digest.size
  <2>1. VerifiedUpload(entry.digest.hash, entry.digest.size, entry.data, entry.compressor)
    BY <1>4 DEF Acceptable
  <2> QED
    BY <1>5, <2>1, VerifiedUploadIdentity DEF EntryIdentity
<1>7. StoredForm(data).uncompressed_size = entry.digest.size
  <2>1. Decodes(StoredForm(data)) /\ IdentityData(StoredForm(data)) = data
    BY <1>4, <1>6, StoredFormDecodes
  <2> QED
    BY <1>6, <2>1 DEF Decodes
<1>8. UpdateRight(blobs', poisoned', call, entry, answer)
  BY <1>4, <1>7 DEF UpdateRight
<1>9. UpdateSoFar(blobs', poisoned', Answered(call, "Ok"))
  BY <1>1, <1>3, <1>8, AnsweredRight DEF Code
<1> QED
  BY <1>2, <1>9, OneUpdateMoves DEF UpdateStores

\* An entry that is not stored is invalid, or the store is unavailable.
LEMMA UpdateKeepsAnswers ==
    ASSUME StoreInv, CasTypeOK, AnswersInv, NEW c \in UpdateCalls,
           \/ \E request \in UpdateRequests : UpdateArrives(c, request)
           \/ UpdateRejects(c) \/ UpdateReplies(c) \/ UpdatePanics(c)
    PROVE  AnswersInv'
<1>1. StoreInv' /\ StoreGrows
  BY UpdateTypes, OtherStepsKeepStore
<1>2. ASSUME NEW request \in UpdateRequests, UpdateArrives(c, request)
      PROVE  AnswersInv'
  <2> DEFINE call == [status |-> Admission(ResolvesFunction(request.function)),
                      request |-> request, next |-> 1, responses |-> << >>]
  <2>1. Len(request.entries) \in Nat
    BY CasRequestAssumption DEF UpdateRequest
  <2>2. call.status \in {"running", "InvalidArgument"}
    BY DEF Admission
  <2>3. UpdateSoFar(blobs', poisoned', call)
    BY <2>1, <2>2 DEF UpdateSoFar
  <2> QED
    BY <1>1, <1>2, <2>3, OneUpdateMoves DEF UpdateArrives
<1>3. ASSUME UpdateRejects(c)
      PROVE  AnswersInv'
  <2> DEFINE call == updates[c]
             entry == Current(call)
             answer(code) == [digest |-> entry.digest, code |-> code]
  <2>1. /\ call \in UpdateCall /\ HasEntry(call)
        /\ UpdateSoFar(blobs', poisoned', call)
    BY <1>1, <1>3, UpdateLater DEF UpdateRejects, HasEntry, CasTypeOK, Running, AnswersInv
  <2>2. CASE /\ ~Acceptable(entry)
             /\ updates' = [updates EXCEPT ![c] = Answered(call, "InvalidArgument")]
    <3>1. UpdateRight(blobs', poisoned', call, entry, answer("InvalidArgument"))
      BY <2>2 DEF UpdateRight
    <3>2. UpdateSoFar(blobs', poisoned', Answered(call, "InvalidArgument"))
      BY <2>1, <3>1, AnsweredRight DEF Code
    <3> QED
      BY <1>1, <1>3, <2>2, <3>2, OneUpdateMoves DEF UpdateRejects
  <2>3. CASE /\ Acceptable(entry)
             /\ ~CanStore(EntryIdentity(entry)) \/ poisoned
             /\ updates' = [updates EXCEPT ![c] = Answered(call, "Internal")]
    <3>1. entry.digest \in Digest /\ entry.compressor \in Encoding /\ entry.data \in Bytes
      BY <2>1, <2>3, AnsweredType
         DEF Acceptable, UpdateEntry, OptionalDigest, SupportedCompressor, Code
    <3>2. CanStore(EntryIdentity(entry))
      BY <2>3, <3>1, VerifiedUploadFits DEF Acceptable, EntryIdentity
    <3>3. poisoned'
      BY <1>1, <2>3, <3>2 DEF StoreGrows
    <3>4. UpdateRight(blobs', poisoned', call, entry, answer("Internal"))
      BY <3>3 DEF UpdateRight
    <3>5. UpdateSoFar(blobs', poisoned', Answered(call, "Internal"))
      BY <2>1, <3>4, AnsweredRight DEF Code
    <3> QED
      BY <1>1, <1>3, <2>3, <3>5, OneUpdateMoves DEF UpdateRejects
  <2> QED
    BY <1>3, <2>2, <2>3 DEF UpdateRejects
<1>4. ASSUME UpdateReplies(c)
      PROVE  AnswersInv'
  <2> DEFINE call == updates[c]
             next == [call EXCEPT !.status = "Ok"]
  <2>1. /\ call \in UpdateCall /\ call.status = "running"
        /\ UpdateSoFar(blobs', poisoned', call)
        /\ call.next > Len(call.request.entries)
    BY <1>1, <1>4, UpdateLater DEF UpdateReplies, CasTypeOK, AnswersInv, Running
  <2>2. /\ next.status = "Ok" /\ next.request = call.request
        /\ next.next = call.next /\ next.responses = call.responses
    BY <2>1 DEF UpdateCall
  <2>3. updates' = [updates EXCEPT ![c] = next]
    BY <1>4 DEF UpdateReplies
  <2> HIDE DEF next
  <2>4. UpdateSoFar(blobs', poisoned', next)
    BY <2>1, <2>2 DEF UpdateSoFar, UpdateRight
  <2> QED
    BY <1>1, <1>4, <2>3, <2>4, OneUpdateMoves DEF UpdateReplies
<1>5. ASSUME UpdatePanics(c)
      PROVE  AnswersInv'
  BY <1>1, <1>5, OneUpdateMoves DEF UpdatePanics
<1> QED
  BY <1>2, <1>3, <1>4, <1>5

\* The invariant is inductive over the steps of the service.
LEMMA CasStepKeepsAnswers ==
    ASSUME StoreInv, CasTypeOK, AnswersInv, CasNext
    PROVE  AnswersInv'
<1>1. CASE \E c \in FindCalls :
              \/ \E request \in FindRequests : FindArrives(c, request)
              \/ FindStep(c)
  BY <1>1, FindKeepsAnswers
<1>2. CASE \E c \in ReadCalls :
              \/ \E request \in ReadRequests : ReadArrives(c, request)
              \/ ReadStep(c)
  BY <1>2, ReadKeepsAnswers
<1>3. CASE \E c \in UpdateCalls : UpdateStores(c)
  BY <1>3, UpdateStoresKeepsAnswers
<1>4. CASE \E c \in UpdateCalls :
              \/ \E request \in UpdateRequests : UpdateArrives(c, request)
              \/ UpdateRejects(c) \/ UpdateReplies(c) \/ UpdatePanics(c)
  BY <1>4, UpdateKeepsAnswers
<1>5. CASE CasReturns
  <2>1. StoreInv' /\ StoreGrows
    BY <1>5, OtherStepsKeepStore DEF CasReturns
  <2> QED
    BY <1>5, <2>1, OneFindMoves, OneReadMoves, OneUpdateMoves DEF CasReturns
<1> QED
  BY <1>1, <1>2, <1>3, <1>4, <1>5 DEF CasNext, UpdateStep

-----------------------------------------------------------------------------
(* The service alone, as CasSpec has it *)

CasInv == StoreInv /\ CasTypeOK /\ AnswersInv

\* It keeps its invariant.
LEMMA CasInvariance == CasSpec => []CasInv
<1>1. CasStateInit => CasInv
  BY CasInitTypes, AnswersInit DEF CasStateInit, CasInv, StoreInit, StoreInv
<1>2. CasInv /\ [CasNext]_casStateVars => CasInv'
  <2> SUFFICES ASSUME CasInv, [CasNext]_casStateVars PROVE CasInv'
    OBVIOUS
  <2>1. CASE CasNext
    BY <2>1, CasStep, StoreStepGrows, CasStepKeepsAnswers DEF CasInv
  <2>2. CASE UNCHANGED casStateVars
    <3>1. StoreInv' /\ StoreGrows /\ UNCHANGED casVars
      BY <2>2, OtherStepsKeepStore DEF CasInv, casStateVars
    <3> QED
      BY <3>1, AnswersInvLater DEF CasInv, CasTypeOK, casVars
  <2> QED
    BY <2>1, <2>2
<1> QED
  BY <1>1, <1>2, PTL DEF CasSpec

\* Its tables keep their types; among them, every answer of BatchReadBlobs is a
\* byte string in an encoding the protocol names.
THEOREM CasTypes == CasSpec => []CasTypeOK
<1>1. CasInv => CasTypeOK
  BY DEF CasInv
<1> QED
  BY <1>1, CasInvariance, PTL

\* Alone, the service answers all three methods right, whatever its own calls do
\* to each other.
THEOREM CasAnswersSound ==
    CasSpec => [](FindMissingSound /\ BatchReadSound /\ BatchUpdateSound)
<1>1. CasInv => FindMissingSound /\ BatchReadSound /\ BatchUpdateSound
  BY AnswersInvImplies DEF CasInv
<1> QED
  BY <1>1, CasInvariance, PTL

\* No step of the service, an upload that overwrites included, removes a blob or
\* changes its bytes.
THEOREM CasContentPermanence == CasSpec => CasContentKept
<1>1. CasInv /\ [CasNext]_casStateVars => [KeepsContent]_casStateVars
  BY CasStep, StoreStepGrows DEF CasInv, StoreGrows
<1> QED
  BY <1>1, CasInvariance, PTL DEF CasSpec, CasContentKept

=============================================================================
