----------------------------- MODULE CasService -----------------------------
(***************************************************************************)
(* The ContentAddressableStorage service, rust-reapi/src/services/cas.rs:  *)
(* FindMissingBlobs, BatchReadBlobs and BatchUpdateBlobs.  GetTree,        *)
(* SplitBlob and SpliceBlob answer Unimplemented and touch nothing.        *)
(*                                                                         *)
(* Each method loops over the entries of its request and accesses the      *)
(* store once per entry: an entry is one step here, and steps of other     *)
(* calls come in between.                                                  *)
(***************************************************************************)
EXTENDS Calls

CONSTANTS
    FindCalls, ReadCalls, UpdateCalls,          \* call slots
    FindRequests, ReadRequests, UpdateRequests  \* the requests clients send

VARIABLES finds, reads, updates

casVars == <<finds, reads, updates>>

FindRequest == [instance : Instances, function : DigestFunction,
                digests : Seq(Digest)]
ReadRequest == [instance : Instances, function : DigestFunction,
                acceptable : SUBSET Compressor, digests : Seq(Digest)]
UpdateEntry == [digest : OptionalDigest, data : Bytes, compressor : Compressor]
UpdateRequest == [instance : Instances, function : DigestFunction,
                  entries : Seq(UpdateEntry)]

ASSUME CasRequestAssumption ==
    /\ FindRequests \subseteq FindRequest
    /\ ReadRequests \subseteq ReadRequest
    /\ UpdateRequests \subseteq UpdateRequest

\* The per-blob answers of the two batch methods.
ReadAnswer == [digest : Digest, data : Seq(Byte), compressor : Encoding,
               code : Code]
UpdateAnswer == [digest : OptionalDigest, code : Code]

(***************************************************************************)
(* A call: its request, the index of the next entry and what the handler   *)
(* has collected.  before is a history variable, the keys present when the *)
(* call arrived; no step depends on it.                                    *)
(***************************************************************************)
FindCall == [status : Status, request : FindRequests, next : Nat \ {0},
             missing : Seq(Digest), before : SUBSET BlobKey]
ReadCall == [status : Status, request : ReadRequests, next : Nat \ {0},
             responses : Seq(ReadAnswer), before : SUBSET BlobKey]
UpdateCall == [status : Status, request : UpdateRequests, next : Nat \ {0},
               responses : Seq(UpdateAnswer)]

CasInit ==
    /\ finds = [c \in FindCalls |-> Idle]
    /\ reads = [c \in ReadCalls |-> Idle]
    /\ updates = [c \in UpdateCalls |-> Idle]

-----------------------------------------------------------------------------
(* find_missing_blobs *)

FindArrives(c, request) ==
    /\ finds[c] = Idle
    /\ finds' = [finds EXCEPT ![c] =
          [status |-> Admission(ResolvesFunction(request.function)),
           request |-> request, next |-> 1, missing |-> << >>,
           before |-> DOMAIN blobs]]
    /\ UNCHANGED <<storeVars, reads, updates>>

\* Only the hash of a digest enters the key; its size is not looked at.
FindsBlob(call, digest) == Contains(CasKey(call.request.instance, digest.hash))

Looked(call, digest, found) ==
    [call EXCEPT !.next = @ + 1,
                 !.missing = IF found THEN @ ELSE Append(@, digest)]

\* Mutant of FindOutcome: a store that fails has no blobs.
FindOutcomeHidingFailure(call, digest) ==
    Looked(call, digest, ~poisoned /\ FindsBlob(call, digest))

\* Mutant of FindOutcome: the empty blob is taken to be there.
FindOutcomeTrustingEmpty(call, digest) ==
    Looked(call, digest, IsEmptyDigest(digest) \/ FindsBlob(call, digest))

\* One failing lookup fails the call.
FindOutcome(call, digest) ==
    IF poisoned THEN [call EXCEPT !.status = "Internal", !.missing = << >>]
    ELSE Looked(call, digest, FindsBlob(call, digest))

FindEntry(c) ==
    LET call == finds[c]
        digest == call.request.digests[call.next]
    IN  /\ Running(call)
        /\ call.next <= Len(call.request.digests)
        /\ finds' = [finds EXCEPT ![c] = FindOutcome(call, digest)]
        /\ UNCHANGED <<storeVars, reads, updates>>

FindReplies(c) ==
    /\ Running(finds[c])
    /\ finds[c].next > Len(finds[c].request.digests)
    /\ finds' = [finds EXCEPT ![c].status = "Ok"]
    /\ UNCHANGED <<storeVars, reads, updates>>

-----------------------------------------------------------------------------
(* batch_read_blobs *)

ReadArrives(c, request) ==
    /\ reads[c] = Idle
    /\ reads' = [reads EXCEPT ![c] =
          [status |-> Admission(ResolvesFunction(request.function)),
           request |-> request, next |-> 1, responses |-> << >>,
           before |-> DOMAIN blobs]]
    /\ UNCHANGED <<storeVars, finds, updates>>

\* Mutant of ReadFailure: a failed entry is answered without a body.
ReadFailureWithoutBody(digest, code) == [digest |-> digest, code |-> code]

ReadFailure(digest, code) ==
    [digest |-> digest, data |-> << >>, compressor |-> "identity", code |-> code]

\* Mutant of AnswerRead: the answer carries the label of the stored entry.
AnswerReadAsLabelled(request, digest) ==
    LET key == CasKey(request.instance, digest.hash)
        acceptable == {e \in request.acceptable : SupportedCompressor(e)}
        target == ResponseEncoding(Get(key).encoding, acceptable)
    IN  IF poisoned THEN ReadFailure(digest, "Internal")
        ELSE IF ~Contains(key) THEN ReadFailure(digest, "NotFound")
        ELSE [digest |-> digest, data |-> Transcode(Get(key), target).data,
              compressor |-> Get(key).encoding, code |-> "Ok"]

\* A failing entry is answered with its own code; the batch goes on.
AnswerRead(request, digest) ==
    LET key == CasKey(request.instance, digest.hash)
        acceptable == {e \in request.acceptable : SupportedCompressor(e)}
        target == ResponseEncoding(Get(key).encoding, acceptable)
    IN  IF poisoned THEN ReadFailure(digest, "Internal")
        ELSE IF ~Contains(key) THEN ReadFailure(digest, "NotFound")
        ELSE IF ~CanTranscode(Get(key), target) THEN ReadFailure(digest, "Internal")
        ELSE [digest |-> digest, data |-> Transcode(Get(key), target).data,
              compressor |-> target, code |-> "Ok"]

ReadEntry(c) ==
    LET call == reads[c]
        digest == call.request.digests[call.next]
    IN  /\ Running(call)
        /\ call.next <= Len(call.request.digests)
        /\ reads' = [reads EXCEPT ![c] =
              [call EXCEPT !.next = call.next + 1,
                           !.responses = Append(@, AnswerRead(call.request, digest))]]
        /\ UNCHANGED <<storeVars, finds, updates>>

ReadReplies(c) ==
    /\ Running(reads[c])
    /\ reads[c].next > Len(reads[c].request.digests)
    /\ reads' = [reads EXCEPT ![c].status = "Ok"]
    /\ UNCHANGED <<storeVars, finds, updates>>

-----------------------------------------------------------------------------
(* batch_update_blobs *)

UpdateArrives(c, request) ==
    /\ updates[c] = Idle
    /\ updates' = [updates EXCEPT ![c] =
          [status |-> Admission(ResolvesFunction(request.function)),
           request |-> request, next |-> 1, responses |-> << >>]]
    /\ UNCHANGED <<storeVars, finds, reads>>

\* The entry that is up next, of a call that has one.
Current(call) == call.request.entries[call.next]
HasEntry(call) == Running(call) /\ call.next <= Len(call.request.entries)

\* The checks of the handler and of put_verified_blob, up to the put.
Acceptable(entry) ==
    /\ entry.digest # NoDigest
    /\ SupportedCompressor(entry.compressor)
    /\ VerifiedUpload(entry.digest.hash, entry.digest.size, entry.data,
                      entry.compressor)

EntryIdentity(entry) ==
    IdentityData(EncodedBlob(entry.data, entry.compressor, entry.digest.size))

\* Mutant of Answered: an entry without a digest gets no answer.
AnsweredIfNamed(call, code) ==
    [call EXCEPT !.next = @ + 1,
                 !.responses = IF Current(call).digest = NoDigest THEN @
                               ELSE Append(@, [digest |-> Current(call).digest,
                                               code |-> code])]

\* Mutant of Answered: a refused entry is tried again.
AnsweredWhenStored(call, code) ==
    IF code # "Ok" THEN call
    ELSE [call EXCEPT !.next = @ + 1,
                      !.responses = Append(@, [digest |-> Current(call).digest,
                                               code |-> code])]

Answered(call, code) ==
    [call EXCEPT !.next = call.next + 1,
                 !.responses = Append(@, [digest |-> Current(call).digest,
                                          code |-> code])]

UpdateStores(c) ==
    LET call == updates[c]
        entry == Current(call)
    IN  /\ HasEntry(call)
        /\ Acceptable(entry)
        /\ CanStore(EntryIdentity(entry))
        /\ Put(CasKey(call.request.instance, entry.digest.hash),
               StoredForm(EntryIdentity(entry)))
        /\ updates' = [updates EXCEPT ![c] = Answered(call, "Ok")]
        /\ UNCHANGED <<finds, reads>>

\* A rejected entry does not keep the later ones from being stored.
UpdateRejects(c) ==
    LET call == updates[c]
        entry == Current(call)
    IN  /\ HasEntry(call)
        /\ \/ /\ ~Acceptable(entry)
              /\ updates' = [updates EXCEPT ![c] = Answered(call, "InvalidArgument")]
           \/ /\ Acceptable(entry)
              /\ ~CanStore(EntryIdentity(entry)) \/ poisoned
              /\ updates' = [updates EXCEPT ![c] = Answered(call, "Internal")]
        /\ UNCHANGED <<storeVars, finds, reads>>

UpdateReplies(c) ==
    /\ Running(updates[c])
    /\ updates[c].next > Len(updates[c].request.entries)
    /\ updates' = [updates EXCEPT ![c].status = "Ok"]
    /\ UNCHANGED <<storeVars, finds, reads>>

\* A panic in the put takes the call down; its earlier entries stay stored.
UpdatePanics(c) ==
    LET call == updates[c]
        entry == Current(call)
    IN  /\ HasEntry(call)
        /\ Acceptable(entry)
        /\ CanStore(EntryIdentity(entry))
        /\ PutPanics
        /\ updates' = [updates EXCEPT ![c] = Idle]
        /\ UNCHANGED <<finds, reads>>

-----------------------------------------------------------------------------

\* The client takes the response and the slot is free again.
CasReturns ==
    \/ \E c \in FindCalls : /\ Replied(finds[c])
                            /\ finds' = [finds EXCEPT ![c] = Idle]
                            /\ UNCHANGED <<storeVars, reads, updates>>
    \/ \E c \in ReadCalls : /\ Replied(reads[c])
                            /\ reads' = [reads EXCEPT ![c] = Idle]
                            /\ UNCHANGED <<storeVars, finds, updates>>
    \/ \E c \in UpdateCalls : /\ Replied(updates[c])
                              /\ updates' = [updates EXCEPT ![c] = Idle]
                              /\ UNCHANGED <<storeVars, finds, reads>>

FindStep(c) == FindEntry(c) \/ FindReplies(c)
ReadStep(c) == ReadEntry(c) \/ ReadReplies(c)
UpdateStep(c) == UpdateStores(c) \/ UpdateRejects(c) \/ UpdateReplies(c)

CasNext ==
    \/ \E c \in FindCalls, request \in FindRequests : FindArrives(c, request)
    \/ \E c \in ReadCalls, request \in ReadRequests : ReadArrives(c, request)
    \/ \E c \in UpdateCalls, request \in UpdateRequests : UpdateArrives(c, request)
    \/ \E c \in FindCalls : FindStep(c)
    \/ \E c \in ReadCalls : ReadStep(c)
    \/ \E c \in UpdateCalls : UpdateStep(c) \/ UpdatePanics(c)
    \/ CasReturns

casStateVars == <<storeVars, casVars>>

\* The runtime keeps polling a handler that can go on; clients owe nothing.
CasFairness ==
    /\ \A c \in FindCalls : WF_casStateVars(FindStep(c))
    /\ \A c \in ReadCalls : WF_casStateVars(ReadStep(c))
    /\ \A c \in UpdateCalls : WF_casStateVars(UpdateStep(c))

CasStateInit == StoreInit /\ CasInit

CasSpec == CasStateInit /\ [][CasNext]_casStateVars /\ CasFairness

-----------------------------------------------------------------------------
(* Properties *)

\* The call tables hold calls of the shapes above.
CasTypeOK ==
    /\ finds \in [FindCalls -> FindCall \cup {Idle}]
    /\ reads \in [ReadCalls -> ReadCall \cup {Idle}]
    /\ updates \in [UpdateCalls -> UpdateCall \cup {Idle}]

(***************************************************************************)
(* FindMissingBlobs answers for an instant within the call, per digest: a  *)
(* listed digest was absent when the call arrived, so nothing stored (and  *)
(* acknowledged) before the call is ever reported missing; a digest that   *)
(* is not listed is in the store, and still is when the client reads the   *)
(* response, however long ago it was looked up.                            *)
(***************************************************************************)
FindMissingSound ==
    \A c \in FindCalls : RepliedOk(finds[c]) =>
        LET call == finds[c]
            Key(digest) == CasKey(call.request.instance, digest.hash)
        IN  \A digest \in Range(call.request.digests) :
                IF digest \in Range(call.missing)
                THEN Key(digest) \notin call.before
                ELSE Contains(Key(digest))

(***************************************************************************)
(* BatchReadBlobs answers every digest in its place.  Data come in an      *)
(* encoding the client accepts and decode to the bytes the hash names,     *)
(* whichever encoding the entry had when it was read; NotFound is never    *)
(* said of a blob that was there when the call arrived; and no stored blob *)
(* fails to convert, so Internal means the store itself is unavailable.    *)
(***************************************************************************)
BatchReadSound ==
    \A c \in ReadCalls : RepliedOk(reads[c]) =>
        LET call == reads[c]
            digests == call.request.digests
        IN  /\ Len(call.responses) = Len(digests)
            /\ \A i \in DOMAIN digests :
                LET answer == call.responses[i] IN
                /\ answer.digest = digests[i]
                /\ answer.code = "Ok" =>
                    /\ answer.compressor \in call.request.acceptable \cup {"identity"}
                    /\ \E b \in Bytes :
                        /\ Hash(b) = digests[i].hash
                        /\ answer.data = IF answer.compressor = "identity"
                                         THEN b ELSE Compress(b)
                /\ answer.code = "NotFound" =>
                    CasKey(call.request.instance, digests[i].hash) \notin call.before
                /\ answer.code = "Internal" => poisoned

(***************************************************************************)
(* BatchUpdateBlobs answers every entry in its place.  An entry answered   *)
(* with Ok is stored, with the size its digest declares, whatever happened *)
(* to the entries around it and whoever wrote the same key meanwhile; a    *)
(* valid entry is refused only when the store is unavailable.              *)
(***************************************************************************)
BatchUpdateSound ==
    \A c \in UpdateCalls : RepliedOk(updates[c]) =>
        LET call == updates[c]
            entries == call.request.entries
            Key(i) == CasKey(call.request.instance, entries[i].digest.hash)
        IN  /\ Len(call.responses) = Len(entries)
            /\ \A i \in DOMAIN entries :
                LET answer == call.responses[i] IN
                /\ answer.digest = entries[i].digest
                /\ answer.code = "Ok" =>
                    /\ Contains(Key(i))
                    /\ Get(Key(i)).uncompressed_size = entries[i].digest.size
                /\ answer.code # "Ok" => ~Acceptable(entries[i]) \/ poisoned

\* No step of the service removes a CAS entry or changes its content.
CasContentKept == [][KeepsContent]_casStateVars

(***************************************************************************)
(* Every call is answered: the loops end, also when entries fail, when the *)
(* store is unavailable and when other calls keep the store busy.          *)
(***************************************************************************)
CasCallsAnswered ==
    /\ \A c \in FindCalls : Running(finds[c]) ~> ~Running(finds[c])
    /\ \A c \in ReadCalls : Running(reads[c]) ~> ~Running(reads[c])
    /\ \A c \in UpdateCalls : Running(updates[c]) ~> ~Running(updates[c])

=============================================================================
