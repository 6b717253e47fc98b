# Formal models of the rust-reapi cache server

`rust-reapi` is a remote cache for Bazel: a gRPC server that keeps blobs under
their SHA-256 digests (the content-addressable storage, CAS) and the results of
build actions under the digests of the actions (the action cache, AC). This
directory holds TLA+ models of it, TLC configurations that check them, and proofs
that TLAPS checks. Paths below are relative to `rust-reapi/src/` of the repository unless
they begin with `tests/`, which is `rust-reapi/tests/`.

## 1. The system

| component | state | operations | interacts with |
|---|---|---|---|
| `digest/mod.rs` | none | validate data against a digest; resolve a digest function | called by CAS, ByteStream, AC |
| `storage/blob_codec.rs`, `blob_store.rs` | none | transcode between identity and zstd with a size limit; choose a response encoding | called by all services |
| `storage/in_memory.rs` | a map from (instance, hash, kind) to blobs behind a `RwLock` that may be poisoned | `get`, `put` (overwrites), `contains` | shared by all services |
| `services/cas.rs` | none of its own; a loop index and collected answers per call | FindMissingBlobs, BatchReadBlobs, BatchUpdateBlobs; GetTree, SplitBlob, SpliceBlob are unimplemented | store, codec, digests |
| `services/bytestream.rs` | per write: the resource name and the bytes received so far | Read, Write, parsing of resource names; QueryWriteStatus is unimplemented | store, codec, digests |
| `services/action_cache.rs` | per call: the digests that have still to be looked up | GetActionResult, UpdateActionResult, the validation they share | store (both kinds), codec |
| `services/capabilities.rs` | none | GetCapabilities, a constant reply | clients, who choose encodings and functions by it |
| build clients (`tests/smoke_test.sh`) | what they have still to move, the result they report | builds: ask, execute, find missing, upload, report; or fetch | all services |
| `bin/cache.rs` | owns the store | start; being killed loses everything | hosts the services |

What is hard about it:

* **Interleaving.** tonic runs every request as a task on a multi-threaded runtime.
  No handler holds a lock across two store operations, so calls interleave between
  any two of them. Every batch and every validation is a sequence of such operations.
* **Check, then act.** UpdateActionResult looks up the Action, the command, the
  trees and the artifacts one at a time and caches the result at the end.
  FindMissingBlobs answers with what it saw some time ago.
* **Two writers, two encodings.** BatchUpdate and Write store blobs in zstd; the AC
  puts the empty blob in identity form over whatever is there. Readers must get the
  same bytes from both, in an encoding they accept.
* **Partial failure.** An entry of a batch may fail while others succeed. A panic
  in `put` poisons the lock, and from then on every operation fails, also for calls
  that are half-way through. A restart loses blobs, results and calls.
* **A client-driven protocol.** A ByteStream write is a sequence of messages with
  offsets, optional names and a final flag, which the client may get wrong, leave
  off or break, and then try again.
* **A protocol across services.** A build is a chain of calls to four services. Each relies
  on what an earlier one said: a blob that was not reported missing is not uploaded, a
  result is reported for blobs others may have stored, a hit is taken for the
  promise that its outputs can be fetched. Another client, a deadline, a panic or a
  restart may come between any two.

The properties that make each part correct: the store is content-addressed and
never loses or changes content (CAS integrity, permanence); each CAS response is
true of the store at an instant within the call and stays true where the client relies on
it; a download is the wanted part of the right blob; an acknowledged write is stored; a
cached result is closed, that is, everything it needs is in the CAS; every call
is answered; a build that nothing disturbs succeeds, and hits once its result was
acknowledged. The hazards behind them are listed with their lines in `PROJECT.json`.

## 2. The modules

```
Digests <- BlobCodec <- InMemoryStore <- Calls <- CasService ---------+
   ^                                       ^----- ByteStreamService --+-- CacheServer <- Builds
   |                          ResourceName <------^                   |                    |
   |                                       ^----- ActionCacheService -+                    |
   +-- ActionResults <--------------------------------^                CapabilitiesService <+
         ^-- ResultCache, implemented by CacheServer (Promise, ServesResults)
ResourceName <- ResourceNameGrammar
MCBytes, MCCasService, MCCacheServer, MCBuilds, MCNames     instances for TLC
InMemoryStore_proofs <- CasService_proofs ------------------------+
                     <- ByteStreamService_proofs -----------------+-- CacheServer_proofs <- Builds_proofs
                     <- ActionCacheService_proofs <- Results_proofs
ResourceNameGrammar_proofs                                  theorems and proofs
```

* **Digests**: byte strings, `Hash` (SHA-256, taken to be injective), the checks of
  `DigestAlgorithm::validate` in their order. SHA-256 is the only algorithm, so keys omit it.
* **BlobCodec**: `CanTranscode`/`Transcode` are `BlobCodec::transcode`: the first says
  when it returns `Ok`, the second what. zstd is `Compress` and a partial
  `Decompress`. `VerifiedUpload` is the sequence of checks that `put_verified_blob` and
  the end of a write share; `ResponseEncoding` chooses the encoding of a batch read.
* **InMemoryStore**: variables `blobs` and `poisoned`. Each store operation is one
  atomic step, as it takes the lock once. `PutPanics` is a panic within `put`'s critical section.
* **Calls**: what calls have in common. Each service keeps a table from call slots to
  calls in flight; `status` is `"running"` until the handler returns a gRPC code.
  A slot is free again once the client has taken, or lost, the response. Awaiting the
  in-memory store or the codec never suspends a unary handler, so a client that
  disconnects cannot stop one in the middle.
* **CasService**: `finds`, `reads`, `updates`. One entry of a request is one step:
  `FindEntry`, `ReadEntry`, and `UpdateStores`/`UpdateRejects`/`UpdatePanics`.
* **ResourceName**: the parser, over names as sequences of segments.
* **ByteStreamService**: `downloads`, `writes`. A read fetches and cuts its blob in one
  step (`DownloadReads`), since it touches the store once and streams a copy. A write takes one
  step per message: `WriteReceives`, and for the message with `finish_write` one of `WriteCommits`,
  `WriteRejects`, `WritePanics`; `WriteStops` is a client that closes its side,
  `WriteBreaks` a lost connection.
* **ActionCacheService**: `actions`. One store operation per step: `LooksUpResult` or
  `ReadsAction` and `FindsCommand`, then `ResolvesTree` for every output directory,
  `FindsArtifact` or `StoresEmptyArtifact` for every digest, then `GetReplies` or
  `CachesResult`. Messages are reduced to the digests they carry.
* **ActionResults**: those messages, and what it means for a CAS to hold all that a result
  needs (`Complete`) or to know an Action (`ActionKnown`).
* **CacheServer**: the three services over one store, and `Restart`.
* **ResultCache**: the abstract specification of what the server promises about results. An
  update is accepted in one step, in which its Action is known and the result complete,
  or refused in one step, in which something is missing; a get looks at the cached
  result once, and answers with that result in a step in which it is complete. There are no lookups
  one by one, no encodings, no other services: the CAS is a function to which
  byte strings are added.
* **CapabilitiesService**: what the constant reply says of the cache and of the API versions; the symlink
  strategy, the absent parameters and the rest of what it says of execution, which is off, are left out.
* **Builds**: clients that build the same targets over and over, as `tests/smoke_test.sh`
  has Bazel do twice, in an encoding of those advertised. `builds` says which step a client is
  at and whether the request of that step is under way; every request is an arrival at
  the service's own module and every answer is taken from there. A client lists the digests it
  asks for in any order, moves one blob at a time, in an order that is fixed and left open, an upload in one message,
  checks what it fetches, gives up on the first failure, and does not upload the empty blob,
  as Bazel does not. A deadline may cut an upload off, before the blob is sent or after it was
  committed (`TimesOut`). The services' own
  steps are theirs, as are panics and restarts. Bazel is external: what the repository says of it is
  the script, its comment in the AC and the names in the parser's tests.
* **ResourceNameGrammar**: resource names as a client writes them, read as a whole: which segments
  are the instance, the upload id, the marker and so on. It is compared with the parser,
  which decides segment by segment.

`before` in a call is a history variable (the keys present when the call arrived) that
only properties read; so are `disturbed` and `known` in a build, and `reported` and `acknowledged`.

**The refinement.** `Promise` in `CacheServer` instantiates `ResultCache` with `contents`, the CAS entries
decoded; `results`, the AC entries decompressed and decoded; `failed`, the poisoned
lock; and `calls`, the AC calls without their phases and without the digests they have still to look
up. So `ReadsAction`, `FindsCommand`, `ResolvesTree` and `FindsArtifact` are stutters, the
puts of CAS and ByteStream and of the empty blob are `Stores` (or stutters, where only the
encoding changes), `LooksUpResult` is `Looks` or `Misses`, `GetReplies` is `Hits`, `CachesResult` is
`Accepts`. A get is linearised twice: it answers with what was cached at one instant and checks that
against the CAS of a later one. That the CAS only grows makes this one promise.

Definitions introduced as "Mutant of X" are not used by any specification: each
is X with a plausible mistake in it. Put in the place of X, it must break the
property that `PROJECT.json` pairs it with, which shows that the property depends on the code
it is about.

## 3. What is checked

TLC, two workers; deadlock is checked in every run but `Names`, which enumerates names up
to a bound and stops. All runs pass, the largest (`CasLookups`, `EmptyBlob`, `Names`) with up to
490,000 distinct states within three minutes. Between them they take every step of every handler and every answer but these:
`Internal` from BatchReadBlobs or Read for a stored blob that does not decode or
validate, and three answers of GetActionResult for a cached result that does not decompress, does
not decode or has a file without a digest. No such entry is ever stored; this is what
`CasIntegrity`, `ResultsClosed` and the soundness of the three responses say.

| run | what goes on | properties |
|---|---|---|
| `CasLookups` | one FindMissing, one BatchRead, one BatchUpdate at a time, two instances, duplicate and wrongly sized digests, unsupported functions and compressors, a store that may fail | `CasTypeOK`, `FindMissingSound`, `BatchReadSound` |
| `CasUploads` | two BatchUpdates; entries with the wrong data, size or encoding, no digest, too large, cut short, unsupported | `CasIntegrity`, `BatchUpdateSound`, `CasContentKept` |
| `CasAnswers` | one call of each method, refused entries, failing store | `CasCallsAnswered` |
| `Streams` | two writes of one blob, plain and compressed, in one to three messages, illegal ones too, and a read with offsets and limits in and out of range | `TypeOK`, `CasIntegrity`, `DownloadSound`, `WriteSound` |
| `Results` | two AC calls at once, get or update, while a batch uploads Action, tree, files and the empty blob | `ResultsClosed`, `GetResultSound`, `UpdateResultSound` |
| `ResultFaults` | AC requests without digests or results, with malformed Actions and Trees, a result that is too large; poisoned lock, restart | the three of `Results`, `ServesResults` |
| `Server` | a result whose blobs come through BatchUpdate, Write and the AC, with FindMissing, poisoning and restart | `FindMissingSound`, `ResultsClosed`, `ContentKept` |
| `EmptyBlob` | the empty blob stored plain by the AC and compressed by BatchUpdate while BatchRead and Read fetch it in both encodings, with restart | `CasIntegrity`, `BatchReadSound`, `DownloadSound`, `ContentKept` |
| `Answers` | one BatchUpdate, Read and AC call at once, poisoning, restart | `CallsAnswered` |
| `Builds` | two clients build one action in one instance, with a directory or an empty log as outcome, plain or compressed transfers, deadlines, a store that may fail | `ServesResults`, `UndisturbedBuildsSucceed`, `SecondBuildHits` |
| `BuildsEnd` | one client builds two actions with one command in two instances, with deadlines, panics and restarts between any two steps | `BuildsEnd`, `UndisturbedBuildsSucceed`, `AcknowledgedResultsHold`, `HitsWereReported` |
| `Names` | all names of up to seven segments over the parser's words, the empty segment and a number | `UnderstandsNames`, `AcceptsOnlyNames` |

What the main properties say, and what they rest on:

* `FindMissingSound`: a digest reported missing was absent when the call arrived; one
  that is not reported is there, still when the client reads the response. It holds
  because nothing removes a key; a cache with eviction would break the second half.
  Presence means the hash: the code never looks at a digest's size here.
* `BatchReadSound`, `DownloadSound`: data are those of the blob named, in the encoding
  claimed; `NotFound` is not said of a blob that was there when the call arrived;
  `Internal` means that the store is unavailable, never that a stored entry is bad.
* `BatchUpdateSound`, `WriteSound`: `Ok` means stored, whoever else writes the key.
* `ResultsClosed`: a cached result, its trees' files, its Action and the command are in the
  CAS of the same instance. UpdateActionResult checks and then acts, and this is sound only because
  content is permanent (`ContentKept`) and a restart loses results and blobs together.
* `UpdateResultSound`, `GetResultSound`: also the converse, that nothing is refused or
  not found which was complete when the call arrived, and that a result which
  cannot be read back is refused when it is cached.
* `ServesResults`: the server implements `ResultCache`. It says more than the soundness of the two
  responses: the result that is served is the one that was cached when the call looked, and not one that
  was validated for another call.
* `UndisturbedBuildsSucceed`: a build fails only if the store failed, the server restarted or the
  client's own deadline struck after it began. It ties together that FindMissing can be relied
  on until the report, that a blob may be written twice, that the server provides the empty blob for reports
  and hits, and that every advertised encoding is served by every service.
* `SecondBuildHits`: what `tests/smoke_test.sh` line 77 expects, for any interleaving of clients: after a
  result was acknowledged no build of that action executes it again, until a restart.
* `AcknowledgedResultsHold`: after a report was accepted, the cached result is one that was reported for this action and has
  its Action, command and outputs in the CAS. It is about disturbed builds, too: a client that has uploaded some blobs before a
  restart and goes on after it must have its report refused, since what FindMissing told it no longer holds.
* `HitsWereReported`: what is served was reported for this action in this instance since the last restart.
* `BuildsEnd`: every build ends, with success or without.
* `UnderstandsNames`, `AcceptsOnlyNames`: a name is read as it was meant if its instance and id contain no
  marker and its hash is not the name of a function; what is accepted is in the grammar.
* `CasCallsAnswered`, `CallsAnswered`: every unary call is answered or lost with the process. The first is checked for all
  CAS methods by themselves, the second for one BatchUpdate, Read and AC call that share a store; its other
  slots are empty.

**Bounds.** Contents have 0 to 3 symbols with a size limit of 2, frames are two symbols
longer than what they hold, chunks hold 2: every comparison of sizes has a
case below, at and above. Two calls that write, or one that writes and one or two that read, are
enough for the races at hand, since a step reads or writes one key and a
property relates one call to the store. Slots are used again, so the calls of a run are
not limited in number: retries and repeated overwriting occur. A stream carries at most the byte strings of the
instance (`WithinStreamBound`). Seven segments (`MaxSegments`) hold every optional part after an
upload id without an instance, and every part but one with an instance of one segment. Builds repeat
without limit: in `Builds` of one action with two outcomes, one of which needs an upload more than the other; in `BuildsEnd`
of two actions with an outcome each, which share a command; all have an empty blob that is never uploaded. Requests are chosen by hand so that each early return
of a handler is taken. Symmetry is over the two slots `c1` and `c2` and only in
`Streams`, `Results` and `Builds`, where they play the same roles and no liveness is checked.

**Fairness.** Weak fairness for the steps of each unary handler: the runtime polls a
task that can go on, and such a handler never waits for anybody. None for clients: they
need not send a request, continue a write or take a response (in `Builds` a client that has begun
goes on: it sends its next request, takes answers, and either sends a blob or gives up at its
deadline; it need not begin). Writes are therefore outside
`CallsAnswered`: a client that stalls keeps its write open, and the code has no deadline.
`BuildsEnd` needs that deadline of the client's, since nothing in the server ends the wait.
`Restart` and panics are never forced to happen.

## 4. What is proved

`tlapm` checks all proofs; they hold for all values of the constants under the
named assumptions: hashing is injective on the byte strings considered;
`Decompress` inverts `Compress`; decoders answer messages of their type or `Malformed`;
an `ActionResult` survives encoding; requests have the types of their protobuf messages; chunks
hold at least one byte; every segment of a name is an integer or none (`SegmentsAssumption`); an
empty call slot is no call (`IdleAssumption`). The theorems about builds also rest on what `Builds` assumes of its
clients: what they build is within the size limit and bears its true digests, the Action, its command and the
trees are messages with a field at least, and a tree has a root (`BuildAssumption`); the names
that clients write are parsed as they are meant (`NamingAssumption`); and what clients send is among the
requests that the services are checked and proved for (`RequestsAssumption`).
TLC evaluates these assumptions on every instance.

| theorem | says |
|---|---|
| `Invariance` | `Spec => []IInv`, the inductive invariant of the server, from which all of the next nine follow |
| `TypeCorrectness`, `ContentAddressing` | `Spec => []TypeOK`, `Spec => []CasIntegrity` |
| `ContentPermanence` | `Spec => ContentKept`: no step but a restart removes a CAS entry or changes its bytes |
| `FindAnswersSound`, `ReadAnswersSound`, `BatchUpdatesSound` | the soundness of the three CAS responses |
| `DownloadsSound`, `WritesSound` | the soundness of ByteStream |
| `CachedResultsClosed`, `GetAnswersSound`, `UpdateAnswersSound` | what is cached is closed, and the soundness of both AC responses |
| `Refinement` | `Spec => ServesResults`: the server implements `ResultCache` |
| `CasTypes`, `CasAnswersSound`, `CasContentPermanence` | the same of the CAS service alone, `CasSpec` |
| `BuildInvariance` | `BuildsSpec => [](IInv /\ BuildInv)`, the inductive invariant of clients and server together |
| `BuildsUseServer` | `BuildsSpec => Init /\ [][Next]_vars`: clients that build do nothing to the server but call it |
| `BuildsAreServed` | `BuildsSpec => ServesResults`: under builds, too, `ResultCache` is implemented |
| `RebuildsHit`, `HitsAreReports` | a build hits once its result was acknowledged, and is served what was reported for its Action |
| `AcknowledgementsHold` | what was acknowledged is cached, was reported and is closed, for disturbed builds as well |
| `BuildsSucceed` | a build that nothing disturbs does not fail |
| `NamesUnderstood`, `OnlyNamesAccepted` | the parser and the grammar of resource names agree, for names of any length |

**The inductive invariant.** Types alone are not inductive: an answer
to a read has its type only if what is stored decodes, and the store stays sound only if
calls in flight hold well-formed data. Nor are the responses' properties, which speak of calls that
have been answered: each needs to be known of the part that a call in flight has behind it, in a form
that survives the steps of all other calls. `IInv` joins

* `StoreInv`: every entry, AC entries included, decodes within the limit to a byte string,
  with true sizes, and CAS entries to the one their key names;
* `CasTypeOK`, `StreamInv`, `ActionInv`: the types of the call tables; a stream that has a name has one
  that parses (`NamedStreams`); a running AC call has the arguments it was admitted with, and what
  an update is about to cache is what its client sent (`AdmittedActions`);
* `AnswersInv`: for every entry that a batch has passed, its answer is right against the store of
  now (`FindSoFar`, `ReadSoFar`, `UpdateSoFar`), and as many entries are answered as were passed;
* `TransfersInv`: an answered read carries the wanted part of the one blob its name can mean; an answered
  write is stored as it was sent (`DownloadRight`, `WriteRight`);
* `ResultsInv`: `ResultsClosed`, and what an AC call knows in each of its phases (`Progress`): the
  Action is there and decodes to the command at hand; every blob that the result
  needs is found already or on one of the call's lists, and the lists hold nothing else (`Collected`).
  For an answered call, `Answers` is the property of its response.

What a call knows stays true since the store only grows: `StoreGrows` says that no key
is removed, no bytes change and the lock once broken stays broken. Every step of every service but `Restart` is
shown to be such a step, and each part of `IInv` to survive it (`...Later`).

**One module per service.** `InMemoryStore_proofs` shows that putting a good entry preserves `StoreInv` and the content of
all others, because two blobs with the same hash are the same blob. `CasService_proofs`,
`ByteStreamService_proofs`, `ActionCacheService_proofs` (types) and `Results_proofs` (all else of the AC) show that
each step preserves the service's own part and puts only good entries;
`CacheServer_proofs` combines them, with the restart. `Builds_proofs` adds the clients.

**The refinement.** `CacheServer_proofs` maps the steps one by one: a put of a blob is `Stores` of its
bytes or a stutter, where they were there (`PutAddsContent`, `OthersStep`); the steps that look something up are
stutters unless they fail, and a failure is a refusal in a state that has what `ResultCache`
asks of a refusal, since what was not found is missing of what the result needs (`Lacks`); the last
steps are `Hits` and `Accepts` because, by `Progress`, with empty lists the result is complete *now*. The
view of a call forgets its phase, so `IdleAssumption` is needed for an empty slot to be
told from a call in `ResultCache` as well.

**Builds.** A step of `Builds` is a step of `CacheServer` or leaves the server alone (`BuildsNextIsNext`),
since what the clients send is among its requests; hence `IInv`, and with it the refinement, carries over. The properties
of builds are not inductive either: that a build fails only when disturbed depends on what each answer
on its way can be. `BuildInv` joins

* the type of `builds`;
* `ReportedInv`: every result that is cached, is on its way into the cache or has been found by a get
  was reported for the Action of its key, and an acknowledged Action has a cached result;
* for every client `Planned`: what it has still to move belongs to its outcome;
* `Backed`: unless the build was disturbed, the store works, each blob that the build needs
  and no longer means to upload is in the CAS, so are all outputs that it is about to fetch, and the
  result that was acknowledged before the build began is cached;
* `Linked`: the call that a build waits for is the one its step calls for, has kept to a few codes, and had
  the blobs it depends on there when it arrived; if there is no such call, the build was disturbed.

`Backed` survives the steps of all others because the store grows (`StoreGrows`, `ClientLater`), and
a panic or a restart marks every build as disturbed. The rest follows a build from step to
step. An answer of FindMissingBlobs hides nothing that is absent (`FindMissingSound`), so what
is not on its list is backed. A blob in one message under a name that is parsed as meant is never
refused by a working store (`SendsBlobKeeps`), and once its write is answered it is stored (`WriteSound`). A
report whose blobs were there when it arrived meets the preconditions (`ReportIsFit`), as what is stored for a digest is
the one blob the client means (`StoredAsMeant`), and `UpdateResultSound` leaves only `Ok`. A hit is complete by `GetResultSound`, so its outputs are there to be fetched (`OutputsStored`), and a
download is the whole blob in the chosen encoding by `DownloadSound` (`HasFetchedKeeps`). What was acknowledged is closed
for disturbed builds as well, since `ResultsClosed` and `ReportedInv` know of no clients (`AcknowledgedHold`). The
services' soundness theorems are used as lemmas throughout,
which is a test of them: they say enough of every response for a client to rely on. A deadline of the client's own
(`TimesOut`) counts as a disturbance, also when it strikes with the answer on its way; a build may fail of it and the theorem does not say otherwise.

**Recursion without induction.** Chunks are put together with `FlattenSeq`, which folds, and the parser finds
the first marker with `SelectInSeq`. What they compute for any length cannot be had from the library's
induction theorems, which take an operator as a parameter. Where it is needed, it is got from the
well-ordering of the naturals (`LeastNumber`): the least number of chunks after
which the text put together would be wrong is 0 or has a predecessor that is right, and neither is
possible; the first marker is the least of the positions of markers.

**Model-checked only.** `CasCallsAnswered`, `CallsAnswered` and `BuildsEnd`: liveness under
fairness, which is out of the prover's reach. Every safety property and every action property that a run checks, and the
refinement, is also a theorem.

## 5. Not modelled

* The methods that answer Unimplemented and touch nothing.
* The Rust test clients (`tests/*_client.rs`): single requests to a running server.
* Of Bazel: parallel transfers within a build, batches (it may use BatchUpdate for small blobs), retries of
  a single call, execution itself.
* gRPC transport, protobuf encoding (a decoder is an operator on byte strings), message
  size limits of tonic, status texts.
* Memory: the store and a write's accumulator grow without bound in the code.
* SHA-256 collisions and the inner workings of zstd.

## 6. Plan

1. *Done*: store, codec, CAS, ByteStream, AC, their composition, and their model-checked properties.
2. *Done*: `ResultCache` and the refinement, model-checked; builds across all services; the grammar of
   resource names; the Capabilities service.
3. *Done*: every safety property of the server and of each service as a theorem; the
   refinement of `ResultCache`; the parser against its grammar.
4. *Done*: builds: each step is a step of the server, so all theorems hold for builds; what builds are served
   was reported, rebuilds hit, what is acknowledged holds, undisturbed builds succeed.
5. An abstract specification of a CAS, a set of blobs per instance, that CAS and ByteStream implement with
   every response linearised, as `ResultCache` is for the action cache.
