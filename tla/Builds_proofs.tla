---------------------------- MODULE Builds_proofs ----------------------------
(***************************************************************************)
(* Builds over the server.  A step of Builds is a step of CacheServer, so  *)
(* that all of its theorems hold for builds.  On top of them: a build that *)
(* nothing disturbs succeeds, a build hits once its result is acknowledged *)
(* and is served what was reported, for any number of clients, actions and *)
(* outcomes.                                                               *)
(***************************************************************************)
EXTENDS Builds, CacheServer_proofs

Build == [instance : Instances, target : Targets, encoding : Encoding,
          step : {"ask", "find", "upload", "report", "fetch", "failed"},
          sent : BOOLEAN, result : ActionResult \cup {NoResult},
          todo : SUBSET Digest, disturbed : BOOLEAN, known : BOOLEAN]

\* What a build is to do belongs to its outcome; only a disturbed one has failed
\* or executes an action whose result was known.
Planned(b) ==
    /\ b.step \in {"find", "upload", "report", "fetch"} => b.result \in Outcomes(b.target)
    /\ b.step = "find" => b.todo = Uploadable(b.target, b.result)
    /\ b.step = "upload" => b.todo # {} /\ b.todo \subseteq Uploadable(b.target, b.result)
    /\ b.step = "report" => b.todo = {}
    /\ b.step = "fetch" => b.todo # {} /\ b.todo \subseteq Outputs(b.result)
    /\ b.step = "failed" => b.disturbed
    /\ b.known /\ ~b.disturbed => b.step \in {"ask", "fetch"}

\* What an undisturbed build relies on: the store works and has what the build
\* has uploaded or is going to fetch, and the result it knows of.
Backed(keys, failed, told, b) ==
    ~b.disturbed =>
        /\ ~failed
        /\ b.step \in {"upload", "report"} =>
              \A digest \in Uploadable(b.target, b.result) \ b.todo :
                  CasKey(b.instance, digest.hash) \in keys
        /\ b.step = "fetch" =>
              /\ \A digest \in Outputs(b.result) : CasKey(b.instance, digest.hash) \in keys
              /\ <<b.instance, b.target, b.result>> \in told
        /\ b.known => AcKey(b.instance, Hash(b.target)) \in keys

\* The call of a build is the one for the step it is at, and has been answered
\* in no other way than these.
Getting(b, call) ==
    /\ call.request = ActionRequestOf("get", b.instance, b.target, NoResult)
    /\ call.status \in {"running", "Ok", "NotFound", "Internal"}
    /\ b.known /\ ~b.disturbed => AcKey(b.instance, Hash(b.target)) \in call.before

Reporting(b, call) ==
    /\ call.request = ActionRequestOf("update", b.instance, b.target, b.result)
    /\ call.status \in {"running", "Ok", "FailedPrecondition", "Internal"}
    /\ ~b.disturbed => \A digest \in Uploadable(b.target, b.result) :
                            CasKey(b.instance, digest.hash) \in call.before

LooksFor(failed, b, call) ==
    /\ FindsAll(call.request, b.instance, b.todo)
    /\ Range(call.missing) \subseteq Range(call.request.digests)
    /\ call.status \in {"running", "Ok"} \/ failed

Sending(failed, b, call) ==
    IF call.status = "running" THEN call.name = EmptyName /\ call.received = << >>
    ELSE \/ failed
         \/ call.status = "Ok" /\ call.name = UploadName(b.instance, AnyOf(b.todo), b.encoding)

Fetching(b, call) ==
    /\ call.request = DownloadRequestOf(b.instance, AnyOf(b.todo), b.encoding)
    /\ call.status \in {"running", "Ok", "NotFound", "Internal"}
    /\ ~b.disturbed => CasKey(b.instance, AnyOf(b.todo).hash) \in call.before

\* A build that waits has its call, or has been disturbed.
Linked(failed, b, action, find, write, download) ==
    b.sent =>
        /\ b.step = "ask" => IF action = Idle THEN b.disturbed ELSE Getting(b, action)
        /\ b.step = "report" => IF action = Idle THEN b.disturbed ELSE Reporting(b, action)
        /\ b.step = "find" => IF find = Idle THEN b.disturbed ELSE LooksFor(failed, b, find)
        /\ b.step = "upload" => IF write = Idle THEN b.disturbed ELSE Sending(failed, b, write)
        /\ b.step = "fetch" => IF download = Idle THEN b.disturbed ELSE Fetching(b, download)

ClientInv(c) ==
    LET b == builds[c] IN
    b # Idle => /\ Planned(b)
                /\ Backed(DOMAIN blobs, poisoned, reported, b)
                /\ Linked(poisoned, b, actions[c], finds[c], writes[c], downloads[c])

\* What is cached under the hash of an Action was reported for that Action.
WasReported(told, instance, hash, result) ==
    \E target \in Targets : Hash(target) = hash /\ <<instance, target, result>> \in told

\* What a call is about to cache, and what it has found, was reported.
CallReported(told, call) ==
    LET request == call.request IN
    /\ request.method = "update" =>
          WasReported(told, request.instance, request.action.hash, request.result)
    /\ request.method = "get" =>
          /\ call.result # NoResult =>
                WasReported(told, request.instance, request.action.hash, call.result)
          /\ call.status = "Ok" => call.result # NoResult

ReportsTyped ==
    \A at \in reported : at[2] \in Targets /\ at[3] \in Outcomes(at[2])
AcknowledgedCached ==
    \A at \in acknowledged :
        at \in Instances \X Targets /\ Contains(AcKey(at[1], Hash(at[2])))
CacheReported ==
    \A k \in DOMAIN blobs : k.kind = "ac" =>
        WasReported(reported, k.instance, k.hash, DecodeResult(IdentityData(Get(k))))
CallsReported ==
    \A c \in ActionCalls : actions[c] # Idle => CallReported(reported, actions[c])

ReportedInv == ReportsTyped /\ AcknowledgedCached /\ CacheReported /\ CallsReported

(***************************************************************************)
(* The inductive invariant of builds, on top of that of the server.        *)
(***************************************************************************)
BuildInv ==
    /\ builds \in [Clients -> Build \cup {Idle}]
    /\ ReportedInv
    /\ \A c \in Clients : ClientInv(c)

-----------------------------------------------------------------------------
(* What clients send *)

\* SHA-256 is the one function advertised.
LEMMA Chosen == ChosenFunction = "sha256" /\ ResolvesFunction(ChosenFunction)
BY DEF ChosenFunction, GetCapabilities, ResolvesFunction

\* Every encoding a client may choose is one that the server knows.
LEMMA OfferedEncodings == Offered \subseteq Encoding
BY DEF Offered, GetCapabilities, Encoding

\* There is one blob for a digest, and it can be stored.
LEMMA OneBlob ==
    ASSUME NEW digest, IsBlob(digest)
    PROVE  /\ BlobOf(digest) \in Bytes
           /\ digest = DigestOfBlob(BlobOf(digest))
           /\ CanStore(BlobOf(digest))
           /\ \A b \in Bytes : Hash(b) = digest.hash => b = BlobOf(digest)
           /\ digest \in Digest /\ digest # NoDigest
<1>1. PICK b \in Bytes : digest = DigestOfBlob(b) /\ CanStore(b)
  BY DEF IsBlob
<1>2. digest.hash = Hash(b)
  BY <1>1 DEF DigestOfBlob
<1>3. BlobOf(digest) = b
  BY <1>2, HashAssumption DEF BlobOf
<1>4. digest \in Digest
  BY <1>1, BytesAreSequences DEF DigestOfBlob, Digest
<1> QED
  BY <1>1, <1>2, <1>3, <1>4, HashAssumption, NoDigestAssumption

\* All that a client moves are blobs.
LEMMA MovesBlobs ==
    ASSUME NEW target \in Targets, NEW result \in Outcomes(target)
    PROVE  /\ result \in ActionResult
           /\ \A digest \in Outputs(result) : IsBlob(digest)
           /\ \A digest \in Uploadable(target, result) : IsBlob(digest)
           /\ Outputs(result) \subseteq Digest
           /\ Uploadable(target, result) \subseteq Digest
<1>1. /\ result \in ActionResult
      /\ IsBlob(DigestOfBlob(target)) /\ IsBlob(DecodeAction(target))
      /\ \A digest \in Outputs(result) : IsBlob(digest)
  BY BuildAssumption DEF IsMessage
<1>2. \A digest \in Uploadable(target, result) : IsBlob(digest)
  BY <1>1 DEF Uploadable
<1> QED
  BY <1>1, <1>2, OneBlob

\* A client has slots for all of its calls.
LEMMA ClientSlots ==
    ASSUME NEW c \in Clients
    PROVE  c \in FindCalls /\ c \in WriteCalls /\ c \in DownloadCalls /\ c \in ActionCalls
BY BuildAssumption

\* What a client writes and reads is named, and sent, as it should be.
LEMMA BlobsAreNamed ==
    ASSUME NEW instance \in Instances, NEW encoding \in Encoding,
           NEW digest, IsBlob(digest)
    PROVE  LET b == BlobOf(digest)
               upload == UploadName(instance, digest, encoding)
               download == DownloadName(instance, digest, encoding)
           IN  /\ NamesBlob(upload, instance, b, encoding) /\ Parse(upload).upload
               /\ NamesBlob(download, instance, b, encoding) /\ ~Parse(download).upload
BY OneBlob, NamingAssumption

\* Any one of the blobs that are left is one of them.
LEMMA OneOfThem == ASSUME NEW digests, digests # {} PROVE AnyOf(digests) \in digests
BY DEF AnyOf

\* What a build of its type is about.
LEMMA BuildFields ==
    ASSUME BuildInv, NEW c \in Clients, builds[c] # Idle
    PROVE  LET b == builds[c] IN
           /\ b \in Build
           /\ b.instance \in Instances /\ b.target \in Targets /\ b.encoding \in Encoding
           /\ Planned(b)
           /\ Backed(DOMAIN blobs, poisoned, reported, b)
           /\ Linked(poisoned, b, actions[c], finds[c], writes[c], downloads[c])
<1>1. builds[c] \in Build
  BY DEF BuildInv
<1> QED
  BY <1>1 DEF BuildInv, ClientInv, Build

\* The blob that is up next is one of those of the build.
LEMMA NextOne ==
    ASSUME NEW b \in Build, Planned(b), b.step \in {"upload", "fetch"}
    PROVE  /\ AnyOf(b.todo) \in b.todo
           /\ IsBlob(AnyOf(b.todo))
           /\ b.result \in Outcomes(b.target)
           /\ b.step = "upload" => AnyOf(b.todo) \in Uploadable(b.target, b.result)
           /\ b.step = "fetch" => AnyOf(b.todo) \in Outputs(b.result)
<1>1. b.target \in Targets /\ b.result \in Outcomes(b.target) /\ b.todo # {}
  BY DEF Build, Planned
<1>2. AnyOf(b.todo) \in b.todo
  BY <1>1, OneOfThem
<1>3. /\ b.step = "upload" => AnyOf(b.todo) \in Uploadable(b.target, b.result)
      /\ b.step = "fetch" => AnyOf(b.todo) \in Outputs(b.result)
  BY <1>2 DEF Planned
<1> QED
  BY <1>1, <1>2, <1>3, MovesBlobs

-----------------------------------------------------------------------------
(* A step of a build is a step of the server, or none *)

LEMMA BuildsNextIsNext ==
    ASSUME BuildInv, [BuildsNext]_allVars
    PROVE  [Next]_vars
<1>1. ASSUME NEW c \in Clients,
             \/ \E instance \in Instances, target \in Targets, encoding \in Offered :
                    Begins(c, instance, target, encoding)
             \/ IsCutOff(c)
      PROVE  UNCHANGED vars
  BY <1>1 DEF Begins, IsCutOff
<1>2. ASSUME NEW c \in Clients, Asks(c) \/ Reports(c)
      PROVE  Next
  <2>1. \E request \in ActionRequests : ActionArrives(c, request)
    <3>1. CASE Asks(c)
      BY <1>2, <3>1, BuildFields, RequestsAssumption DEF Asks, About
    <3>2. CASE Reports(c)
      <4>1. builds[c].result \in Outcomes(builds[c].target)
        BY <3>2, BuildFields DEF Reports, About, Planned
      <4> QED
        BY <3>2, <4>1, BuildFields, RequestsAssumption DEF Reports, About
    <3> QED
      BY <1>2, <3>1, <3>2
  <2> QED
    BY <1>2, <2>1, ClientSlots DEF Asks, Reports, Next, ActionNext
<1>3. ASSUME NEW c \in Clients, IsAnswered(c) \/ IsAccepted(c) \/ Acting(c)
      PROVE  Next
  BY <1>3, ClientSlots DEF IsAnswered, IsAccepted, Acting, Next, ActionNext
<1>4. ASSUME NEW c \in Clients, AsksMissing(c) \/ LearnsMissing(c) \/ Finding(c)
      PROVE  Next
  <2>1. CasNext
    <3>1. CASE LearnsMissing(c)
      BY <3>1, ClientSlots DEF LearnsMissing, CasNext, CasReturns
    <3>2. CASE AsksMissing(c) \/ Finding(c)
      BY <3>2, ClientSlots DEF AsksMissing, Finding, CasNext
    <3> QED
      BY <1>4, <3>1, <3>2
  <2> QED
    BY <1>4, <2>1 DEF AsksMissing, LearnsMissing, Finding, Next, streamVars
<1>5. ASSUME NEW c \in Clients, Uploads(c) \/ TimesOut(c) \/ HasUploaded(c)
      PROVE  Next
  BY <1>5, ClientSlots DEF Uploads, TimesOut, HasUploaded, Next, StreamNext, StreamReturns
<1>6. ASSUME NEW c \in Clients, Fetches(c)
      PROVE  Next
  <2>1. DownloadRequestOf(builds[c].instance, NextBlob(c), builds[c].encoding) \in Downloads
    <3>1. builds[c] \in Build /\ Planned(builds[c]) /\ builds[c].step = "fetch"
      BY <1>6, BuildFields DEF Fetches, About
    <3> QED
      BY <3>1, NextOne, RequestsAssumption DEF NextBlob, Build
  <2> QED
    BY <1>6, <2>1, ClientSlots DEF Fetches, Next, StreamNext
<1>7. ASSUME NEW c \in Clients, HasFetched(c) \/ Reading(c)
      PROVE  Next
  <2>1. StreamNext
    BY <1>7, ClientSlots DEF HasFetched, Reading, StreamNext, StreamReturns
  <2> QED
    BY <1>7, <2>1 DEF HasFetched, Reading, Next
<1>8. ASSUME NEW c \in Clients, Awaits(c, "upload")
      PROVE  NextMessage(c) \in WriteChunks
  <2>1. builds[c] \in Build /\ Planned(builds[c]) /\ builds[c].step = "upload"
    BY <1>8, BuildFields DEF Awaits
  <2> QED
    BY <2>1, NextOne, RequestsAssumption DEF NextMessage, NextBlob, Build
<1>9. ASSUME NEW c \in Clients, SendsBlob(c)
      PROVE  Next
  BY <1>8, <1>9, ClientSlots DEF SendsBlob, Next, StreamNext
<1>10. ASSUME NEW c \in Clients, PanicOver(c)
       PROVE  Next
  BY <1>8, <1>10, ClientSlots DEF PanicOver, Next, StreamNext, ActionNext
<1>11. CASE ServerRestarts
  BY <1>11 DEF ServerRestarts, Next
<1>12. CASE UNCHANGED allVars
  BY <1>12 DEF allVars
<1> QED
  BY <1>1, <1>2, <1>3, <1>4, <1>5, <1>6, <1>7, <1>9, <1>10, <1>11, <1>12
     DEF BuildsNext, ClientStep, ServerStep

-----------------------------------------------------------------------------
(* What a step of one client leaves of the invariant *)

\* With more blobs and more reports, a build has all that it relied on.
LEMMA BackedLater ==
    ASSUME NEW keys, NEW larger, keys \subseteq larger, NEW told, NEW more, told \subseteq more,
           NEW failed, NEW b, Backed(keys, failed, told, b)
    PROVE  Backed(larger, failed, more, b)
BY DEF Backed

LEMMA WasReportedLater ==
    ASSUME NEW told, NEW more, told \subseteq more,
           NEW instance, NEW hash, NEW result, WasReported(told, instance, hash, result)
    PROVE  WasReported(more, instance, hash, result)
BY DEF WasReported

LEMMA CallReportedLater ==
    ASSUME NEW told, NEW more, told \subseteq more, NEW call, CallReported(told, call)
    PROVE  CallReported(more, call)
BY WasReportedLater DEF CallReported

\* The calls of all clients but one stay as they are.
OthersKeepCalls(c) ==
    \A d \in Clients \ {c} :
        /\ actions'[d] = actions[d] /\ finds'[d] = finds[d]
        /\ writes'[d] = writes[d] /\ downloads'[d] = downloads[d]

\* What the invariant says of a client whose build has become b.
ClientLater(c, b) ==
    b # Idle =>
        /\ Planned(b)
        /\ Backed(DOMAIN blobs', poisoned', reported', b)
        /\ Linked(poisoned', b, actions'[c], finds'[c], writes'[c], downloads'[c])

\* So a step of one client only has to account for that client.
LEMMA OneClientMoves ==
    ASSUME BuildInv, StoreGrows, poisoned' = poisoned, reported \subseteq reported',
           NEW c \in Clients, NEW b \in Build \cup {Idle},
           builds' = [builds EXCEPT ![c] = b], OthersKeepCalls(c),
           ClientLater(c, b), ReportedInv'
    PROVE  BuildInv'
<1>1. builds \in [Clients -> Build \cup {Idle}]
  BY DEF BuildInv
<1>2. builds' \in [Clients -> Build \cup {Idle}]
  BY <1>1
<1>3. ASSUME NEW d \in Clients
      PROVE  ClientInv(d)'
  <2>1. CASE d = c
    <3>1. builds'[d] = b
      BY <1>1, <2>1
    <3> QED
      BY <2>1, <3>1 DEF ClientInv, ClientLater
  <2>2. CASE d # c
    <3>1. builds'[d] = builds[d]
      BY <1>1, <2>2
    <3>2. /\ actions'[d] = actions[d] /\ finds'[d] = finds[d]
          /\ writes'[d] = writes[d] /\ downloads'[d] = downloads[d]
      BY <2>2 DEF OthersKeepCalls
    <3>3. DOMAIN blobs \subseteq DOMAIN blobs'
      BY DEF StoreGrows
    <3>4. ASSUME builds[d] # Idle
          PROVE  /\ Planned(builds[d])
                 /\ Backed(DOMAIN blobs', poisoned', reported', builds[d])
                 /\ Linked(poisoned', builds[d], actions[d], finds[d], writes[d], downloads[d])
      BY <3>3, <3>4, BuildFields, BackedLater
    <3> QED
      BY <3>1, <3>2, <3>4 DEF ClientInv
  <2> QED
    BY <2>1, <2>2
<1> QED
  BY <1>2, <1>3 DEF BuildInv

\* Reports stay valid while the CAS grows ...
LEMMA CachedStayReported ==
    ASSUME StoreInv, StoreStep("cas"), ReportedInv, reported \subseteq reported',
           UNCHANGED acknowledged
    PROVE  AcknowledgedCached' /\ CacheReported'
<1>1. DOMAIN blobs \subseteq DOMAIN blobs'
  BY StoreStepGrows DEF StoreGrows
<1>2. AcknowledgedCached'
  <2>1. \A at \in acknowledged : AcKey(at[1], Hash(at[2])) \in DOMAIN blobs
    BY DEF ReportedInv, AcknowledgedCached, Contains
  <2> QED
    BY <1>1, <2>1 DEF ReportedInv, AcknowledgedCached, Contains, AcKey
<1>3. CacheReported'
  <2> SUFFICES ASSUME NEW k \in DOMAIN blobs', k.kind = "ac"
               PROVE  WasReported(reported', k.instance, k.hash,
                                  DecodeResult(IdentityData(blobs'[k])))
    BY DEF CacheReported, Get
  <2>1. k \in DOMAIN blobs /\ blobs'[k] = blobs[k]
    BY ResultsUntouched
  <2>2. WasReported(reported, k.instance, k.hash, DecodeResult(IdentityData(blobs[k])))
    BY <2>1 DEF ReportedInv, CacheReported, Get
  <2> QED
    BY <2>1, <2>2, WasReportedLater
<1> QED
  BY <1>2, <1>3

\* ... and one call of the action cache moves.
LEMMA OneCallReported ==
    ASSUME StoreInv, ActionTypeOK, StoreStep("cas"), ReportedInv,
           reported \subseteq reported', ReportsTyped', UNCHANGED acknowledged,
           NEW c \in ActionCalls, NEW call, call # Idle => CallReported(reported', call),
           actions' = [actions EXCEPT ![c] = call]
    PROVE  ReportedInv'
<1>1. AcknowledgedCached' /\ CacheReported'
  BY CachedStayReported
<1>2. ASSUME NEW d \in ActionCalls, actions'[d] # Idle
      PROVE  CallReported(reported', actions'[d])
  <2>1. CASE d = c
    BY <1>2, <2>1 DEF ActionTypeOK
  <2>2. CASE d # c
    <3>1. actions'[d] = actions[d] /\ CallReported(reported, actions[d])
      BY <1>2, <2>2 DEF ActionTypeOK, ReportedInv, CallsReported
    <3> QED
      BY <3>1, CallReportedLater
  <2> QED
    BY <2>1, <2>2
<1>3. CallsReported'
  BY <1>2 DEF CallsReported
<1> QED
  BY <1>1, <1>3 DEF ReportedInv

\* Steps of the other services and of clients that report nothing.
LEMMA NothingReported ==
    ASSUME StoreInv, StoreStep("cas"), ReportedInv, UNCHANGED <<reported, acknowledged, actions>>
    PROVE  ReportedInv'
<1>1. AcknowledgedCached' /\ CacheReported'
  BY CachedStayReported
<1>2. ReportsTyped' /\ CallsReported'
  BY DEF ReportedInv, ReportsTyped, CallsReported
<1> QED
  BY <1>1, <1>2 DEF ReportedInv

-----------------------------------------------------------------------------
(* How a build goes on *)

\* What does not change while a build goes on.
SameBuild(b, next) ==
    /\ next.instance = b.instance /\ next.target = b.target /\ next.encoding = b.encoding
    /\ next.disturbed = b.disturbed /\ next.known = b.known

LEMMA SendingOn ==
    ASSUME BuildInv, NEW c \in Clients, builds[c] # Idle, Sent(c)
    PROVE  \E next \in Build :
              /\ builds' = [builds EXCEPT ![c] = next]
              /\ SameBuild(builds[c], next)
              /\ next.step = builds[c].step /\ next.sent
              /\ next.result = builds[c].result /\ next.todo = builds[c].todo
<1> DEFINE next == [builds[c] EXCEPT !.sent = TRUE]
<1>1. builds[c] \in Build
  BY BuildFields
<1>2. next \in Build
  BY <1>1 DEF Build
<1>3. /\ SameBuild(builds[c], next)
      /\ next.step = builds[c].step /\ next.sent
      /\ next.result = builds[c].result /\ next.todo = builds[c].todo
  BY <1>1 DEF Build, SameBuild
<1>4. builds' = [builds EXCEPT ![c] = next]
  BY DEF Sent
<1> QED
  BY <1>2, <1>3, <1>4

LEMMA GoingOn ==
    ASSUME BuildInv, NEW c \in Clients, builds[c] # Idle,
           NEW step \in {"ask", "find", "upload", "report", "fetch", "failed"},
           NEW result \in ActionResult, NEW todo \in SUBSET Digest,
           Proceeds(c, step, result, todo)
    PROVE  \E next \in Build :
              /\ builds' = [builds EXCEPT ![c] = next]
              /\ SameBuild(builds[c], next)
              /\ next.step = step /\ ~next.sent
              /\ next.result = result /\ next.todo = todo
<1> DEFINE next == [builds[c] EXCEPT !.step = step, !.sent = FALSE,
                                     !.result = result, !.todo = todo]
<1>1. builds[c] \in Build /\ builds \in [Clients -> Build \cup {Idle}]
  BY BuildFields DEF BuildInv
<1>2. next \in Build
  BY <1>1 DEF Build
<1>3. /\ SameBuild(builds[c], next)
      /\ next.step = step /\ ~next.sent
      /\ next.result = result /\ next.todo = todo
  BY <1>1 DEF Build, SameBuild
<1>4. builds' = [builds EXCEPT ![c] = next]
  BY <1>1 DEF Proceeds
<1> QED
  BY <1>2, <1>3, <1>4

LEMMA GivingUp ==
    ASSUME BuildInv, StoreGrows, UNCHANGED <<poisoned, reported>>,
           NEW c \in Clients, builds[c] # Idle,
           GivesUpFor(c, TRUE) \/ (GivesUp(c) /\ builds[c].disturbed),
           OthersKeepCalls(c), ReportedInv'
    PROVE  BuildInv'
<1> DEFINE next == [builds[c] EXCEPT !.step = "failed", !.sent = FALSE, !.known = FALSE,
                             !.encoding = "identity", !.result = NoResult, !.todo = {},
                             !.disturbed = TRUE]
<1>1. builds[c] \in Build /\ builds \in [Clients -> Build \cup {Idle}]
  BY BuildFields DEF BuildInv
<1>2. next \in Build
  BY <1>1 DEF Build, Encoding
<1>3. next.step = "failed" /\ ~next.sent /\ ~next.known /\ next.disturbed
  BY <1>1 DEF Build
<1>4. builds' = [builds EXCEPT ![c] = next]
  <2>1. builds[c].disturbed \in BOOLEAN
    BY <1>1 DEF Build
  <2>2. GivesUpFor(c, TRUE)
    BY <2>1 DEF GivesUp
  <2> QED
    BY <1>1, <2>2 DEF GivesUpFor
<1> HIDE DEF next
<1>5. ClientLater(c, next)
  BY <1>3 DEF ClientLater, Planned, Backed, Linked
<1> QED
  BY <1>2, <1>4, <1>5, OneClientMoves

LEMMA Succeeding ==
    ASSUME BuildInv, StoreGrows, UNCHANGED <<poisoned, reported>>,
           NEW c \in Clients, Succeeds(c), OthersKeepCalls(c), ReportedInv'
    PROVE  BuildInv'
<1>1. ClientLater(c, Idle)
  BY DEF ClientLater
<1> QED
  BY <1>1, OneClientMoves DEF Succeeds

\* A step of the server for the call of a client.
LEMMA CallMoves ==
    ASSUME BuildInv, StoreGrows, UNCHANGED <<poisoned, reported, builds>>,
           NEW c \in Clients, OthersKeepCalls(c), ReportedInv',
           builds[c] # Idle =>
              Linked(poisoned, builds[c], actions'[c], finds'[c], writes'[c], downloads'[c])
    PROVE  BuildInv'
<1>1. builds \in [Clients -> Build \cup {Idle}]
  BY DEF BuildInv
<1>2. builds' = [builds EXCEPT ![c] = builds[c]]
  BY <1>1
<1>3. ClientLater(c, builds[c])
  <2>1. DOMAIN blobs \subseteq DOMAIN blobs'
    BY DEF StoreGrows
  <2> QED
    BY <2>1, BuildFields, BackedLater DEF ClientLater
<1> QED
  BY <1>1, <1>2, <1>3, OneClientMoves

\* A step that leaves the store alone.
LEMMA StoreRests ==
    ASSUME StoreInv, UNCHANGED storeVars
    PROVE  StoreStep("cas") /\ StoreGrows /\ blobs' = blobs /\ poisoned' = poisoned
BY StoreStepGrows DEF StoreStep, storeVars

\* A step that touches one call.
LEMMA ActionTurns ==
    ASSUME ActionTypeOK, NEW c \in ActionCalls, NEW call,
           actions' = [actions EXCEPT ![c] = call], UNCHANGED <<finds, writes, downloads>>,
           Clients \subseteq ActionCalls
    PROVE  OthersKeepCalls(c) /\ actions'[c] = call
BY DEF OthersKeepCalls, ActionTypeOK

LEMMA FindTurns ==
    ASSUME CasTypeOK, NEW c \in FindCalls, NEW call,
           finds' = [finds EXCEPT ![c] = call], UNCHANGED <<actions, writes, downloads>>,
           Clients \subseteq FindCalls
    PROVE  OthersKeepCalls(c) /\ finds'[c] = call
BY DEF OthersKeepCalls, CasTypeOK

LEMMA WriteTurns ==
    ASSUME StreamTypeOK, NEW c \in WriteCalls, NEW call,
           writes' = [writes EXCEPT ![c] = call], UNCHANGED <<actions, finds, downloads>>,
           Clients \subseteq WriteCalls
    PROVE  OthersKeepCalls(c) /\ writes'[c] = call
BY DEF OthersKeepCalls, StreamTypeOK

LEMMA DownloadTurns ==
    ASSUME StreamTypeOK, NEW c \in DownloadCalls, NEW call,
           downloads' = [downloads EXCEPT ![c] = call], UNCHANGED <<actions, finds, writes>>,
           Clients \subseteq DownloadCalls
    PROVE  OthersKeepCalls(c) /\ downloads'[c] = call
BY DEF OthersKeepCalls, StreamTypeOK

-----------------------------------------------------------------------------
(* The steps of a build, one by one *)

LEMMA BeginsKeeps ==
    ASSUME IInv, BuildInv, NEW c \in Clients, NEW instance \in Instances,
           NEW target \in Targets, NEW encoding \in Offered,
           Begins(c, instance, target, encoding)
    PROVE  BuildInv'
<1> DEFINE b == [instance |-> instance, target |-> target, encoding |-> encoding,
                 step |-> "ask", sent |-> FALSE, result |-> NoResult, todo |-> {},
                 disturbed |-> poisoned, known |-> <<instance, target>> \in acknowledged]
<1>1. UNCHANGED vars /\ UNCHANGED <<reported, acknowledged>> /\ builds' = [builds EXCEPT ![c] = b]
  BY DEF Begins
<1>2. StoreInv /\ UNCHANGED storeVars /\ UNCHANGED <<actions, finds, writes, downloads>>
  BY <1>1 DEF IInv, vars, casVars, streamVars
<1>3. StoreStep("cas") /\ StoreGrows /\ blobs' = blobs /\ poisoned' = poisoned
  BY <1>2, StoreRests
<1>4. ReportedInv'
  BY <1>1, <1>2, <1>3, NothingReported DEF BuildInv
<1>5. OthersKeepCalls(c)
  BY <1>2 DEF OthersKeepCalls
<1>6. b \in Build
  <2>1. poisoned \in BOOLEAN /\ (<<instance, target>> \in acknowledged) \in BOOLEAN
    BY <1>2 DEF StoreInv
  <2> QED
    BY <2>1, OfferedEncodings DEF Build
<1>7. ClientLater(c, b)
  <2>1. <<instance, target>> \in acknowledged =>
            AcKey(instance, Hash(target)) \in DOMAIN blobs
    BY DEF BuildInv, ReportedInv, AcknowledgedCached, Contains
  <2>2. Planned(b)
    BY DEF Planned
  <2>3. Backed(DOMAIN blobs, poisoned, reported, b)
    BY <2>1 DEF Backed
  <2> QED
    BY <1>1, <1>3, <2>2, <2>3 DEF ClientLater, Linked
<1> QED
  BY <1>1, <1>3, <1>4, <1>5, <1>6, <1>7, OneClientMoves

\* The requests of a build are let in.
LEMMA RequestsAdmitted ==
    ASSUME NEW instance \in Instances, NEW target \in Targets,
           NEW method \in {"get", "update"},
           NEW result, method = "update" => result \in Outcomes(target),
           ActionRequestOf(method, instance, target, result) \in ActionRequests, StoreInv,
           NEW c, ActionArrives(c, ActionRequestOf(method, instance, target, result))
    PROVE  LET request == ActionRequestOf(method, instance, target, result)
               call == [status |-> "running", request |-> request, phase |-> "lookup",
                        command |-> NoDigest, result |-> NoResult, trees |-> << >>,
                        digests |-> << >>, before |-> DOMAIN blobs]
           IN  /\ actions' = [actions EXCEPT ![c] = call]
               /\ call # Idle
               /\ request.method = method /\ request.instance = instance
               /\ request.action.hash = Hash(target)
               /\ request.result = result
<1> DEFINE request == ActionRequestOf(method, instance, target, result)
<1>1. DigestOfBlob(target) # NoDigest
  BY BuildAssumption, OneBlob DEF IsMessage
<1>2. method = "update" => result # NoResult
  BY MovesBlobs, ActionRequestAssumption
<1>3. ResolvesFunction(request.function)
  BY Chosen DEF ActionRequestOf
<1>4. /\ request.method = method /\ request.instance = instance
      /\ request.action = DigestOfBlob(target) /\ request.result = result
      /\ request.action.hash = Hash(target)
  BY DEF ActionRequestOf, DigestOfBlob
<1> HIDE DEF request
<1>5. Admission(/\ request.action # NoDigest
                /\ request.method = "update" => request.result # NoResult
                /\ ResolvesFunction(request.function)) = "running"
  BY <1>1, <1>2, <1>3, <1>4 DEF Admission
<1>6. [status |-> "running", request |-> request, phase |-> "lookup",
       command |-> NoDigest, result |-> NoResult, trees |-> << >>,
       digests |-> << >>, before |-> DOMAIN blobs] \in ActionCall
  <2>1. request \in ActionRequests /\ DOMAIN blobs \in SUBSET BlobKey
    BY DEF request, StoreInv
  <2>2. << >> \in Seq(OptionalDigest) /\ << >> \in Seq(Digest)
    OBVIOUS
  <2> QED
    BY <2>1, <2>2 DEF ActionCall, Status, Phase, OptionalDigest
<1> QED
  BY <1>4, <1>5, <1>6, IdleAssumption DEF ActionArrives, request

LEMMA AsksKeeps ==
    ASSUME IInv, IInv', BuildInv, NEW c \in Clients, Asks(c)
    PROVE  BuildInv'
<1> DEFINE b == builds[c]
           request == ActionRequestOf("get", b.instance, b.target, NoResult)
           call == [status |-> "running", request |-> request, phase |-> "lookup",
                    command |-> NoDigest, result |-> NoResult, trees |-> << >>,
                    digests |-> << >>, before |-> DOMAIN blobs]
<1>1. /\ b # Idle /\ b.step = "ask"
      /\ ActionArrives(c, request) /\ Sent(c)
      /\ UNCHANGED <<reported, acknowledged, finds, writes, downloads>>
  BY DEF Asks, About, Sent, casVars, streamVars
<1>2. /\ b.instance \in Instances /\ b.target \in Targets
      /\ Planned(b) /\ Backed(DOMAIN blobs, poisoned, reported, b)
  BY <1>1, BuildFields
<1>3. /\ actions' = [actions EXCEPT ![c] = call]
      /\ call # Idle /\ request.method = "get"
  BY <1>1, <1>2, RequestsAdmitted, RequestsAssumption DEF IInv
<1>4. /\ StoreInv /\ ActionTypeOK /\ ActionTypeOK'
      /\ StoreStep("cas") /\ StoreGrows /\ blobs' = blobs /\ poisoned' = poisoned
  BY <1>1, StoreRests DEF IInv, ActionInv, ActionArrives
<1> HIDE DEF call, request
<1>5. OthersKeepCalls(c) /\ actions'[c] = call
  BY <1>1, <1>3, <1>4, ActionTurns, BuildAssumption, ClientSlots
<1>6. /\ call.request = request /\ call.status = "running"
      /\ call.before = DOMAIN blobs /\ call.result = NoResult
  BY DEF call
<1>7. ReportedInv'
  <2>1. CallReported(reported', call)
    BY <1>3, <1>6 DEF CallReported
  <2>2. ReportsTyped' /\ ReportedInv
    BY <1>1 DEF BuildInv, ReportedInv, ReportsTyped
  <2> QED
    BY <1>1, <1>3, <1>4, <2>1, <2>2, ClientSlots, OneCallReported
<1>8. PICK next \in Build :
        /\ builds' = [builds EXCEPT ![c] = next]
        /\ SameBuild(b, next)
        /\ next.step = b.step /\ next.sent
        /\ next.result = b.result /\ next.todo = b.todo
  BY <1>1, SendingOn
<1>9. ClientLater(c, next)
  <2>1. call # Idle => Getting(next, call)
    BY <1>1, <1>2, <1>6, <1>8 DEF Getting, SameBuild, Backed, request
  <2>2. Planned(next)
    BY <1>2, <1>8 DEF Planned, SameBuild
  <2>3. Backed(DOMAIN blobs, poisoned, reported, next)
    BY <1>2, <1>8 DEF Backed, SameBuild
  <2> QED
    BY <1>1, <1>4, <1>5, <1>8, <1>3, <2>1, <2>2, <2>3 DEF ClientLater, Linked
<1> QED
  BY <1>1, <1>4, <1>5, <1>7, <1>8, <1>9, OneClientMoves

LEMMA ReportsKeeps ==
    ASSUME IInv, BuildInv, NEW c \in Clients, Reports(c)
    PROVE  BuildInv'
<1> DEFINE b == builds[c]
           request == ActionRequestOf("update", b.instance, b.target, b.result)
           call == [status |-> "running", request |-> request, phase |-> "lookup",
                    command |-> NoDigest, result |-> NoResult, trees |-> << >>,
                    digests |-> << >>, before |-> DOMAIN blobs]
           report == <<b.instance, b.target, b.result>>
<1>1. /\ b # Idle /\ b.step = "report"
      /\ ActionArrives(c, request) /\ Sent(c)
      /\ reported' = reported \cup {report}
      /\ UNCHANGED <<acknowledged, finds, writes, downloads>>
  BY DEF Reports, About, Sent, casVars, streamVars
<1>2. /\ b.instance \in Instances /\ b.target \in Targets
      /\ Planned(b) /\ Backed(DOMAIN blobs, poisoned, reported, b)
      /\ b.result \in Outcomes(b.target) /\ b.todo = {}
  BY <1>1, BuildFields DEF Planned
<1>3. /\ actions' = [actions EXCEPT ![c] = call]
      /\ call # Idle
      /\ request.method = "update" /\ request.instance = b.instance
      /\ request.action.hash = Hash(b.target) /\ request.result = b.result
  BY <1>1, <1>2, RequestsAdmitted, RequestsAssumption DEF IInv
<1>4. /\ StoreInv /\ ActionTypeOK
      /\ StoreStep("cas") /\ StoreGrows /\ blobs' = blobs /\ poisoned' = poisoned
  BY <1>1, StoreRests DEF IInv, ActionInv, ActionArrives
<1> HIDE DEF call, request
<1>5. OthersKeepCalls(c) /\ actions'[c] = call
  BY <1>1, <1>3, <1>4, ActionTurns, BuildAssumption, ClientSlots
<1>6. /\ call.request = request /\ call.status = "running" /\ call.before = DOMAIN blobs
  BY DEF call
<1>7. ReportedInv'
  <2>1. WasReported(reported', b.instance, Hash(b.target), b.result)
    BY <1>1, <1>2 DEF WasReported
  <2>2. CallReported(reported', call)
    BY <1>3, <1>6, <2>1 DEF CallReported
  <2>3. ReportedInv
    BY DEF BuildInv
  <2>4. ReportsTyped'
    <3>1. report[2] = b.target /\ report[3] = b.result
      OBVIOUS
    <3> HIDE DEF report
    <3> QED
      BY <1>1, <1>2, <2>3, <3>1 DEF ReportedInv, ReportsTyped
  <2>5. reported \subseteq reported'
    BY <1>1
  <2> QED
    BY <1>1, <1>3, <1>4, <2>2, <2>3, <2>4, <2>5, ClientSlots, OneCallReported
<1>8. PICK next \in Build :
        /\ builds' = [builds EXCEPT ![c] = next]
        /\ SameBuild(b, next)
        /\ next.step = b.step /\ next.sent
        /\ next.result = b.result /\ next.todo = b.todo
  BY <1>1, SendingOn
<1>9. ClientLater(c, next)
  <2>1. Reporting(next, call)
    BY <1>1, <1>2, <1>6, <1>8 DEF Reporting, SameBuild, Backed, request
  <2>2. Planned(next)
    BY <1>2, <1>8 DEF Planned, SameBuild
  <2>3. Backed(DOMAIN blobs, poisoned, reported, next)
    BY <1>2, <1>8 DEF Backed, SameBuild
  <2>4. Backed(DOMAIN blobs, poisoned, reported', next)
    BY <1>1, <2>3, BackedLater
  <2> QED
    BY <1>1, <1>3, <1>4, <1>5, <1>8, <2>1, <2>2, <2>4 DEF ClientLater, Linked
<1> QED
  BY <1>1, <1>4, <1>5, <1>7, <1>8, <1>9, OneClientMoves

\* What a build relies on, and plans, is the same while it sends its request.
LEMMA SendingKeepsBuild ==
    ASSUME NEW keys, NEW failed, NEW told, NEW b, NEW next,
           SameBuild(b, next), next.step = b.step, next.result = b.result, next.todo = b.todo
    PROVE  /\ Planned(b) => Planned(next)
           /\ Backed(keys, failed, told, b) => Backed(keys, failed, told, next)
BY DEF SameBuild, Planned, Backed

LEMMA AsksMissingKeeps ==
    ASSUME IInv, IInv', BuildInv, NEW c \in Clients, AsksMissing(c)
    PROVE  BuildInv'
<1> DEFINE b == builds[c]
<1>1. PICK request \in FindRequests :
        FindsAll(request, b.instance, b.todo) /\ FindArrives(c, request)
  BY DEF AsksMissing
<1>2. /\ b # Idle /\ b.step = "find" /\ Sent(c)
      /\ UNCHANGED <<reported, acknowledged, actions, writes, downloads>>
  BY DEF AsksMissing, About, Sent, streamVars
<1>3. /\ Planned(b) /\ Backed(DOMAIN blobs, poisoned, reported, b)
  BY <1>2, BuildFields
<1> DEFINE call == [status |-> "running", request |-> request, next |-> 1,
                    missing |-> << >>, before |-> DOMAIN blobs]
<1>4. finds' = [finds EXCEPT ![c] = call] /\ UNCHANGED storeVars
  <2>1. Admission(ResolvesFunction(request.function)) = "running"
    BY <1>1, Chosen DEF FindsAll, Admission
  <2> QED
    BY <1>1, <2>1 DEF FindArrives
<1>5. /\ StoreInv /\ CasTypeOK
      /\ StoreStep("cas") /\ StoreGrows /\ blobs' = blobs /\ poisoned' = poisoned
  BY <1>4, StoreRests DEF IInv
<1>6. finds'[c] \in FindCall
  BY <1>1, <1>5, ClientSlots, FindTypes
<1> HIDE DEF call
<1>7. OthersKeepCalls(c) /\ finds'[c] = call
  BY <1>2, <1>4, <1>5, FindTurns, BuildAssumption, ClientSlots
<1>8. ReportedInv'
  BY <1>2, <1>5, NothingReported DEF BuildInv
<1>9. PICK next \in Build :
        /\ builds' = [builds EXCEPT ![c] = next]
        /\ SameBuild(b, next)
        /\ next.step = b.step /\ next.sent
        /\ next.result = b.result /\ next.todo = b.todo
  BY <1>2, SendingOn
<1>10. ClientLater(c, next)
  <2>1. call.request = request /\ call.status = "running" /\ call.missing = << >>
    BY DEF call
  <2>2. Range(<< >>) = {}
    BY DEF Range
  <2>3. LooksFor(poisoned, next, call)
    BY <1>1, <1>9, <2>1, <2>2 DEF LooksFor, SameBuild
  <2>4. call # Idle
    BY <1>6, <1>7, IdleAssumption
  <2>5. Planned(next) /\ Backed(DOMAIN blobs, poisoned, reported, next)
    BY <1>3, <1>9, SendingKeepsBuild
  <2> QED
    BY <1>2, <1>5, <1>7, <1>9, <2>3, <2>4, <2>5 DEF ClientLater, Linked
<1> QED
  BY <1>2, <1>5, <1>7, <1>8, <1>9, <1>10, OneClientMoves

LEMMA UploadsKeeps ==
    ASSUME IInv, BuildInv, NEW c \in Clients, Uploads(c)
    PROVE  BuildInv'
<1> DEFINE b == builds[c]
           call == [status |-> "running", name |-> EmptyName, received |-> << >>,
                    committed |-> 0]
<1>1. /\ b # Idle /\ b.step = "upload" /\ Sent(c)
      /\ UNCHANGED <<reported, acknowledged, actions, finds, downloads>>
      /\ writes' = [writes EXCEPT ![c] = call] /\ UNCHANGED storeVars
  BY DEF Uploads, About, Sent, WriteOpens, casVars
<1>2. /\ Planned(b) /\ Backed(DOMAIN blobs, poisoned, reported, b)
  BY <1>1, BuildFields
<1>3. /\ StoreInv /\ StreamTypeOK
      /\ StoreStep("cas") /\ StoreGrows /\ blobs' = blobs /\ poisoned' = poisoned
  BY <1>1, StoreRests DEF IInv, StreamInv
<1>4. call \in WriteCall
  BY BytesAssumption DEF WriteCall, Status
<1>5. call.status = "running" /\ call.name = EmptyName /\ call.received = << >>
  OBVIOUS
<1> HIDE DEF call
<1>6. OthersKeepCalls(c) /\ writes'[c] = call
  BY <1>1, <1>3, WriteTurns, BuildAssumption, ClientSlots
<1>7. ReportedInv'
  BY <1>1, <1>3, NothingReported DEF BuildInv
<1>8. PICK next \in Build :
        /\ builds' = [builds EXCEPT ![c] = next]
        /\ SameBuild(b, next)
        /\ next.step = b.step /\ next.sent
        /\ next.result = b.result /\ next.todo = b.todo
  BY <1>1, SendingOn
<1>9. ClientLater(c, next)
  <2>1. call # Idle /\ Sending(poisoned, next, call)
    BY <1>4, <1>5, IdleAssumption DEF Sending
  <2>2. Planned(next) /\ Backed(DOMAIN blobs, poisoned, reported, next)
    BY <1>2, <1>8, SendingKeepsBuild
  <2> QED
    BY <1>1, <1>3, <1>6, <1>8, <2>1, <2>2 DEF ClientLater, Linked
<1> QED
  BY <1>1, <1>3, <1>6, <1>7, <1>8, <1>9, OneClientMoves

\* What the server makes of the name of a blob.
LEMMA NamedBlob ==
    ASSUME NEW instance \in Instances, NEW encoding \in Encoding,
           NEW digest, IsBlob(digest),
           NEW name, NamesBlob(name, instance, BlobOf(digest), encoding)
    PROVE  /\ ResourceKey(Parse(name)) = CasKey(instance, digest.hash)
           /\ Parse(name).hash = digest.hash
           /\ Parse(name).size = Len(BlobOf(digest)) /\ Len(BlobOf(digest)) \in Nat
           /\ Parse(name).compressed <=> encoding = "zstd"
           /\ ResourceEncoding(Parse(name)) = encoding
           /\ SupportedMethod(Parse(name))
<1>1. digest.hash = Hash(BlobOf(digest))
  BY OneBlob DEF DigestOfBlob
<1>2. /\ ResourceKey(Parse(name)) = CasKey(instance, digest.hash)
      /\ Parse(name).size = Len(BlobOf(digest))
      /\ SupportedMethod(Parse(name))
      /\ ResourceEncoding(Parse(name)) = encoding
  BY <1>1 DEF NamesBlob
<1>3. Parse(name).hash = digest.hash
  <2>1. ResourceKey(Parse(name)).hash = CasKey(instance, digest.hash).hash
    BY <1>2
  <2> QED
    BY <2>1 DEF ResourceKey, CasKey
<1>4. Parse(name).compressed <=> encoding = "zstd"
  BY <1>2 DEF ResourceEncoding
<1>5. Len(BlobOf(digest)) \in Nat
  BY OneBlob, BytesAreSequences
<1> QED
  BY <1>2, <1>3, <1>4, <1>5

LEMMA FetchesKeeps ==
    ASSUME IInv, BuildInv, NEW c \in Clients, Fetches(c)
    PROVE  BuildInv'
<1> DEFINE b == builds[c]
           digest == AnyOf(b.todo)
           request == DownloadRequestOf(b.instance, digest, b.encoding)
           call == [status |-> "running", request |-> request, chunks |-> << >>,
                    before |-> DOMAIN blobs]
<1>1. /\ b # Idle /\ b.step = "fetch" /\ Sent(c)
      /\ UNCHANGED <<reported, acknowledged, actions, finds, writes>>
      /\ DownloadArrives(c, request) /\ UNCHANGED storeVars
  BY DEF Fetches, About, Sent, DownloadArrives, casVars, NextBlob
<1>2. /\ Planned(b) /\ Backed(DOMAIN blobs, poisoned, reported, b)
      /\ b \in Build /\ b.instance \in Instances /\ b.encoding \in Encoding
      /\ b.target \in Targets
  BY <1>1, BuildFields
<1>3. /\ IsBlob(digest) /\ digest \in Outputs(b.result)
      /\ b.result \in Outcomes(b.target)
  BY <1>1, <1>2, NextOne
<1>4. /\ StoreInv /\ StreamTypeOK
      /\ StoreStep("cas") /\ StoreGrows /\ blobs' = blobs /\ poisoned' = poisoned
  BY <1>1, StoreRests DEF IInv, StreamInv
<1>5. request \in Downloads
  BY <1>2, <1>3, RequestsAssumption
<1>6. downloads'[c] \in DownloadCall
  BY <1>1, <1>4, <1>5, ClientSlots, DownloadTypes
<1>7. downloads' = [downloads EXCEPT ![c] = call]
  <2> DEFINE name == DownloadName(b.instance, digest, b.encoding)
  <2>1. request.name = name /\ request.limit = 0
    BY DEF DownloadRequestOf
  <2>2. NamesBlob(name, b.instance, BlobOf(digest), b.encoding) /\ ~Parse(name).upload
    BY <1>2, <1>3, BlobsAreNamed
  <2>3. Parses(name) /\ SupportedMethod(Parse(name))
    BY <2>2 DEF NamesBlob
  <2> HIDE DEF name, request
  <2>4. DownloadAdmission(request) = "running"
    BY <2>1, <2>2, <2>3 DEF DownloadAdmission, Admission
  <2> QED
    BY <1>1, <2>4 DEF DownloadArrives
<1>8. call.request = request /\ call.status = "running" /\ call.before = DOMAIN blobs
  OBVIOUS
<1> HIDE DEF call
<1>9. OthersKeepCalls(c) /\ downloads'[c] = call
  BY <1>1, <1>4, <1>7, DownloadTurns, BuildAssumption, ClientSlots
<1>10. ReportedInv'
  BY <1>1, <1>4, NothingReported DEF BuildInv
<1>11. PICK next \in Build :
        /\ builds' = [builds EXCEPT ![c] = next]
        /\ SameBuild(b, next)
        /\ next.step = b.step /\ next.sent
        /\ next.result = b.result /\ next.todo = b.todo
  BY <1>1, SendingOn
<1>12. ClientLater(c, next)
  <2>1. call # Idle
    BY <1>6, <1>9, IdleAssumption
  <2>2. Planned(next) /\ Backed(DOMAIN blobs, poisoned, reported, next)
    BY <1>2, <1>11, SendingKeepsBuild
  <2>3. Fetching(next, call)
    BY <1>1, <1>2, <1>3, <1>8, <1>11 DEF Fetching, SameBuild, Backed
  <2> QED
    BY <1>1, <1>4, <1>9, <1>11, <2>1, <2>2, <2>3 DEF ClientLater, Linked
<1> QED
  BY <1>1, <1>4, <1>9, <1>10, <1>11, <1>12, OneClientMoves

\* A lookup of FindMissingBlobs.
LEMMA FindingKeeps ==
    ASSUME IInv, BuildInv, NEW c \in Clients, Finding(c)
    PROVE  BuildInv'
<1> DEFINE call == finds[c]
           next == finds'[c]
<1>1. /\ FindStep(c) /\ UNCHANGED storeVars
      /\ UNCHANGED <<reported, acknowledged, builds, actions, writes, downloads>>
  BY DEF Finding, streamVars, buildVars, FindStep, FindEntry, FindReplies
<1>2. /\ StoreInv /\ CasTypeOK
      /\ StoreStep("cas") /\ StoreGrows /\ blobs' = blobs /\ poisoned' = poisoned
  BY <1>1, StoreRests DEF IInv
<1>3. next \in FindCall /\ call \in FindCall /\ call # Idle /\ call.status = "running"
  BY <1>1, <1>2, ClientSlots, FindTypes
     DEF CasTypeOK, FindStep, FindEntry, FindReplies, Running
<1>4. finds' = [finds EXCEPT ![c] = next]
  BY <1>1, <1>2, ClientSlots DEF FindStep, FindEntry, FindReplies, CasTypeOK
<1>5. /\ next.request = call.request
      /\ Range(call.missing) \subseteq Range(call.request.digests) =>
            Range(next.missing) \subseteq Range(next.request.digests)
      /\ next.status \in {"running", "Ok"} \/ poisoned
  <2> DEFINE digest == call.request.digests[call.next]
  <2>1. CASE FindReplies(c)
    <3>1. next = [call EXCEPT !.status = "Ok"]
      BY <1>2, <2>1, ClientSlots DEF FindReplies, CasTypeOK
    <3> QED
      BY <1>3, <3>1 DEF FindCall
  <2>2. CASE FindEntry(c)
    <3>1. next = FindOutcome(call, digest)
      BY <1>2, <2>2, ClientSlots DEF FindEntry, CasTypeOK
    <3>2. /\ call.request.digests \in Seq(Digest) /\ call.missing \in Seq(Digest)
          /\ call.next \in 1..Len(call.request.digests)
      BY <1>3, <2>2, CasRequestAssumption DEF FindEntry, FindCall, FindRequest
    <3>3. digest \in Range(call.request.digests) /\ digest \in Digest
      BY <3>2, RangeEquality
    <3>4. Range(Append(call.missing, digest)) = Range(call.missing) \cup {digest}
      BY <3>2, <3>3, RangeOfAppend
    <3> HIDE DEF digest
    <3>5. CASE poisoned
      <4>1. next = [call EXCEPT !.status = "Internal", !.missing = << >>]
        BY <3>1, <3>5 DEF FindOutcome
      <4>2. Range(<< >>) = {}
        BY DEF Range
      <4> QED
        BY <1>3, <3>5, <4>1, <4>2 DEF FindCall
    <3>6. CASE ~poisoned
      <4>1. next = Looked(call, digest, FindsBlob(call, digest))
        BY <3>1, <3>6 DEF FindOutcome
      <4>2. /\ next.request = call.request /\ next.status = call.status
            /\ next.missing = call.missing \/ next.missing = Append(call.missing, digest)
        BY <1>3, <4>1 DEF Looked, FindCall
      <4> QED
        BY <1>3, <3>3, <3>4, <4>2
    <3> QED
      BY <3>5, <3>6
  <2> QED
    BY <1>1, <2>1, <2>2 DEF FindStep
<1> HIDE DEF next
<1>6. OthersKeepCalls(c) /\ finds'[c] = next
  BY <1>1, <1>2, <1>4, FindTurns, BuildAssumption, ClientSlots
<1>7. ReportedInv'
  BY <1>1, <1>2, NothingReported DEF BuildInv
<1>8. ASSUME builds[c] # Idle
      PROVE  Linked(poisoned, builds[c], actions'[c], finds'[c], writes'[c], downloads'[c])
  <2>1. Linked(poisoned, builds[c], actions[c], finds[c], writes[c], downloads[c])
    BY <1>8, BuildFields
  <2>2. next # Idle
    BY <1>3, IdleAssumption DEF next
  <2> QED
    BY <1>1, <1>3, <1>5, <1>6, <2>1, <2>2 DEF Linked, LooksFor, FindsAll
<1> QED
  BY <1>1, <1>2, <1>6, <1>7, <1>8, CallMoves

\* ByteStream reads the blob.
LEMMA ReadingKeeps ==
    ASSUME IInv, BuildInv, NEW c \in Clients, Reading(c)
    PROVE  BuildInv'
<1> DEFINE call == downloads[c]
           next == downloads'[c]
<1>1. /\ DownloadReads(c) /\ UNCHANGED storeVars
      /\ UNCHANGED <<reported, acknowledged, builds, actions, finds, writes>>
  BY DEF Reading, casVars, buildVars, DownloadReads
<1>2. /\ StoreInv /\ StreamTypeOK
      /\ StoreStep("cas") /\ StoreGrows /\ blobs' = blobs /\ poisoned' = poisoned
  BY <1>1, StoreRests DEF IInv, StreamInv
<1>3. next \in DownloadCall /\ call \in DownloadCall /\ call # Idle
  BY <1>1, <1>2, ClientSlots, DownloadTypes DEF StreamTypeOK, DownloadReads, Running
<1>4. downloads' = [downloads EXCEPT ![c] = next]
  BY <1>1, <1>2, ClientSlots DEF DownloadReads, StreamTypeOK
<1>5. /\ next.request = call.request /\ next.before = call.before
      /\ next.status = DownloadOutcome(call.request)
  <2>1. PICK status, chunks : next = [call EXCEPT !.status = status, !.chunks = chunks]
                              /\ status = DownloadOutcome(call.request)
    BY <1>1, <1>2, ClientSlots DEF DownloadReads, StreamTypeOK
  <2> QED
    BY <1>3, <2>1 DEF DownloadCall
<1> HIDE DEF next
<1>6. OthersKeepCalls(c) /\ downloads'[c] = next
  BY <1>1, <1>2, <1>4, DownloadTurns, BuildAssumption, ClientSlots
<1>7. ReportedInv'
  BY <1>1, <1>2, NothingReported DEF BuildInv
<1>8. ASSUME builds[c] # Idle
      PROVE  Linked(poisoned, builds[c], actions'[c], finds'[c], writes'[c], downloads'[c])
  <2> DEFINE b == builds[c]
             digest == AnyOf(b.todo)
  <2>1. /\ Linked(poisoned, b, actions[c], finds[c], writes[c], downloads[c])
        /\ Planned(b) /\ b \in Build
        /\ b.instance \in Instances /\ b.encoding \in Encoding
    BY <1>8, BuildFields
  <2>2. ASSUME b.sent, b.step = "fetch"
        PROVE  Fetching(b, next)
    <3>1. Fetching(b, call)
      BY <1>3, <2>1, <2>2 DEF Linked
    <3>2. IsBlob(digest)
      BY <2>1, <2>2, NextOne
    <3>3. DownloadOutcome(call.request) \in {"Ok", "NotFound", "Internal"}
      <4> DEFINE request == call.request
      <4>1. /\ request.name = DownloadName(b.instance, digest, b.encoding)
            /\ request.offset = 0 /\ request.limit = 0
        BY <3>1 DEF Fetching, DownloadRequestOf
      <4>2. Parse(request.name).size \in Nat
        BY <2>1, <3>2, <4>1, BlobsAreNamed, NamedBlob
      <4> HIDE DEF request
      <4>3. request.offset \in 0..Parse(request.name).size /\ ~(request.limit < 0)
        BY <4>1, <4>2
      <4>4. DownloadOutcome(request) \in {"Ok", "NotFound", "Internal"}
        BY <4>3 DEF DownloadOutcome
      <4> QED
        BY <4>4 DEF request
    <3> QED
      BY <1>5, <3>1, <3>3 DEF Fetching
  <2>3. next # Idle
    BY <1>3, IdleAssumption DEF next
  <2> QED
    BY <1>1, <1>6, <2>1, <2>2, <2>3 DEF Linked
<1> QED
  BY <1>1, <1>2, <1>6, <1>7, <1>8, CallMoves

\* The empty name is none.
LEMMA EmptyNameFails == ~Parses(EmptyName)
<1>1. Len(EmptyName) = 1
  BY DEF EmptyName
<1>2. EmptyName[1] = ""
  BY DEF EmptyName
<1>3. "" \notin Markers
  BY DEF Markers
<1>4. ASSUME NEW i \in 1..Len(EmptyName)
      PROVE  EmptyName[i] \notin Markers
  <2>1. i = 1
    BY <1>1, <1>4
  <2> QED
    BY <1>2, <1>3, <2>1
<1>5. {i \in 1..Len(EmptyName) : EmptyName[i] \in Markers} = {}
  BY <1>4
<1>6. MarkerIndex(EmptyName) = 0
  BY <1>5 DEF MarkerIndex, SeqExt!SelectInSeq
<1> QED
  BY <1>6 DEF Parses

\* The one message of an upload is accepted, unless the store is broken.
LEMMA MessageAccepted ==
    ASSUME IInv, NEW instance \in Instances, NEW encoding \in Encoding,
           NEW digest, IsBlob(digest),
           BlobMessage(instance, digest, encoding) \in WriteChunks,
           NEW c \in WriteCalls, Running(writes[c]),
           writes[c].name = EmptyName, writes[c].received = << >>
    PROVE  LET chunk == BlobMessage(instance, digest, encoding)
               call == Extended(writes[c], chunk)
           IN  /\ Fits(writes[c], chunk) /\ chunk.finish
               /\ call.name = UploadName(instance, digest, encoding)
               /\ SupportedMethod(Parse(call.name))
               /\ WriteVerifies(call)
               /\ CanStore(WriteIdentity(call))
<1> DEFINE b == BlobOf(digest)
           name == UploadName(instance, digest, encoding)
           data == OnTheWire(b, encoding)
           chunk == BlobMessage(instance, digest, encoding)
           call == Extended(writes[c], chunk)
<1>1. /\ b \in Bytes /\ CanStore(b) /\ digest.hash = Hash(b)
      /\ b \in Seq(Byte) /\ Len(b) \in Nat
  BY OneBlob, BytesAreSequences DEF DigestOfBlob
<1>2. NamesBlob(name, instance, b, encoding) /\ Parse(name).upload
  BY BlobsAreNamed
<1>3. /\ Parse(name).hash = Hash(b) /\ Parse(name).size = Len(b)
      /\ ResourceEncoding(Parse(name)) = encoding
      /\ SupportedMethod(Parse(name)) /\ Parses(name)
  BY <1>1, <1>2, NamedBlob DEF NamesBlob
<1>4. chunk.name = name /\ chunk.offset = 0 /\ chunk.data = data /\ chunk.finish
  BY DEF BlobMessage
<1>5. data \in Bytes
  BY <1>4, StreamAssumption DEF WriteChunk
<1> HIDE DEF chunk
<1>6. Fits(writes[c], chunk)
  BY <1>2, <1>3, <1>4, EmptyNameFails DEF Fits, NamedAsExpected
<1>7. writes[c] \in WriteCall
  BY DEF IInv, StreamInv, StreamTypeOK, Running
<1>8. << >> \o data = data
  BY <1>5, BytesAreSequences
<1>9. call.name = name /\ call.received = data
  BY <1>4, <1>7, <1>8 DEF Extended, WriteCall
<1>10. Len(b) <= MaxDecompressedSize
  BY <1>1 DEF CanStore, CanTranscode, IdentityBlob, EncodedBlob
<1> DEFINE blob == EncodedBlob(data, encoding, Len(b))
<1>11. CanDecode(blob) /\ IdentityData(blob) = b
  <2>1. /\ blob.encoding = encoding /\ blob.data = data
        /\ blob.uncompressed_size = Len(b)
    BY DEF EncodedBlob
  <2>2. CASE encoding = "identity"
    <3>1. data = b
      BY <2>2 DEF OnTheWire
    <3> QED
      BY <1>10, <2>1, <2>2, <3>1 DEF CanDecode, CanTranscode, IdentityData, Transcode
  <2>3. CASE encoding = "zstd"
    <3>1. data = Compress(b)
      BY <2>3 DEF OnTheWire
    <3>2. Decompress(data) = b /\ b # CorruptFrame
      BY <1>1, <3>1, CodecAssumption, CorruptFrameAssumption
    <3> HIDE DEF data
    <3>3. DecompressesTo(blob.data, blob.uncompressed_size)
      BY <2>1, <3>2 DEF DecompressesTo
    <3>4. Transcode(blob, "identity").data = b
      BY <2>1, <2>3, <3>2 DEF Transcode, EncodedBlob
    <3> QED
      BY <1>10, <2>1, <2>3, <3>3, <3>4 DEF CanDecode, CanTranscode, IdentityData
  <2> QED
    BY <2>2, <2>3 DEF Encoding
<1> HIDE DEF call, blob, data
<1>12. WriteVerifies(call)
  <2>1. VerifiedUpload(Hash(b), Len(b), data, encoding)
    BY <1>1, <1>11 DEF VerifiedUpload, Validates, blob
  <2> QED
    BY <1>3, <1>9, <2>1 DEF WriteVerifies
<1>13. WriteIdentity(call) = b
  BY <1>3, <1>9, <1>11 DEF WriteIdentity, blob
<1> QED
  BY <1>1, <1>3, <1>4, <1>6, <1>9, <1>12, <1>13 DEF call, chunk

\* The upload is committed, or refused by a broken store.
LEMMA SendsBlobKeeps ==
    ASSUME IInv, BuildInv, NEW c \in Clients, SendsBlob(c)
    PROVE  BuildInv'
<1> DEFINE b == builds[c]
           digest == AnyOf(b.todo)
           chunk == BlobMessage(b.instance, digest, b.encoding)
           call == Extended(writes[c], chunk)
           next == writes'[c]
<1>1. /\ b # Idle /\ b.step = "upload" /\ b.sent
      /\ UNCHANGED <<reported, acknowledged, builds, actions, finds>>
      /\ WriteReceives(c, chunk) \/ WriteRejects(c, chunk) \/ WriteCommits(c, chunk)
  BY DEF SendsBlob, Awaits, NextMessage, NextBlob, casVars, buildVars
<1>2. /\ Running(writes[c]) /\ UNCHANGED downloads
  BY <1>1 DEF WriteReceives, WriteRejects, WriteCommits, Finishes, WriteFails, WriteEnds
<1>3. /\ Planned(b) /\ b \in Build /\ b.instance \in Instances /\ b.encoding \in Encoding
      /\ b.target \in Targets
      /\ Linked(poisoned, b, actions[c], finds[c], writes[c], downloads[c])
  BY <1>1, BuildFields
<1>4. /\ IsBlob(digest) /\ digest \in Uploadable(b.target, b.result)
      /\ b.result \in Outcomes(b.target)
  BY <1>1, <1>3, NextOne
<1>5. chunk \in WriteChunks
  BY <1>3, <1>4, RequestsAssumption
<1>6. writes[c].name = EmptyName /\ writes[c].received = << >>
  BY <1>1, <1>2, <1>3 DEF Linked, Sending, Running
<1>7. /\ StoreInv /\ StreamInv /\ StreamTypeOK /\ writes[c] \in WriteCall
      /\ c \in WriteCalls
  BY <1>2, ClientSlots DEF IInv, StreamInv, StreamTypeOK, Running
<1>8. /\ Fits(writes[c], chunk) /\ chunk.finish
      /\ call.name = UploadName(b.instance, digest, b.encoding)
      /\ SupportedMethod(Parse(call.name))
      /\ WriteVerifies(call)
      /\ CanStore(WriteIdentity(call))
  BY <1>2, <1>3, <1>4, <1>5, <1>6, <1>7, MessageAccepted
<1> HIDE DEF call, chunk
<1>9. \/ WriteFails(c, "Internal") /\ poisoned
      \/ WriteCommits(c, chunk)
  BY <1>1, <1>8 DEF WriteReceives, WriteRejects, call
<1>10. /\ StoreStep("cas") /\ StoreGrows /\ poisoned' = poisoned
       /\ next \in WriteCall
       /\ writes' = [writes EXCEPT ![c] = next]
       /\ Sending(poisoned, b, next)
  <2>1. CASE WriteFails(c, "Internal") /\ poisoned
    <3>1. UNCHANGED storeVars /\ next \in WriteCall
      BY <1>2, <1>7, <2>1, WriteFailsInv DEF Code
    <3>2. next = [writes[c] EXCEPT !.status = "Internal", !.received = << >>]
      BY <1>7, <2>1 DEF WriteFails, WriteEnds, StreamTypeOK
    <3>3. next.status = "Internal"
      BY <1>7, <3>2 DEF WriteCall
    <3>4. writes' = [writes EXCEPT ![c] = next]
      BY <1>7, <2>1, <3>2 DEF WriteFails, WriteEnds
    <3> QED
      BY <1>7, <2>1, <3>1, <3>3, <3>4, StoreRests DEF Sending
  <2>2. CASE WriteCommits(c, chunk)
    <3>1. StoreStep("cas") /\ next \in WriteCall
      BY <1>5, <1>7, <2>2, WritePutsGoodEntry
    <3>2. StoreGrows /\ poisoned' = poisoned
      BY <1>7, <2>2, <3>1, StoreStepGrows DEF WriteCommits, Put
    <3>3. next = [call EXCEPT !.status = "Ok", !.committed = Len(call.received)]
      BY <1>7, <2>2 DEF WriteCommits, StreamTypeOK, call
    <3>4. call \in WriteCall
      BY <1>2, <1>5, <1>7, <2>2, ExtendedType DEF WriteCommits, Finishes, call
    <3>5. next.status = "Ok" /\ next.name = call.name
      BY <3>3, <3>4 DEF WriteCall
    <3>6. writes' = [writes EXCEPT ![c] = next]
      BY <1>7, <2>2, <3>3 DEF WriteCommits, call
    <3> QED
      BY <1>8, <3>1, <3>2, <3>5, <3>6 DEF Sending
  <2> QED
    BY <1>9, <2>1, <2>2
<1> HIDE DEF next
<1>11. OthersKeepCalls(c) /\ writes'[c] = next
  BY <1>1, <1>2, <1>7, <1>10, WriteTurns, BuildAssumption
<1>12. ReportedInv'
  BY <1>1, <1>7, <1>10, NothingReported DEF BuildInv
<1>13. Linked(poisoned, b, actions'[c], finds'[c], writes'[c], downloads'[c])
  <2>1. next # Idle
    BY <1>10, IdleAssumption
  <2> QED
    BY <1>1, <1>10, <1>11, <2>1 DEF Linked
<1> QED
  BY <1>1, <1>10, <1>11, <1>12, <1>13, CallMoves

\* A deadline cuts an upload off.
LEMMA TimesOutKeeps ==
    ASSUME IInv, BuildInv, NEW c \in Clients, TimesOut(c)
    PROVE  BuildInv'
<1>1. /\ builds[c] # Idle /\ GivesUpFor(c, TRUE)
      /\ UNCHANGED <<reported, acknowledged, actions, finds, downloads>>
      /\ writes' = [writes EXCEPT ![c] = Idle] /\ UNCHANGED storeVars
  BY DEF TimesOut, Awaits, WriteBreaks, WriteEnds, casVars
<1>2. /\ StoreInv /\ StreamTypeOK
      /\ StoreStep("cas") /\ StoreGrows /\ blobs' = blobs /\ poisoned' = poisoned
  BY <1>1, StoreRests DEF IInv, StreamInv
<1>3. OthersKeepCalls(c)
  BY <1>1, <1>2, WriteTurns, BuildAssumption, ClientSlots
<1>4. ReportedInv'
  BY <1>1, <1>2, NothingReported DEF BuildInv
<1> QED
  BY <1>1, <1>2, <1>3, <1>4, GivingUp

\* A call that is gone went down with something.
LEMMA IsCutOffKeeps ==
    ASSUME IInv, BuildInv, NEW c \in Clients, IsCutOff(c)
    PROVE  BuildInv'
<1>1. /\ builds[c] # Idle /\ GivesUp(c)
      /\ UNCHANGED <<reported, acknowledged, actions, finds, writes, downloads>>
      /\ UNCHANGED storeVars
  BY DEF IsCutOff, Awaits, vars, casVars, streamVars
<1>2. /\ StoreInv
      /\ StoreStep("cas") /\ StoreGrows /\ blobs' = blobs /\ poisoned' = poisoned
  BY <1>1, StoreRests DEF IInv
<1>3. builds[c].disturbed
  <2>1. Linked(poisoned, builds[c], actions[c], finds[c], writes[c], downloads[c])
    BY <1>1, BuildFields
  <2> QED
    BY <2>1 DEF Linked, IsCutOff, Awaits
<1>4. OthersKeepCalls(c)
  BY <1>1 DEF OthersKeepCalls
<1>5. ReportedInv'
  BY <1>1, <1>2, NothingReported DEF BuildInv
<1> QED
  BY <1>1, <1>2, <1>3, <1>4, <1>5, GivingUp

\* A build goes on to the next of its uploads, or to its report.
LEMMA HasUploadedKeeps ==
    ASSUME IInv, BuildInv, NEW c \in Clients, HasUploaded(c)
    PROVE  BuildInv'
<1> DEFINE b == builds[c]
           digest == AnyOf(b.todo)
           others == b.todo \ {digest}
<1>1. /\ b # Idle /\ b.step = "upload" /\ b.sent /\ Replied(writes[c])
      /\ UNCHANGED <<reported, acknowledged, actions, finds, downloads>>
      /\ writes' = [writes EXCEPT ![c] = Idle] /\ UNCHANGED storeVars
      /\ IF writes[c].status # "Ok" THEN GivesUp(c)
         ELSE IF others = {} THEN Proceeds(c, "report", b.result, {})
         ELSE Proceeds(c, "upload", b.result, others)
  BY DEF HasUploaded, Awaits, WriteEnds, casVars, OtherBlobs, NextBlob, MovesOn
<1>2. /\ Planned(b) /\ Backed(DOMAIN blobs, poisoned, reported, b)
      /\ b \in Build /\ b.instance \in Instances /\ b.encoding \in Encoding
      /\ b.target \in Targets
      /\ Linked(poisoned, b, actions[c], finds[c], writes[c], downloads[c])
  BY <1>1, BuildFields
<1>3. /\ IsBlob(digest) /\ digest \in b.todo
      /\ b.result \in Outcomes(b.target)
      /\ b.todo \subseteq Uploadable(b.target, b.result)
  BY <1>1, <1>2, NextOne DEF Planned
<1>4. /\ StoreInv /\ StreamTypeOK /\ WriteSound
      /\ StoreStep("cas") /\ StoreGrows /\ blobs' = blobs /\ poisoned' = poisoned
  BY <1>1, StoreRests, TransfersInvImplies DEF IInv, StreamInv
<1>5. OthersKeepCalls(c)
  BY <1>1, <1>4, WriteTurns, BuildAssumption, ClientSlots
<1>6. ReportedInv'
  BY <1>1, <1>4, NothingReported DEF BuildInv
<1>7. \/ poisoned
      \/ /\ writes[c].status = "Ok"
         /\ writes[c].name = UploadName(b.instance, digest, b.encoding)
  BY <1>1, <1>2 DEF Linked, Sending, Replied
<1>8. CASE writes[c].status # "Ok"
  <2>1. b.disturbed
    BY <1>2, <1>7, <1>8 DEF Backed
  <2> QED
    BY <1>1, <1>4, <1>5, <1>6, <1>8, <2>1, GivingUp
<1>9. CASE writes[c].status = "Ok"
  <2>1. b.disturbed \/ CasKey(b.instance, digest.hash) \in DOMAIN blobs
    <3> SUFFICES ASSUME ~b.disturbed PROVE CasKey(b.instance, digest.hash) \in DOMAIN blobs
      OBVIOUS
    <3>1. ~poisoned
      BY <1>2 DEF Backed
    <3>2. writes[c].name = UploadName(b.instance, digest, b.encoding)
      BY <1>7, <3>1
    <3>3. ResourceKey(Parse(writes[c].name)) = CasKey(b.instance, digest.hash)
      BY <1>2, <1>3, <3>2, BlobsAreNamed, NamedBlob
    <3>4. RepliedOk(writes[c]) /\ c \in WriteCalls
      BY <1>1, <1>9, ClientSlots DEF RepliedOk, Replied
    <3>5. Contains(ResourceKey(Parse(writes[c].name)))
      BY <1>4, <3>4 DEF WriteSound
    <3> QED
      BY <3>3, <3>5 DEF Contains
  <2>2. others \in SUBSET Digest /\ b.result \in ActionResult
    BY <1>2, <1>3, MovesBlobs
  <2> DEFINE step == IF others = {} THEN "report" ELSE "upload"
  <2>3. Proceeds(c, step, b.result, others)
    BY <1>1, <1>9
  <2>4. step \in {"report", "upload"}
    OBVIOUS
  <2>5. PICK next \in Build :
          /\ builds' = [builds EXCEPT ![c] = next]
          /\ SameBuild(b, next)
          /\ next.step = step /\ ~next.sent
          /\ next.result = b.result /\ next.todo = others
    BY <1>1, <2>2, <2>3, <2>4, GoingOn
  <2>6. Planned(next)
    BY <1>1, <1>2, <1>3, <2>5 DEF Planned, SameBuild
  <2>7. Backed(DOMAIN blobs, poisoned, reported, next)
    <3> SUFFICES ASSUME ~b.disturbed
                 PROVE  Backed(DOMAIN blobs, poisoned, reported, next)
      BY <2>5 DEF Backed, SameBuild
    <3>1. \A other \in Uploadable(b.target, b.result) \ others :
              CasKey(b.instance, other.hash) \in DOMAIN blobs
      BY <1>1, <1>2, <2>1 DEF Backed
    <3> HIDE DEF others
    <3> QED
      BY <1>2, <2>4, <2>5, <3>1 DEF Backed, SameBuild
  <2>8. ClientLater(c, next)
    BY <1>1, <1>4, <2>5, <2>6, <2>7 DEF ClientLater, Linked
  <2> QED
    BY <1>1, <1>4, <1>5, <1>6, <2>5, <2>8, OneClientMoves
<1> QED
  BY <1>8, <1>9

\* What FindMissingBlobs does not list is there.
LEMMA LearnsMissingKeeps ==
    ASSUME IInv, BuildInv, NEW c \in Clients, LearnsMissing(c)
    PROVE  BuildInv'
<1> DEFINE b == builds[c]
           call == finds[c]
           missing == Range(call.missing)
           step == IF call.missing = << >> THEN "report" ELSE "upload"
<1>1. /\ b # Idle /\ b.step = "find" /\ b.sent /\ Replied(call)
      /\ UNCHANGED <<reported, acknowledged, actions, writes, downloads>>
      /\ finds' = [finds EXCEPT ![c] = Idle] /\ UNCHANGED storeVars
      /\ IF call.status # "Ok" THEN GivesUp(c) ELSE Proceeds(c, step, b.result, missing)
  BY DEF LearnsMissing, Awaits, streamVars
<1>2. /\ Planned(b) /\ Backed(DOMAIN blobs, poisoned, reported, b)
      /\ b \in Build /\ b.instance \in Instances /\ b.target \in Targets
      /\ Linked(poisoned, b, actions[c], finds[c], writes[c], downloads[c])
  BY <1>1, BuildFields
<1>3. /\ b.result \in Outcomes(b.target) /\ b.todo = Uploadable(b.target, b.result)
  BY <1>1, <1>2 DEF Planned
<1>4. /\ StoreInv /\ CasTypeOK /\ FindMissingSound
      /\ StoreStep("cas") /\ StoreGrows /\ blobs' = blobs /\ poisoned' = poisoned
  BY <1>1, StoreRests, AnswersInvImplies DEF IInv
<1>5. OthersKeepCalls(c)
  BY <1>1, <1>4, FindTurns, BuildAssumption, ClientSlots
<1>6. ReportedInv'
  BY <1>1, <1>4, NothingReported DEF BuildInv
<1>7. LooksFor(poisoned, b, call)
  BY <1>1, <1>2 DEF Linked, Replied
<1>8. CASE call.status # "Ok"
  <2>1. b.disturbed
    BY <1>1, <1>2, <1>7, <1>8 DEF Backed, LooksFor, Replied
  <2> QED
    BY <1>1, <1>4, <1>5, <1>6, <1>8, <2>1, GivingUp
<1>9. CASE call.status = "Ok"
  <2>1. /\ call.request.instance = b.instance /\ Range(call.request.digests) = b.todo
        /\ missing \subseteq b.todo
    BY <1>7 DEF LooksFor, FindsAll
  <2>2. \A digest \in b.todo \ missing : CasKey(b.instance, digest.hash) \in DOMAIN blobs
    <3>1. RepliedOk(call) /\ c \in FindCalls
      BY <1>1, <1>9, ClientSlots DEF RepliedOk, Replied
    <3> QED
      BY <1>4, <2>1, <3>1 DEF FindMissingSound, Contains
  <2>3. missing \in SUBSET Digest /\ b.result \in ActionResult
    BY <1>2, <1>3, <2>1, MovesBlobs
  <2>4. call.missing = << >> <=> missing = {}
    <3>1. call.missing \in Seq(Digest)
      BY <1>1, <1>4, ClientSlots DEF CasTypeOK, Replied, FindCall
    <3> HIDE DEF call
    <3>2. Range(call.missing) = {call.missing[i] : i \in 1..Len(call.missing)}
      BY <3>1 DEF Range
    <3>3. CASE call.missing = << >>
      BY <3>2, <3>3
    <3>4. CASE call.missing # << >>
      <4>1. 1 \in 1..Len(call.missing)
        BY <3>1, <3>4
      <4> QED
        BY <3>2, <3>4, <4>1
    <3> QED
      BY <3>3, <3>4
  <2>5. Proceeds(c, step, b.result, missing)
    BY <1>1, <1>9
  <2>6. \/ step = "report" /\ missing = {}
        \/ step = "upload" /\ missing # {}
    BY <2>4
  <2> HIDE DEF step, missing
  <2>7. PICK next \in Build :
          /\ builds' = [builds EXCEPT ![c] = next]
          /\ SameBuild(b, next)
          /\ next.step = step /\ ~next.sent
          /\ next.result = b.result /\ next.todo = missing
    BY <1>1, <2>3, <2>5, <2>6, GoingOn
  <2>8. Planned(next)
    BY <1>1, <1>2, <1>3, <2>1, <2>6, <2>7 DEF Planned, SameBuild
  <2>9. Backed(DOMAIN blobs, poisoned, reported, next)
    BY <1>2, <1>3, <2>2, <2>6, <2>7 DEF Backed, SameBuild
  <2>10. ClientLater(c, next)
    BY <1>1, <1>4, <2>7, <2>8, <2>9 DEF ClientLater, Linked
  <2> QED
    BY <1>1, <1>4, <1>5, <1>6, <2>7, <2>10, OneClientMoves
<1> QED
  BY <1>8, <1>9

\* What an undisturbed build fetches is there, and what it gets is the blob.
LEMMA HasFetchedKeeps ==
    ASSUME IInv, BuildInv, NEW c \in Clients, HasFetched(c)
    PROVE  BuildInv'
<1> DEFINE b == builds[c]
           digest == AnyOf(b.todo)
           others == b.todo \ {digest}
           call == downloads[c]
           blob == BlobOf(digest)
           name == call.request.name
           bytes == SeqExt!FlattenSeq(call.chunks)
<1>1. /\ b # Idle /\ b.step = "fetch" /\ b.sent /\ Replied(call)
      /\ UNCHANGED <<reported, acknowledged, actions, finds, writes>>
      /\ downloads' = [downloads EXCEPT ![c] = Idle] /\ UNCHANGED storeVars
      /\ IF call.status # "Ok" \/ bytes # OnTheWire(blob, b.encoding) THEN GivesUp(c)
         ELSE IF others = {} THEN Succeeds(c)
         ELSE Proceeds(c, "fetch", b.result, others)
  BY DEF HasFetched, Awaits, casVars, OtherBlobs, NextBlob, MovesOn
<1>2. /\ Planned(b) /\ Backed(DOMAIN blobs, poisoned, reported, b)
      /\ b \in Build /\ b.instance \in Instances /\ b.encoding \in Encoding
      /\ b.target \in Targets
      /\ Linked(poisoned, b, actions[c], finds[c], writes[c], downloads[c])
  BY <1>1, BuildFields
<1>3. /\ IsBlob(digest) /\ digest \in b.todo
      /\ b.result \in Outcomes(b.target)
      /\ b.todo \subseteq Outputs(b.result)
  BY <1>1, <1>2, NextOne DEF Planned
<1>4. /\ StoreInv /\ StreamTypeOK /\ DownloadSound
      /\ StoreStep("cas") /\ StoreGrows /\ blobs' = blobs /\ poisoned' = poisoned
  BY <1>1, StoreRests, TransfersInvImplies DEF IInv, StreamInv
<1>5. OthersKeepCalls(c)
  BY <1>1, <1>4, DownloadTurns, BuildAssumption, ClientSlots
<1>6. ReportedInv'
  BY <1>1, <1>4, NothingReported DEF BuildInv
<1>7. Fetching(b, call)
  BY <1>1, <1>2 DEF Linked, Replied
<1>8. /\ name = DownloadName(b.instance, digest, b.encoding)
      /\ call.request.offset = 0 /\ call.request.limit = 0
  BY <1>7 DEF Fetching, DownloadRequestOf
<1>9. /\ ResourceKey(Parse(name)) = CasKey(b.instance, digest.hash)
      /\ Parse(name).hash = digest.hash
      /\ Parse(name).size = Len(blob)
      /\ Parse(name).compressed <=> b.encoding = "zstd"
  BY <1>2, <1>3, <1>8, BlobsAreNamed, NamedBlob
<1>10. /\ blob \in Bytes /\ Hash(blob) = digest.hash
       /\ \A x \in Bytes : Hash(x) = digest.hash => x = blob
  BY <1>3, OneBlob DEF DigestOfBlob
<1>11. c \in DownloadCalls
  BY ClientSlots
<1>12. ASSUME call.status = "Ok"
       PROVE  bytes = OnTheWire(blob, b.encoding)
  <2>1. PICK x \in Bytes :
          /\ Hash(x) = Parse(name).hash
          /\ bytes = IF Parse(name).compressed THEN Compress(Wanted(x, 0, 0))
                                               ELSE Wanted(x, 0, 0)
    BY <1>1, <1>4, <1>8, <1>11, <1>12 DEF DownloadSound, RepliedOk, Replied
  <2>2. x = blob /\ x \in Seq(Byte)
    BY <1>9, <1>10, <2>1, BytesAreSequences
  <2>3. SubSeq(x, 1, Len(x)) = x
    BY <2>2
  <2>4. Wanted(x, 0, 0) = x
    BY <2>3 DEF Wanted
  <2> HIDE DEF bytes
  <2> QED
    BY <1>9, <2>1, <2>2, <2>4 DEF OnTheWire
<1>13. ASSUME call.status # "Ok"
       PROVE  b.disturbed
  <2>1. call.status \in {"NotFound", "Internal"}
    BY <1>1, <1>7, <1>13 DEF Fetching, Replied
  <2>2. CASE call.status = "NotFound"
    <3>1. ResourceKey(Parse(name)) \notin call.before
      BY <1>1, <1>4, <1>9, <1>10, <1>11, <2>2 DEF DownloadSound
    <3> QED
      BY <1>7, <1>9, <3>1 DEF Fetching
  <2>3. CASE call.status = "Internal"
    <3>1. poisoned
      BY <1>1, <1>4, <1>11, <2>3 DEF DownloadSound
    <3> QED
      BY <1>2, <3>1 DEF Backed
  <2> QED
    BY <2>1, <2>2, <2>3
<1>14. CASE call.status # "Ok"
  <2>1. GivesUp(c)
    BY <1>1, <1>14
  <2> QED
    BY <1>1, <1>4, <1>5, <1>6, <1>13, <1>14, <2>1, GivingUp
<1>15. CASE call.status = "Ok" /\ others = {}
  BY <1>1, <1>4, <1>5, <1>6, <1>12, <1>15, Succeeding
<1>16. CASE call.status = "Ok" /\ others # {}
  <2>1. Proceeds(c, "fetch", b.result, others)
    BY <1>1, <1>12, <1>16
  <2>2. others \in SUBSET Digest /\ b.result \in ActionResult
    BY <1>2, <1>3, MovesBlobs
  <2>3. PICK next \in Build :
          /\ builds' = [builds EXCEPT ![c] = next]
          /\ SameBuild(b, next)
          /\ next.step = "fetch" /\ ~next.sent
          /\ next.result = b.result /\ next.todo = others
    BY <1>1, <2>1, <2>2, GoingOn
  <2>4. Planned(next)
    BY <1>1, <1>2, <1>3, <1>16, <2>3 DEF Planned, SameBuild
  <2>5. Backed(DOMAIN blobs, poisoned, reported, next)
    BY <1>1, <1>2, <2>3 DEF Backed, SameBuild
  <2>6. ClientLater(c, next)
    BY <1>1, <1>4, <2>3, <2>4, <2>5 DEF ClientLater, Linked
  <2> QED
    BY <1>1, <1>4, <1>5, <1>6, <2>3, <2>6, OneClientMoves
<1> QED
  BY <1>14, <1>15, <1>16

\* The store has one blob for a digest, the one the client means.
LEMMA StoredAsMeant ==
    ASSUME StoreInv, NEW digest, IsBlob(digest), NEW instance,
           CasKey(instance, digest.hash) \in DOMAIN blobs
    PROVE  /\ Holds(Contents, instance, digest)
           /\ Contents[<<instance, digest.hash>>] = BlobOf(digest)
<1>1. /\ <<instance, digest.hash>> \in DOMAIN Contents
      /\ Contents[<<instance, digest.hash>>]
            = IdentityData(blobs[CasKey(instance, digest.hash)])
      /\ Contents[<<instance, digest.hash>>] \in Bytes
  BY ContentsOfKeys DEF ContentsMatch, Contains, Get
<1>2. Hash(IdentityData(blobs[CasKey(instance, digest.hash)])) = digest.hash
  BY DEF StoreInv, CasKey
<1> QED
  BY <1>1, <1>2, OneBlob DEF Holds

\* The files that a CAS with the trees of a result needs are those the client
\* knows of.
LEMMA FilesAsMeant ==
    ASSUME StoreInv, NEW target \in Targets, NEW result \in Outcomes(target),
           NEW instance,
           \A tree \in Range(result.trees) : CasKey(instance, tree.hash) \in DOMAIN blobs
    PROVE  /\ TreesReadable(Contents, instance, result)
           /\ Outputs(result) =
                 NeededFiles(Contents, instance, result) \cup Range(result.trees)
<1>1. \A tree \in Range(result.trees) :
          /\ Holds(Contents, instance, tree)
          /\ TreeAt(Contents, instance, tree) = DecodeTree(BlobOf(tree))
  BY BuildAssumption, StoredAsMeant DEF IsMessage, TreeAt
<1>2. TreesReadable(Contents, instance, result)
  BY <1>1, BuildAssumption DEF TreesReadable
<1>3. UNION {Range(TreeAt(Contents, instance, tree).files) : tree \in Range(result.trees)}
      = UNION {Range(DecodeTree(BlobOf(tree)).files) : tree \in Range(result.trees)}
  BY <1>1
<1> QED
  BY <1>2, <1>3 DEF Outputs, NeededFiles

\* A complete result has all its outputs in the store.
LEMMA OutputsStored ==
    ASSUME StoreInv, NEW target \in Targets, NEW result \in Outcomes(target),
           NEW instance, Complete(Contents, instance, result)
    PROVE  \A digest \in Outputs(result) : CasKey(instance, digest.hash) \in DOMAIN blobs
<1>1. ASSUME NEW digest, Holds(Contents, instance, digest)
      PROVE  CasKey(instance, digest.hash) \in DOMAIN blobs
  BY <1>1, ContentsOfKeys DEF Holds, ContentsMatch, Contains
<1>2. \A tree \in Range(result.trees) : CasKey(instance, tree.hash) \in DOMAIN blobs
  BY <1>1 DEF Complete, TreesReadable
<1>3. Outputs(result) = NeededFiles(Contents, instance, result) \cup Range(result.trees)
  BY <1>2, FilesAsMeant
<1> QED
  BY <1>1, <1>2, <1>3 DEF Complete

\* A client takes the answer of its action cache call.
LEMMA AnswerTaken ==
    ASSUME IInv, BuildInv, NEW c \in Clients, ActionReturns(c),
           UNCHANGED <<finds, writes, downloads, reported>>
    PROVE  /\ StoreInv /\ StoreGrows /\ blobs' = blobs /\ poisoned' = poisoned
           /\ OthersKeepCalls(c)
           /\ ReportsTyped' /\ CacheReported' /\ CallsReported'
           /\ UNCHANGED acknowledged => ReportedInv'
<1>1. /\ actions' = [actions EXCEPT ![c] = Idle] /\ UNCHANGED storeVars
  BY DEF ActionReturns, Becomes
<1>2. /\ StoreInv /\ ActionTypeOK
      /\ StoreStep("cas") /\ StoreGrows /\ blobs' = blobs /\ poisoned' = poisoned
  BY <1>1, StoreRests DEF IInv, ActionInv
<1>3. OthersKeepCalls(c)
  BY <1>1, <1>2, ActionTurns, BuildAssumption, ClientSlots
<1>4. ReportedInv
  BY DEF BuildInv
<1>5. ReportsTyped' /\ CacheReported'
  BY <1>2, <1>4 DEF ReportedInv, ReportsTyped, CacheReported, Get
<1>6. CallsReported'
  BY <1>1, <1>2, <1>4 DEF ReportedInv, CallsReported, ActionTypeOK
<1>7. UNCHANGED acknowledged => AcknowledgedCached'
  BY <1>2, <1>4 DEF ReportedInv, AcknowledgedCached, Contains
<1> QED
  BY <1>2, <1>3, <1>5, <1>6, <1>7 DEF ReportedInv

\* A hit is what was reported for the action and all there; a miss is no
\* surprise to the build.
LEMMA IsAnsweredKeeps ==
    ASSUME IInv, BuildInv, NEW c \in Clients, IsAnswered(c)
    PROVE  BuildInv'
<1> DEFINE b == builds[c]
           call == actions[c]
<1>1. /\ b # Idle /\ b.step = "ask" /\ b.sent /\ Replied(call) /\ ActionReturns(c)
      /\ UNCHANGED <<reported, acknowledged, finds, writes, downloads>>
      /\ \/ /\ call.status = "Ok"
            /\ IF Outputs(call.result) = {} THEN Succeeds(c)
               ELSE Proceeds(c, "fetch", call.result, Outputs(call.result))
         \/ /\ call.status = "NotFound"
            /\ \E result \in Outcomes(b.target) :
                  Proceeds(c, "find", result, Uploadable(b.target, result))
         \/ call.status \notin {"Ok", "NotFound"} /\ GivesUp(c)
  BY DEF IsAnswered, Awaits, casVars, streamVars, ActionReturns
<1>2. /\ Planned(b) /\ Backed(DOMAIN blobs, poisoned, reported, b)
      /\ b \in Build /\ b.instance \in Instances /\ b.target \in Targets
      /\ Linked(poisoned, b, actions[c], finds[c], writes[c], downloads[c])
  BY <1>1, BuildFields
<1>3. /\ StoreInv /\ StoreGrows /\ blobs' = blobs /\ poisoned' = poisoned
      /\ OthersKeepCalls(c) /\ ReportedInv'
  BY <1>1, AnswerTaken
<1>4. Getting(b, call)
  BY <1>1, <1>2 DEF Linked, Replied
<1>5. /\ call.request.method = "get" /\ call.request.instance = b.instance
      /\ call.request.action.hash = Hash(b.target)
      /\ ActionAcKey(call) = AcKey(b.instance, Hash(b.target))
  BY <1>4 DEF Getting, ActionRequestOf, DigestOfBlob, ActionAcKey
<1>6. /\ call.status = "Ok" => Complete(Contents, b.instance, call.result)
      /\ call.status = "NotFound" => ActionAcKey(call) \notin call.before
      /\ call.status = "Internal" => poisoned
  BY <1>1, <1>5, ClientSlots, ResultsInvImplies DEF IInv, GetResultSound
<1>7. CASE call.status = "Ok"
  <2> DEFINE result == call.result
  <2>1. CallReported(reported, call)
    BY <1>1, ClientSlots DEF BuildInv, ReportedInv, CallsReported, Replied
  <2>2. WasReported(reported, b.instance, Hash(b.target), result)
    BY <1>5, <1>7, <2>1 DEF CallReported
  <2>3. PICK target \in Targets :
            Hash(target) = Hash(b.target) /\ <<b.instance, target, result>> \in reported
    BY <2>2 DEF WasReported
  <2>4. target = b.target
    BY <1>2, <2>3, BuildAssumption, HashAssumption
  <2>5. result \in Outcomes(b.target)
    <3> DEFINE at == <<b.instance, b.target, result>>
    <3>1. at \in reported /\ at[2] = b.target /\ at[3] = result
      BY <2>3, <2>4
    <3> HIDE DEF at
    <3> QED
      BY <3>1 DEF BuildInv, ReportedInv, ReportsTyped
  <2>6. \A digest \in Outputs(result) : CasKey(b.instance, digest.hash) \in DOMAIN blobs
    BY <1>2, <1>3, <1>6, <1>7, <2>5, OutputsStored
  <2>7. CASE Outputs(result) = {}
    BY <1>1, <1>3, <1>7, <2>7, Succeeding
  <2>8. CASE Outputs(result) # {}
    <3>1. result \in ActionResult /\ Outputs(result) \in SUBSET Digest
      BY <1>2, <2>5, MovesBlobs
    <3>2. Proceeds(c, "fetch", result, Outputs(result))
      BY <1>1, <1>7, <2>8
    <3>3. PICK next \in Build :
            /\ builds' = [builds EXCEPT ![c] = next]
            /\ SameBuild(b, next)
            /\ next.step = "fetch" /\ ~next.sent
            /\ next.result = result /\ next.todo = Outputs(result)
      BY <1>1, <3>1, <3>2, GoingOn
    <3>4. Planned(next)
      BY <2>5, <2>8, <3>3 DEF Planned, SameBuild
    <3>5. Backed(DOMAIN blobs, poisoned, reported, next)
      BY <1>2, <2>3, <2>4, <2>6, <3>3 DEF Backed, SameBuild
    <3>6. ClientLater(c, next)
      BY <1>1, <1>3, <3>3, <3>4, <3>5 DEF ClientLater, Linked
    <3> QED
      BY <1>1, <1>3, <3>3, <3>6, OneClientMoves
  <2> QED
    BY <2>7, <2>8
<1>8. CASE call.status = "NotFound"
  <2>1. PICK result \in Outcomes(b.target) :
            Proceeds(c, "find", result, Uploadable(b.target, result))
    BY <1>1, <1>8
  <2>2. result \in ActionResult /\ Uploadable(b.target, result) \in SUBSET Digest
    BY <1>2, <2>1, MovesBlobs
  <2>3. PICK next \in Build :
          /\ builds' = [builds EXCEPT ![c] = next]
          /\ SameBuild(b, next)
          /\ next.step = "find" /\ ~next.sent
          /\ next.result = result /\ next.todo = Uploadable(b.target, result)
    BY <1>1, <2>1, <2>2, GoingOn
  <2>4. ~(b.known /\ ~b.disturbed)
    BY <1>4, <1>5, <1>6, <1>8 DEF Getting
  <2>5. Planned(next)
    BY <2>3, <2>4 DEF Planned, SameBuild
  <2>6. Backed(DOMAIN blobs, poisoned, reported, next)
    BY <1>2, <2>3 DEF Backed, SameBuild
  <2>7. ClientLater(c, next)
    BY <1>1, <1>3, <2>3, <2>5, <2>6 DEF ClientLater, Linked
  <2> QED
    BY <1>1, <1>3, <2>3, <2>7, OneClientMoves
<1>9. CASE call.status \notin {"Ok", "NotFound"}
  <2>1. poisoned
    BY <1>1, <1>4, <1>6, <1>9 DEF Getting, Replied
  <2>2. b.disturbed
    BY <1>2, <2>1 DEF Backed
  <2> QED
    BY <1>1, <1>3, <1>9, <2>2, GivingUp
<1> QED
  BY <1>7, <1>8, <1>9

\* The result of a build that has all its uploads in the store can be cached.
LEMMA ReportIsFit ==
    ASSUME StoreInv, NEW instance, NEW target \in Targets, NEW result \in Outcomes(target),
           NEW call, call.before \subseteq DOMAIN blobs,
           call.request = ActionRequestOf("update", instance, target, result),
           \A digest \in Uploadable(target, result) :
                CasKey(instance, digest.hash) \in call.before
    PROVE  MeetsPreconditions(call)
<1> DEFINE action == DigestOfBlob(target)
           command == DecodeAction(target)
           trees == Range(result.trees)
           files == NeededFiles(Contents, instance, result)
<1>1. /\ call.request.instance = instance /\ call.request.action = action
      /\ call.request.result = result
  BY DEF ActionRequestOf
<1>2. /\ IsBlob(action) /\ ~IsEmptyDigest(action) /\ action.hash = Hash(target)
      /\ IsBlob(command) /\ ~IsEmptyDigest(command)
      /\ \A tree \in trees : ~IsEmptyDigest(tree)
      /\ target \in Bytes
  BY BuildAssumption DEF IsMessage, DigestOfBlob
<1>3. action \in Uploadable(target, result) /\ command \in Uploadable(target, result)
  BY <1>2 DEF Uploadable
<1>4. \A tree \in trees : tree \in Uploadable(target, result)
  BY <1>2 DEF Uploadable, Outputs
<1>5. Contents[<<instance, Hash(target)>>] = target
      /\ <<instance, Hash(target)>> \in DOMAIN Contents
  <2>1. Holds(Contents, instance, action)
        /\ Contents[<<instance, action.hash>>] = BlobOf(action)
    BY <1>2, <1>3, StoredAsMeant
  <2>2. BlobOf(action) = target
    BY <1>2, OneBlob
  <2> QED
    BY <1>2, <2>1, <2>2 DEF Holds
<1>6. CommandAt(Contents, instance, Hash(target)) = command
  BY <1>5 DEF CommandAt
<1>7. ActionKnown(Contents, instance, Hash(target))
  <2>1. Holds(Contents, instance, command)
    BY <1>2, <1>3, StoredAsMeant
  <2>2. command # Malformed
    BY <1>2, OneBlob, MessageAssumption DEF OptionalDigest
  <2> QED
    BY <1>5, <1>6, <2>1, <2>2 DEF ActionKnown
<1>8. /\ TreesReadable(Contents, instance, result)
      /\ Outputs(result) = files \cup trees
  BY <1>4, FilesAsMeant
<1>9. NoDigest \notin files
  BY <1>8, MovesBlobs, OneBlob
<1>10. \A digest \in files : ~IsEmptyDigest(digest) => digest \in Uploadable(target, result)
  BY <1>8 DEF Uploadable
<1> HIDE DEF action, command, trees, files
<1>11. \A digest \in {action, command} \cup trees
                     \cup {digest \in files : ~IsEmptyDigest(digest)} :
          CasKey(instance, digest.hash) \in call.before
  BY <1>3, <1>4, <1>10
<1> QED
  BY <1>1, <1>2, <1>6, <1>7, <1>8, <1>9, <1>11 DEF MeetsPreconditions, trees, files

\* The report of an undisturbed build is accepted.
LEMMA IsAcceptedKeeps ==
    ASSUME IInv, BuildInv, NEW c \in Clients, IsAccepted(c)
    PROVE  BuildInv'
<1> DEFINE b == builds[c]
           call == actions[c]
           ours == <<b.instance, b.target>>
<1>1. /\ b # Idle /\ b.step = "report" /\ b.sent /\ Replied(call) /\ ActionReturns(c)
      /\ UNCHANGED <<reported, finds, writes, downloads>>
      /\ IF call.status = "Ok"
         THEN Succeeds(c) /\ acknowledged' = acknowledged \cup {ours}
         ELSE GivesUp(c) /\ UNCHANGED acknowledged
  BY DEF IsAccepted, Awaits, casVars, streamVars, ActionReturns
<1>2. /\ Planned(b) /\ Backed(DOMAIN blobs, poisoned, reported, b)
      /\ b \in Build /\ b.instance \in Instances /\ b.target \in Targets
      /\ b.result \in Outcomes(b.target)
      /\ Linked(poisoned, b, actions[c], finds[c], writes[c], downloads[c])
  BY <1>1, BuildFields DEF Planned
<1>3. /\ StoreInv /\ StoreGrows /\ blobs' = blobs /\ poisoned' = poisoned
      /\ OthersKeepCalls(c)
      /\ ReportsTyped' /\ CacheReported' /\ CallsReported'
      /\ UNCHANGED acknowledged => ReportedInv'
  BY <1>1, AnswerTaken
<1>4. Reporting(b, call)
  BY <1>1, <1>2 DEF Linked, Replied
<1>5. /\ call.request.method = "update" /\ call.request.result = b.result
      /\ ActionAcKey(call) = AcKey(b.instance, Hash(b.target))
  BY <1>4 DEF Reporting, ActionRequestOf, DigestOfBlob, ActionAcKey
<1>6. /\ call.status = "Ok" => Contains(ActionAcKey(call))
      /\ call.status \in {"FailedPrecondition", "Internal"} =>
            poisoned \/ ~CanStore(EncodeResult(b.result)) \/ ~MeetsPreconditions(call)
  BY <1>1, <1>5, ClientSlots, ResultsInvImplies DEF IInv, UpdateResultSound
<1>7. CASE call.status = "Ok"
  <2>1. AcknowledgedCached'
    <3> SUFFICES ASSUME NEW at \in acknowledged'
                 PROVE  at \in Instances \X Targets /\ AcKey(at[1], Hash(at[2])) \in DOMAIN blobs
      BY <1>3 DEF AcknowledgedCached, Contains, AcKey
    <3>1. CASE at \in acknowledged
      BY <3>1 DEF BuildInv, ReportedInv, AcknowledgedCached, Contains
    <3>2. CASE at = ours
      BY <1>2, <1>5, <1>6, <1>7, <3>2 DEF Contains
    <3> QED
      BY <1>1, <1>7, <3>1, <3>2
  <2>2. ReportedInv'
    BY <1>3, <2>1 DEF ReportedInv
  <2> QED
    BY <1>1, <1>3, <1>7, <2>2, Succeeding
<1>8. CASE call.status # "Ok"
  <2>1. b.disturbed
    <3> SUFFICES ASSUME ~b.disturbed PROVE FALSE
      OBVIOUS
    <3>1. call.status \in {"FailedPrecondition", "Internal"}
      BY <1>1, <1>4, <1>8 DEF Reporting, Replied
    <3>2. ~poisoned /\ CanStore(EncodeResult(b.result))
      BY <1>2, BuildAssumption DEF Backed
    <3>3. call.before \subseteq DOMAIN blobs
      BY <1>1, ClientSlots DEF IInv, ResultsInv, Replied
    <3>4. MeetsPreconditions(call)
      BY <1>2, <1>3, <1>4, <3>3, ReportIsFit DEF Reporting
    <3> QED
      BY <1>6, <3>1, <3>2, <3>4
  <2> QED
    BY <1>1, <1>3, <1>8, <2>1, GivingUp
<1> QED
  BY <1>7, <1>8

\* What a step of the action cache makes of a call.
Codes(method) == IF method = "get" THEN {"running", "Ok", "NotFound", "Internal"}
                                   ELSE {"running", "Ok", "FailedPrecondition", "Internal"}

CallStep(call, next) ==
    LET method == call.request.method IN
    /\ call \in ActionCall /\ next \in ActionCall
    /\ next.request = call.request /\ next.before = call.before
    /\ next.status \in Codes(method)
    /\ method = "get" =>
          /\ \/ next.result = call.result
             \/ Contains(ActionAcKey(call)) /\ next.result = Cached(call)
          /\ next.status = "Ok" => next.result # NoResult

\* A put under the key of the action, of the result that was sent.
CachesReport(call) ==
    LET data == EncodeResult(call.request.result) IN
    /\ call.request.method = "update" /\ call.request.result # NoResult
    /\ call.request \in ActionRequests
    /\ CanStore(data)
    /\ Put(ActionAcKey(call), StoredForm(data))
    /\ GoodEntry(ActionAcKey(call), StoredForm(data))

\* A call that is answered with an error, or with Ok.
LEMMA FinishedStep ==
    ASSUME StoreInv, ActionInv, ResultsInv, NEW c \in ActionCalls, Running(actions[c]),
           NEW code \in Codes(actions[c].request.method), code # "running",
           actions[c].request.method = "get" /\ code = "Ok" => actions[c].result # NoResult
    PROVE  CallStep(actions[c], Finished(actions[c], code))
<1>1. actions[c] \in ActionCall /\ actions[c].request \in ActionRequest
  BY RunningKnows
<1>2. code \in Code
  BY DEF Codes, Code
<1>3. Finished(actions[c], code) \in ActionCall
  BY <1>1, <1>2, FinishedType
<1> QED
  BY <1>1, <1>2, <1>3, FinishedFields DEF CallStep

LEMMA ActionStepMoves ==
    ASSUME StoreInv, ActionInv, ResultsInv, NEW c \in ActionCalls, ActionStep(c)
    PROVE  /\ Running(actions[c]) /\ poisoned' = poisoned
           /\ \E next \in ActionCall :
                 /\ actions' = [actions EXCEPT ![c] = next]
                 /\ CallStep(actions[c], next)
           /\ StoreStep("cas") \/ CachesReport(actions[c])
<1> DEFINE call == actions[c]
           method == call.request.method
<1>1. CASE ReadingStep(c)
  <2>1. Running(call) /\ (Refused(c) \/ GivenUp(c) \/ Missed(c) \/ Advanced(c))
    BY <1>1, ReadingStepOutcome
  <2>2. call \in ActionCall /\ call.request \in ActionRequest
    BY <2>1, RunningKnows
  <2>3. ASSUME NEW code \in Codes(method), code # "running", code # "Ok", Fails(c, code)
        PROVE  /\ UNCHANGED storeVars
               /\ Finished(call, code) \in ActionCall
               /\ actions' = [actions EXCEPT ![c] = Finished(call, code)]
               /\ CallStep(call, Finished(call, code))
    BY <2>1, <2>3, FinishedStep DEF Fails, CallStep
  <2>4. CASE Refused(c)
    <3>1. "FailedPrecondition" \in Codes(method) /\ Fails(c, "FailedPrecondition")
      BY <2>4 DEF Refused, Codes
    <3> QED
      BY <2>1, <2>3, <3>1 DEF StoreStep, storeVars
  <2>5. CASE GivenUp(c)
    <3>1. "Internal" \in Codes(method) /\ Fails(c, "Internal")
      BY <2>5 DEF GivenUp, Codes
    <3> QED
      BY <2>1, <2>3, <3>1 DEF StoreStep, storeVars
  <2>6. CASE Missed(c)
    <3>1. "NotFound" \in Codes(method) /\ Fails(c, "NotFound")
      BY <2>6 DEF Missed, Codes, At
    <3> QED
      BY <2>1, <2>3, <3>1 DEF StoreStep, storeVars
  <2>7. CASE Advanced(c)
    <3>1. PICK next \in ActionCall :
            GoesOn(c, next) /\ KeepsResult(c, next) /\ Becomes(c, next)
      BY <2>7 DEF Advanced
    <3>2. UNCHANGED storeVars /\ actions' = [actions EXCEPT ![c] = next]
      BY <3>1 DEF Becomes
    <3>3. CallStep(call, next)
      BY <2>2, <3>1 DEF GoesOn, KeepsResult, CallStep, Codes
    <3> QED
      BY <2>1, <3>2, <3>3 DEF StoreStep, storeVars
  <2> QED
    BY <2>1, <2>4, <2>5, <2>6, <2>7
<1>2. CASE StoresEmptyArtifact(c)
  <2>1. StoreStep("cas") /\ HasDigest(call)
    BY <1>2, StoresEmptyArtifactInv DEF StoresEmptyArtifact
  <2>2. Running(call)
    BY <2>1, DigestsLeft
  <2>3. call \in ActionCall /\ call.request \in ActionRequest /\ call.status = "running"
    BY <2>2, RunningKnows
  <2>4. CASE Fails(c, "Internal")
    <3>1. "Internal" \in Codes(method)
      BY DEF Codes
    <3>2. CallStep(call, Finished(call, "Internal"))
      BY <2>2, <3>1, FinishedStep
    <3> QED
      BY <2>1, <2>2, <2>4, <3>2 DEF Fails, CallStep, storeVars
  <2>5. CASE ~Fails(c, "Internal")
    <3> DEFINE next == [call EXCEPT !.digests = Tail(@)]
    <3>1. actions' = [actions EXCEPT ![c] = next] /\ poisoned' = poisoned
      BY <1>2, <2>5 DEF StoresEmptyArtifact, Put
    <3>2. Tail(call.digests) \in Seq(Digest)
      BY <2>1, DigestsLeft
    <3>3. next \in ActionCall
      BY <2>3, <3>2 DEF ActionCall
    <3>4. /\ next.request = call.request /\ next.before = call.before
          /\ next.status = "running" /\ next.result = call.result
      BY <2>3 DEF ActionCall
    <3> HIDE DEF next
    <3>5. CallStep(call, next)
      BY <2>3, <3>3, <3>4 DEF CallStep, Codes
    <3> QED
      BY <2>1, <2>2, <3>1, <3>3, <3>5
  <2> QED
    BY <2>4, <2>5
<1>3. CASE GetReplies(c)
  <2>1. InArtifacts(call) /\ method = "get" /\ Becomes(c, Finished(call, "Ok"))
    BY <1>3 DEF GetReplies, Validated
  <2>2. Running(call)
    BY <2>1 DEF InArtifacts
  <2>3. call.result \in ActionResult
    BY <2>1, InArtifactsKnows DEF Collected
  <2>4. call.result # NoResult
    BY <2>3, ActionRequestAssumption
  <2>5. "Ok" \in Codes(method)
    BY DEF Codes
  <2>6. CallStep(call, Finished(call, "Ok"))
    BY <2>2, <2>4, <2>5, FinishedStep
  <2> QED
    BY <2>1, <2>2, <2>6 DEF Becomes, CallStep, StoreStep, storeVars
<1>4. CASE CachesResult(c)
  <2>1. InArtifacts(call) /\ method = "update"
    BY <1>4 DEF CachesResult, Validated
  <2>2. Running(call) /\ call.result = call.request.result
    BY <2>1, InArtifactsKnows DEF InArtifacts
  <2>3. "Internal" \in Codes(method) /\ "Ok" \in Codes(method)
    BY DEF Codes
  <2>4. CallStep(call, Finished(call, "Internal")) /\ CallStep(call, Finished(call, "Ok"))
    BY <2>1, <2>2, <2>3, FinishedStep
  <2>5. CASE Fails(c, "Internal")
    BY <2>2, <2>4, <2>5 DEF Fails, CallStep, StoreStep, storeVars
  <2>6. CASE ~Fails(c, "Internal")
    <3> DEFINE data == EncodeResult(call.request.result)
               key == ActionAcKey(call)
    <3>1. /\ CanStore(data) /\ Put(key, StoredForm(data))
          /\ actions' = [actions EXCEPT ![c] = Finished(call, "Ok")]
      BY <1>4, <2>2, <2>6 DEF CachesResult
    <3>2. /\ call.request \in ActionRequests /\ call.request \in ActionRequest
          /\ call.request.action \in Digest
      BY <2>2, ActionRequestType DEF ActionCall
    <3>3. call.request.result # NoResult
      BY <2>1, <2>2, InArtifactsKnows, ActionRequestAssumption DEF Collected
    <3>4. data \in Bytes
      BY <3>2, <3>3, EncodingAssumption
    <3>5. GoodEntry(key, StoredForm(data))
      <4>1. key \in BlobKey /\ key.kind = "ac"
        BY <3>2 DEF ActionAcKey, AcKey, BlobKey, Kind, ActionRequest, Digest
      <4> HIDE DEF data, key
      <4> QED
        BY <3>1, <3>4, <4>1, StoredFormDecodes DEF GoodEntry
    <3> QED
      BY <2>1, <2>2, <2>4, <3>1, <3>2, <3>3, <3>5 DEF CallStep, CachesReport, Put
  <2> QED
    BY <2>5, <2>6
<1> QED
  BY <1>1, <1>2, <1>3, <1>4 DEF ActionStep, ReadingStep

\* What a call finds in the cache, and what it adds to it, was reported.
LEMMA StepReported ==
    ASSUME ReportedInv, NEW c \in ActionCalls, actions[c] # Idle,
           NEW next, CallStep(actions[c], next)
    PROVE  CallReported(reported, next)
<1> DEFINE call == actions[c]
           request == call.request
<1>1. CallReported(reported, call)
  BY DEF ReportedInv, CallsReported
<1>2. CASE request.method = "get" /\ next.result # call.result
  <2>1. Contains(ActionAcKey(call)) /\ next.result = Cached(call)
    BY <1>2 DEF CallStep
  <2>2. WasReported(reported, request.instance, request.action.hash, next.result)
    BY <2>1 DEF ReportedInv, CacheReported, Contains, ActionAcKey, AcKey, Cached
  <2> QED
    BY <1>2, <2>2 DEF CallStep, CallReported
<1>3. CASE ~(request.method = "get" /\ next.result # call.result)
  BY <1>1, <1>3 DEF CallStep, CallReported
<1> QED
  BY <1>2, <1>3

LEMMA CachesReportedResult ==
    ASSUME StoreInv, ActionTypeOK, ReportedInv, UNCHANGED <<reported, acknowledged>>,
           NEW c \in ActionCalls, actions[c] # Idle, CachesReport(actions[c]),
           NEW next, CallReported(reported, next), actions' = [actions EXCEPT ![c] = next]
    PROVE  ReportedInv' /\ StoreGrows
<1> DEFINE call == actions[c]
           request == call.request
           key == ActionAcKey(call)
           blob == StoredForm(EncodeResult(request.result))
<1>1. /\ Put(key, blob) /\ GoodEntry(key, blob) /\ request.method = "update"
      /\ EncodeResult(request.result) \in Bytes
      /\ DecodeResult(EncodeResult(request.result)) = request.result
      /\ CanStore(EncodeResult(request.result))
  BY EncodingAssumption DEF CachesReport
<1>2. DecodeResult(IdentityData(blob)) = request.result
  BY <1>1, StoredFormDecodes
<1>3. WasReported(reported, key.instance, key.hash, request.result)
  <2>1. CallReported(reported, call)
    BY DEF ReportedInv, CallsReported
  <2> QED
    BY <1>1, <2>1 DEF CallReported, ActionAcKey, AcKey
<1> HIDE DEF blob, key
<1>4. StoreGrows
  BY <1>1, PutKeepsStore
<1>5. /\ DOMAIN blobs' = DOMAIN blobs \cup {key}
      /\ \A k \in DOMAIN blobs' : blobs'[k] = IF k = key THEN blob ELSE blobs[k]
  BY <1>1 DEF Put
<1>6. CacheReported'
  <2> SUFFICES ASSUME NEW k \in DOMAIN blobs', k.kind = "ac"
               PROVE  WasReported(reported, k.instance, k.hash,
                                  DecodeResult(IdentityData(blobs'[k])))
    BY DEF CacheReported, Get
  <2>1. CASE k = key
    BY <1>2, <1>3, <1>5, <2>1
  <2>2. CASE k # key
    BY <1>5, <2>2 DEF ReportedInv, CacheReported, Get
  <2> QED
    BY <2>1, <2>2
<1>7. AcknowledgedCached'
  <2>1. \A at \in acknowledged : AcKey(at[1], Hash(at[2])) \in DOMAIN blobs
    BY DEF ReportedInv, AcknowledgedCached, Contains
  <2> QED
    BY <1>5, <2>1 DEF ReportedInv, AcknowledgedCached, Contains, AcKey
<1>8. ReportsTyped' /\ CallsReported'
  BY DEF ReportedInv, ReportsTyped, CallsReported, ActionTypeOK
<1> QED
  BY <1>4, <1>6, <1>7, <1>8 DEF ReportedInv

\* A step of the action cache for the call of a build.
LEMMA ActingKeeps ==
    ASSUME IInv, BuildInv, NEW c \in Clients, Acting(c)
    PROVE  BuildInv'
<1> DEFINE call == actions[c]
<1>1. /\ ActionStep(c)
      /\ UNCHANGED <<reported, acknowledged, builds, finds, writes, downloads>>
  BY DEF Acting, casVars, streamVars, buildVars
<1>2. StoreInv /\ ActionInv /\ ActionTypeOK /\ ResultsInv /\ c \in ActionCalls
  BY ClientSlots DEF IInv, ActionInv
<1>3. /\ Running(call) /\ poisoned' = poisoned
      /\ StoreStep("cas") \/ CachesReport(call)
  BY <1>1, <1>2, ActionStepMoves
<1>4. PICK next \in ActionCall :
        /\ actions' = [actions EXCEPT ![c] = next]
        /\ CallStep(call, next)
  BY <1>1, <1>2, ActionStepMoves
<1>5. call # Idle /\ ReportedInv
  BY <1>3 DEF Running, BuildInv
<1>6. CallReported(reported, next)
  BY <1>2, <1>4, <1>5, StepReported
<1>7. ReportedInv' /\ StoreGrows
  <2>1. CASE StoreStep("cas")
    <3>1. ReportsTyped' /\ CallReported(reported', next)
      BY <1>1, <1>5, <1>6 DEF ReportedInv, ReportsTyped
    <3> QED
      BY <1>1, <1>2, <1>4, <1>5, <2>1, <3>1, OneCallReported, StoreStepGrows
  <2>2. CASE CachesReport(call)
    BY <1>1, <1>2, <1>4, <1>5, <1>6, <2>2, CachesReportedResult
  <2> QED
    BY <1>3, <2>1, <2>2
<1>8. OthersKeepCalls(c) /\ actions'[c] = next
  BY <1>1, <1>2, <1>4, ActionTurns, BuildAssumption
<1>9. ASSUME builds[c] # Idle
      PROVE  Linked(poisoned, builds[c], actions'[c], finds'[c], writes'[c], downloads'[c])
  <2> DEFINE b == builds[c]
  <2>1. Linked(poisoned, b, actions[c], finds[c], writes[c], downloads[c])
    BY <1>9, BuildFields
  <2>2. next # Idle
    BY <1>4, IdleAssumption
  <2>3. Getting(b, call) => Getting(b, next)
    <3>1. Getting(b, call) => call.request.method = "get"
      BY DEF Getting, ActionRequestOf
    <3> QED
      BY <1>4, <3>1 DEF Getting, CallStep, Codes
  <2>4. Reporting(b, call) => Reporting(b, next)
    <3>1. Reporting(b, call) => call.request.method = "update"
      BY DEF Reporting, ActionRequestOf
    <3> QED
      BY <1>4, <3>1 DEF Reporting, CallStep, Codes
  <2> QED
    BY <1>1, <1>5, <1>8, <2>1, <2>2, <2>3, <2>4 DEF Linked
<1> QED
  BY <1>1, <1>3, <1>7, <1>8, <1>9, CallMoves

-----------------------------------------------------------------------------
(* Failures and restarts *)

\* A disturbed build relies on nothing, but its calls are still the same or gone.
LEMMA DisturbedLink ==
    ASSUME NEW b \in Build, NEW next, next = [b EXCEPT !.disturbed = TRUE],
           NEW failed, NEW action, NEW find, NEW write, NEW download,
           Linked(failed, b, action, find, write, download),
           NEW failedLater, NEW actionLater \in {action, Idle}, NEW findLater \in {find, Idle},
           NEW writeLater \in {write, Idle}, NEW downloadLater \in {download, Idle},
           failedLater \/ (findLater = Idle /\ writeLater = Idle)
    PROVE  Linked(failedLater, next, actionLater, findLater, writeLater, downloadLater)
<1>1. /\ next.disturbed
      /\ next.step = b.step /\ next.sent = b.sent /\ next.todo = b.todo
      /\ next.instance = b.instance /\ next.target = b.target
      /\ next.encoding = b.encoding /\ next.result = b.result
  BY DEF Build
<1> SUFFICES ASSUME b.sent
             PROVE  Linked(failedLater, next, actionLater, findLater, writeLater, downloadLater)
  BY <1>1 DEF Linked
<1>2. b.step = "ask" =>
        IF actionLater = Idle THEN next.disturbed ELSE Getting(next, actionLater)
  BY <1>1 DEF Linked, Getting
<1>3. b.step = "report" =>
        IF actionLater = Idle THEN next.disturbed ELSE Reporting(next, actionLater)
  BY <1>1 DEF Linked, Reporting
<1>4. b.step = "find" =>
        IF findLater = Idle THEN next.disturbed ELSE LooksFor(failedLater, next, findLater)
  BY <1>1 DEF Linked, LooksFor
<1>5. b.step = "upload" =>
        IF writeLater = Idle THEN next.disturbed ELSE Sending(failedLater, next, writeLater)
  BY <1>1 DEF Linked, Sending
<1>6. b.step = "fetch" =>
        IF downloadLater = Idle THEN next.disturbed ELSE Fetching(next, downloadLater)
  BY <1>1 DEF Linked, Fetching
<1> QED
  BY <1>1, <1>2, <1>3, <1>4, <1>5, <1>6 DEF Linked

LEMMA DisturbedKeeps ==
    ASSUME BuildInv, Disturbs, ReportedInv',
           \A d \in Clients :
              /\ actions'[d] \in {actions[d], Idle} /\ finds'[d] \in {finds[d], Idle}
              /\ writes'[d] \in {writes[d], Idle} /\ downloads'[d] \in {downloads[d], Idle}
              /\ poisoned' \/ (finds'[d] = Idle /\ writes'[d] = Idle)
    PROVE  BuildInv'
<1>1. ASSUME NEW d \in Clients
      PROVE  builds'[d] \in Build \cup {Idle} /\ ClientInv(d)'
  <2>1. CASE builds[d] = Idle
    <3>1. builds'[d] = Idle
      BY <2>1 DEF Disturbs
    <3> QED
      BY <3>1 DEF ClientInv
  <2>2. CASE builds[d] # Idle
    <3> DEFINE b == builds[d]
               next == [b EXCEPT !.disturbed = TRUE]
    <3>1. /\ b \in Build /\ Planned(b)
          /\ Linked(poisoned, b, actions[d], finds[d], writes[d], downloads[d])
      BY <2>2, BuildFields
    <3>2. builds'[d] = next
      BY <2>2 DEF Disturbs
    <3>3. next \in Build
      BY <3>1 DEF Build
    <3>4. /\ next.disturbed
          /\ next.step = b.step /\ next.todo = b.todo
          /\ next.target = b.target /\ next.result = b.result
      BY <3>1 DEF Build
    <3>5. Planned(next)
      BY <3>1, <3>4 DEF Planned
    <3>6. Backed(DOMAIN blobs', poisoned', reported', next)
      BY <3>4 DEF Backed
    <3>7. Linked(poisoned', next, actions'[d], finds'[d], writes'[d], downloads'[d])
      BY <3>1, DisturbedLink
    <3> HIDE DEF next
    <3> QED
      BY <3>2, <3>3, <3>5, <3>6, <3>7 DEF ClientInv
  <2> QED
    BY <2>1, <2>2
<1>2. builds' = [d \in Clients |-> builds'[d]]
  BY DEF Disturbs
<1>3. builds' \in [Clients -> Build \cup {Idle}]
  BY <1>1, <1>2
<1> QED
  BY <1>1, <1>3 DEF BuildInv

\* A put panics under a call of a client.
LEMMA PanicOverKeeps ==
    ASSUME IInv, BuildInv, NEW c \in Clients, PanicOver(c)
    PROVE  BuildInv'
<1>1. /\ Disturbs /\ PutPanics /\ UNCHANGED <<reported, acknowledged, finds, downloads>>
      /\ \/ UNCHANGED writes /\ actions' = [actions EXCEPT ![c] = Idle]
         \/ UNCHANGED actions /\ writes' = [writes EXCEPT ![c] = Idle]
  BY DEF PanicOver, ActionPanics, WritePanics, casVars, streamVars
<1>2. /\ StoreInv /\ ActionTypeOK /\ StreamTypeOK /\ StoreStep("cas") /\ poisoned'
      /\ c \in ActionCalls /\ ReportedInv
  BY <1>1, ClientSlots DEF IInv, ActionInv, StreamInv, StoreStep, PutPanics, BuildInv
<1>3. ReportedInv'
  <2>1. CASE UNCHANGED actions
    BY <1>1, <1>2, <2>1, NothingReported
  <2>2. CASE actions' = [actions EXCEPT ![c] = Idle]
    <3>1. ReportsTyped' /\ reported \subseteq reported'
      BY <1>1, <1>2 DEF ReportedInv, ReportsTyped
    <3> QED
      BY <1>1, <1>2, <2>2, <3>1, OneCallReported
  <2> QED
    BY <1>1, <2>1, <2>2
<1>4. \A d \in Clients :
        actions'[d] \in {actions[d], Idle} /\ writes'[d] \in {writes[d], Idle}
  BY <1>1, <1>2, BuildAssumption DEF ActionTypeOK, StreamTypeOK
<1> QED
  BY <1>1, <1>2, <1>3, <1>4, DisturbedKeeps

\* A restart loses the store, all calls, and what was reported.
LEMMA ServerRestartsKeeps ==
    ASSUME BuildInv, ServerRestarts
    PROVE  BuildInv'
<1>1. /\ Disturbs /\ Restart /\ reported' = {} /\ acknowledged' = {}
  BY DEF ServerRestarts
<1>2. /\ DOMAIN blobs' = {}
      /\ \A c \in ActionCalls : actions'[c] = Idle
      /\ \A c \in FindCalls : finds'[c] = Idle
      /\ \A c \in WriteCalls : writes'[c] = Idle
      /\ \A c \in DownloadCalls : downloads'[c] = Idle
  BY <1>1 DEF Restart
<1>3. ReportedInv'
  BY <1>1, <1>2 DEF ReportedInv, ReportsTyped, AcknowledgedCached, CacheReported, CallsReported
<1> QED
  BY <1>1, <1>2, <1>3, ClientSlots, DisturbedKeeps

\* No step at all.
LEMMA StutterKeeps ==
    ASSUME BuildInv, UNCHANGED allVars
    PROVE  BuildInv'
<1>1. UNCHANGED <<blobs, poisoned, finds, writes, downloads, actions,
                  builds, reported, acknowledged>>
  BY DEF allVars, vars, storeVars, casVars, streamVars, buildVars
<1> QED
  BY <1>1 DEF BuildInv, ClientInv, ReportedInv, ReportsTyped, AcknowledgedCached,
              CacheReported, CallsReported, Contains, Get

-----------------------------------------------------------------------------
(* The theorems *)

LEMMA BuildsInitInv == BuildsStateInit => IInv /\ BuildInv
<1> SUFFICES ASSUME BuildsStateInit PROVE IInv /\ BuildInv
  OBVIOUS
<1>1. Init /\ BuildInit
  BY DEF BuildsStateInit
<1>2. builds \in [Clients -> Build \cup {Idle}] /\ \A c \in Clients : ClientInv(c)
  BY <1>1 DEF BuildInit, ClientInv
<1>3. DOMAIN blobs = {} /\ \A c \in ActionCalls : actions[c] = Idle
  BY <1>1 DEF Init, StoreInit, ActionInit
<1>4. ReportedInv
  BY <1>1, <1>3 DEF BuildInit, ReportedInv, ReportsTyped, AcknowledgedCached,
                    CacheReported, CallsReported
<1> QED
  BY <1>1, <1>2, <1>4, InitIInv DEF BuildInv

LEMMA BuildsNextInv ==
    ASSUME IInv, BuildInv, [BuildsNext]_allVars
    PROVE  IInv' /\ BuildInv'
<1>1. IInv'
  BY BuildsNextIsNext, NextIInv
<1>2. ASSUME NEW c \in Clients, ClientStep(c)
      PROVE  BuildInv'
  BY <1>1, <1>2, AsksKeeps, IsAnsweredKeeps, AsksMissingKeeps, LearnsMissingKeeps,
     UploadsKeeps, TimesOutKeeps, HasUploadedKeeps, ReportsKeeps, IsAcceptedKeeps,
     FetchesKeeps, HasFetchedKeeps, IsCutOffKeeps
     DEF ClientStep
<1>3. ASSUME NEW c \in Clients, SendsBlob(c) \/ ServerStep(c) \/ PanicOver(c)
      PROVE  BuildInv'
  BY <1>3, SendsBlobKeeps, FindingKeeps, ReadingKeeps, ActingKeeps, PanicOverKeeps
     DEF ServerStep
<1>4. ASSUME NEW c \in Clients, NEW instance \in Instances, NEW target \in Targets,
             NEW encoding \in Offered, Begins(c, instance, target, encoding)
      PROVE  BuildInv'
  BY <1>4, BeginsKeeps
<1>5. CASE ServerRestarts
  BY <1>1, <1>5, ServerRestartsKeeps
<1>6. CASE UNCHANGED allVars
  BY <1>1, <1>6, StutterKeeps
<1> QED
  BY <1>1, <1>2, <1>3, <1>4, <1>5, <1>6 DEF BuildsNext

\* Together, the invariants of the server and of builds are inductive.
THEOREM BuildInvariance == BuildsSpec => [](IInv /\ BuildInv)
BY BuildsInitInv, BuildsNextInv, PTL DEF BuildsSpec

\* Clients that build do nothing to the server but call it, so all that holds of
\* the server holds of builds; this is what lets the theorems of CacheServer be
\* used here.
THEOREM BuildsUseServer == BuildsSpec => Init /\ [][Next]_vars
<1>1. BuildsStateInit => Init
  BY DEF BuildsStateInit
<1>2. IInv /\ BuildInv /\ [BuildsNext]_allVars => [Next]_vars
  BY BuildsNextIsNext
<1> QED
  BY <1>1, <1>2, BuildInvariance, PTL DEF BuildsSpec

\* Also under builds, the action cache answers as if each of its calls had looked
\* at the whole store at one instant.
THEOREM BuildsAreServed == BuildsSpec => ServesResults
<1>1. BuildsStateInit => Promise!Init
  BY InitPromise DEF BuildsStateInit
<1>2. IInv /\ [Next]_vars => [Promise!Next]_Promise!promiseVars
  BY NextPromise
<1> QED
  BY <1>1, <1>2, BuildInvariance, BuildsUseServer, PTL
     DEF BuildsSpec, ServesResults, Promise!Spec

\* A build that begins after a result was acknowledged for its Action in its
\* instance never executes the action, unless the server fails or restarts.
THEOREM RebuildsHit == BuildsSpec => []SecondBuildHits
<1>1. BuildInv => SecondBuildHits
  BY DEF BuildInv, ClientInv, Planned, SecondBuildHits
<1> QED
  BY <1>1, BuildInvariance, PTL

\* What a build is served was reported for this very Action in this instance.
THEOREM HitsAreReports == BuildsSpec => []HitsWereReported
<1>1. BuildInv => HitsWereReported
  BY DEF BuildInv, ClientInv, Backed, HitsWereReported
<1> QED
  BY <1>1, BuildInvariance, PTL

\* An acknowledged result has its key and is closed, and what is cached there
\* was reported for the one Action of the key's hash.
LEMMA AcknowledgedHold ==
    ASSUME IInv, BuildInv
    PROVE  AcknowledgedResultsHold
<1> SUFFICES ASSUME NEW at \in acknowledged
             PROVE  LET result == DecodeResult(IdentityData(Get(AcKey(at[1], Hash(at[2]))))) IN
                    /\ Contains(AcKey(at[1], Hash(at[2])))
                    /\ <<at[1], at[2], result>> \in reported
                    /\ \A digest \in {DigestOfBlob(at[2]), DecodeAction(at[2])}
                                       \cup Outputs(result) :
                            Contains(CasKey(at[1], digest.hash))
  BY DEF AcknowledgedResultsHold
<1> DEFINE instance == at[1]
           target == at[2]
           key == AcKey(instance, Hash(target))
           result == DecodeResult(IdentityData(Get(key)))
<1>1. /\ StoreInv /\ ResultsClosed /\ ReportedInv
      /\ target \in Targets /\ target \in Bytes
      /\ Contains(key) /\ key \in DOMAIN blobs
      /\ key.kind = "ac" /\ key.instance = instance /\ key.hash = Hash(target)
  BY BuildAssumption
     DEF IInv, ResultsInv, BuildInv, ReportedInv, AcknowledgedCached, Contains, AcKey
<1>2. <<instance, target, result>> \in reported
  <2>1. WasReported(reported, instance, Hash(target), result)
    BY <1>1 DEF ReportedInv, CacheReported
  <2>2. PICK other \in Targets : Hash(other) = Hash(target)
                                  /\ <<instance, other, result>> \in reported
    BY <2>1 DEF WasReported
  <2>3. other = target
    BY <1>1, <2>2, BuildAssumption, HashAssumption
  <2> QED
    BY <2>2, <2>3
<1>3. result \in Outcomes(target)
  BY <1>1, <1>2 DEF ReportedInv, ReportsTyped
<1>4. /\ Complete(Contents, instance, result)
      /\ ActionKnown(Contents, instance, Hash(target))
  BY <1>1 DEF ResultsClosed
<1>5. \A digest \in Outputs(result) : Contains(CasKey(instance, digest.hash))
  BY <1>1, <1>3, <1>4, OutputsStored DEF Contains
<1>6. Contains(CasKey(instance, DigestOfBlob(target).hash))
  BY <1>1, <1>4, ContentsOfKeys DEF ActionKnown, ContentsMatch, DigestOfBlob
<1>7. Contains(CasKey(instance, DecodeAction(target).hash))
  <2>1. /\ IsBlob(DigestOfBlob(target))
        /\ CasKey(instance, DigestOfBlob(target).hash) \in DOMAIN blobs
    BY <1>1, <1>6, BuildAssumption DEF IsMessage, Contains
  <2>2. BlobOf(DigestOfBlob(target)) = target
    BY <1>1, <2>1, OneBlob DEF DigestOfBlob
  <2>3. Contents[<<instance, Hash(target)>>] = target
    BY <1>1, <2>1, <2>2, StoredAsMeant DEF DigestOfBlob
  <2>4. CommandAt(Contents, instance, Hash(target)) = DecodeAction(target)
    BY <2>3 DEF CommandAt
  <2> QED
    BY <1>1, <1>4, <2>4, ContentsOfKeys DEF ActionKnown, Holds, ContentsMatch
<1> QED
  BY <1>1, <1>2, <1>5, <1>6, <1>7

\* What was acknowledged can be relied on: also a build that was disturbed, by a
\* restart between its uploads and its report, has no result accepted whose blobs
\* are lost.
THEOREM AcknowledgementsHold == BuildsSpec => []AcknowledgedResultsHold
BY AcknowledgedHold, BuildInvariance, PTL

\* A build fails only when the server has failed or restarted meanwhile, or a
\* deadline has cut its upload off: nothing is reported present that is not, no
\* blob and no result of an undisturbed build is refused, and all outputs of a
\* hit can be fetched and are the right bytes.
THEOREM BuildsSucceed == BuildsSpec => []UndisturbedBuildsSucceed
<1>1. BuildInv => UndisturbedBuildsSucceed
  BY DEF BuildInv, ClientInv, Planned, UndisturbedBuildsSucceed
<1> QED
  BY <1>1, BuildInvariance, PTL

=============================================================================
