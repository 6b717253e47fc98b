---------------------------- MODULE Results_proofs ----------------------------
(***************************************************************************)
(* Why the answers of the action cache are right although each call looks  *)
(* its blobs up one by one: the CAS is only ever extended, so that what a  *)
(* call has found stays found, and what it has still to look up is in its  *)
(* own lists.                                                              *)
(***************************************************************************)
EXTENDS ActionCacheService_proofs

\* A CAS that holds another, with the same bytes under the same names.
Extends(larger, contents) ==
    \A at \in DOMAIN contents : at \in DOMAIN larger /\ larger[at] = contents[at]

\* What a result refers to as far as its trees can be read.
Refers(contents, instance, result, digest) ==
    \/ digest \in Range(result.files) \cup Range(result.logs)
    \/ \E tree \in Range(result.trees) :
          /\ Holds(contents, instance, tree)
          /\ TreeAt(contents, instance, tree) # Malformed
          /\ digest \in Range(TreeAt(contents, instance, tree).files)

(***************************************************************************)
(* Half-way through validate_action_result_artifacts: what the result      *)
(* needs has been found or is on a list, and nothing else is.              *)
(***************************************************************************)
Collected(contents, call) ==
    LET instance == call.request.instance
        result == call.result
        Found(digest) == digest \in Range(call.digests)
                         \/ Holds(contents, instance, digest)
    IN  /\ result \in ActionResult
        /\ \A digest \in Range(result.files) \cup Range(result.logs) : Found(digest)
        /\ \A tree \in Range(result.trees) :
              \/ tree \in Range(call.trees)
              \/ /\ Holds(contents, instance, tree)
                 /\ TreeAt(contents, instance, tree) # Malformed
                 /\ TreeAt(contents, instance, tree).rooted
                 /\ \A digest \in Range(TreeAt(contents, instance, tree).files) :
                        Found(digest)
        /\ \A tree \in Range(call.trees) : tree \in Range(result.trees)
        /\ \A digest \in Range(call.digests) : Refers(contents, instance, result, digest)

\* What the handler knows of the CAS in each of its phases.
Progress(contents, call) ==
    LET request == call.request
        at == <<request.instance, request.action.hash>>
    IN  /\ call.phase = "lookup" => call.result = NoResult
        /\ request.method = "update" /\ call.phase # "lookup" =>
              /\ at \in DOMAIN contents
              /\ DecodeAction(contents[at]) = call.command
              /\ call.command \notin {Malformed, NoDigest}
        /\ call.phase = "artifacts" =>
              /\ Collected(contents, call)
              /\ request.method = "get" =>
                    Complete(contents, request.instance, call.result)
              /\ request.method = "update" =>
                    ActionKnown(contents, request.instance, request.action.hash)

\* MeetsPreconditions for a given CAS and the keys present before the call.
Meets(contents, before, request) ==
    LET instance == request.instance
        files == NeededFiles(contents, instance, request.result)
        command == CommandAt(contents, instance, request.action.hash)
        required == {request.action, command} \cup Range(request.result.trees)
                    \cup {digest \in files : ~IsEmptyDigest(digest)}
    IN  /\ ActionKnown(contents, instance, request.action.hash)
        /\ TreesReadable(contents, instance, request.result)
        /\ NoDigest \notin files
        /\ \A digest \in required : CasKey(instance, digest.hash) \in before

\* What the update lacks when it is refused.
Lacks(contents, request) ==
    LET instance == request.instance
        result == request.result
    IN  \/ ~ActionKnown(contents, instance, request.action.hash)
        \/ ~TreesReadable(contents, instance, result)
        \/ \E digest :
              /\ Refers(contents, instance, result, digest)
              /\ \/ digest = NoDigest
                 \/ ~IsEmptyDigest(digest) /\ ~Holds(contents, instance, digest)

\* Why the update can never be served: its tree is none, or it is too large.
Hopeless(contents, request) ==
    \/ ~CanStore(EncodeResult(request.result))
    \/ \E tree \in Range(request.result.trees) :
          /\ Holds(contents, request.instance, tree)
          /\ TreeAt(contents, request.instance, tree) = Malformed

\* An answer, once given, against the CAS as it is now.
Answers(contents, failed, call) ==
    LET request == call.request
        complete(result) == Complete(contents, request.instance, result)
    IN  /\ request.method = "get" =>
              /\ call.status = "Ok" => complete(call.result)
              /\ call.status = "NotFound" => ActionAcKey(call) \notin call.before
              /\ call.status = "Internal" => failed
        /\ request.method = "update" =>
              /\ call.status = "Ok" => complete(request.result)
              /\ call.status \in {"FailedPrecondition", "Internal"} =>
                    \/ failed
                    \/ ~CanStore(EncodeResult(request.result))
                    \/ ~Meets(contents, call.before, request)

\* The keys of a set that belong to the CAS are those of its contents.
Among(contents, before) ==
    \A instance, hash :
        CasKey(instance, hash) \in before => <<instance, hash>> \in DOMAIN contents

\* Everything invariant about one call.
CallSound(contents, failed, call) ==
    /\ Among(contents, call.before)
    /\ IF call.status = "running" THEN Progress(contents, call)
                                  ELSE Answers(contents, failed, call)

(***************************************************************************)
(* The inductive invariant of the action cache, on top of the types.       *)
(***************************************************************************)
ResultsInv ==
    /\ ResultsClosed
    /\ \A c \in ActionCalls : actions[c] # Idle =>
          /\ actions[c].before \subseteq DOMAIN blobs
          /\ CallSound(Contents, poisoned, actions[c])
          /\ actions[c].request.method = "update" /\ actions[c].status = "Ok" =>
                Contains(ActionAcKey(actions[c]))

-----------------------------------------------------------------------------
(* What the CAS of an extension still holds *)

\* What was held is held, with the same meaning.
LEMMA HoldsLater ==
    ASSUME NEW contents, NEW larger, Extends(larger, contents),
           NEW instance, NEW digest, Holds(contents, instance, digest)
    PROVE  /\ Holds(larger, instance, digest)
           /\ TreeAt(larger, instance, digest) = TreeAt(contents, instance, digest)
BY DEF Extends, Holds, TreeAt

\* An Action and its command stay.
LEMMA ActionKnownLater ==
    ASSUME NEW contents, NEW larger, Extends(larger, contents),
           NEW instance, NEW hash, ActionKnown(contents, instance, hash)
    PROVE  /\ ActionKnown(larger, instance, hash)
           /\ CommandAt(larger, instance, hash) = CommandAt(contents, instance, hash)
<1>1. CommandAt(larger, instance, hash) = CommandAt(contents, instance, hash)
  BY DEF Extends, ActionKnown, CommandAt
<1>2. <<instance, hash>> \in DOMAIN larger
  BY DEF Extends, ActionKnown
<1> QED
  BY <1>1, <1>2, HoldsLater DEF ActionKnown

\* Readable trees stay readable, and need the same files.
LEMMA TreesLater ==
    ASSUME NEW contents, NEW larger, Extends(larger, contents),
           NEW instance, NEW result, TreesReadable(contents, instance, result)
    PROVE  /\ TreesReadable(larger, instance, result)
           /\ NeededFiles(larger, instance, result) = NeededFiles(contents, instance, result)
<1>1. \A tree \in Range(result.trees) :
          /\ Holds(larger, instance, tree)
          /\ TreeAt(larger, instance, tree) = TreeAt(contents, instance, tree)
  BY HoldsLater DEF TreesReadable
<1> QED
  BY <1>1 DEF TreesReadable, NeededFiles

\* So a complete result stays complete.
LEMMA CompleteLater ==
    ASSUME NEW contents, NEW larger, Extends(larger, contents),
           NEW instance, NEW result, Complete(contents, instance, result)
    PROVE  Complete(larger, instance, result)
BY TreesLater, HoldsLater DEF Complete

\* What a result refers to, it still refers to.
LEMMA RefersLater ==
    ASSUME NEW contents, NEW larger, Extends(larger, contents), NEW instance,
           NEW result, NEW digest, Refers(contents, instance, result, digest)
    PROVE  Refers(larger, instance, result, digest)
BY HoldsLater DEF Refers

\* What a call has collected stays collected.
LEMMA CollectedLater ==
    ASSUME NEW contents, NEW larger, Extends(larger, contents),
           NEW call, Collected(contents, call)
    PROVE  Collected(larger, call)
<1> DEFINE instance == call.request.instance
           Found(cas, digest) == digest \in Range(call.digests) \/ Holds(cas, instance, digest)
<1>1. \A digest : Found(contents, digest) => Found(larger, digest)
  BY HoldsLater
<1>2. \A digest \in Range(call.digests) : Refers(larger, instance, call.result, digest)
  BY RefersLater DEF Collected
<1>3. \A tree : Holds(contents, instance, tree) =>
          /\ Holds(larger, instance, tree)
          /\ TreeAt(larger, instance, tree) = TreeAt(contents, instance, tree)
  BY HoldsLater
<1> QED
  BY <1>1, <1>2, <1>3 DEF Collected

\* The knowledge of a handler is never out of date.
LEMMA ProgressLater ==
    ASSUME NEW contents, NEW larger, Extends(larger, contents),
           NEW call, Progress(contents, call)
    PROVE  Progress(larger, call)
<1> DEFINE request == call.request
           at == <<request.instance, request.action.hash>>
<1>1. at \in DOMAIN contents => at \in DOMAIN larger /\ larger[at] = contents[at]
  BY DEF Extends
<1>2. Collected(contents, call) => Collected(larger, call)
  BY CollectedLater
<1>3. Complete(contents, request.instance, call.result)
          => Complete(larger, request.instance, call.result)
  BY CompleteLater
<1>4. ActionKnown(contents, request.instance, request.action.hash)
          => ActionKnown(larger, request.instance, request.action.hash)
  BY ActionKnownLater
<1> QED
  BY <1>1, <1>2, <1>3, <1>4 DEF Progress

\* A request meets its preconditions from the start or never will: they speak
\* of what was there before it.
LEMMA MeetsEarlier ==
    ASSUME NEW contents, NEW larger, Extends(larger, contents),
           NEW before, Among(contents, before),
           NEW request, Meets(larger, before, request)
    PROVE  Meets(contents, before, request)
<1> DEFINE instance == request.instance
           hash == request.action.hash
           result == request.result
<1>1. ASSUME NEW digest, CasKey(instance, digest.hash) \in before
      PROVE  /\ <<instance, digest.hash>> \in DOMAIN contents
             /\ larger[<<instance, digest.hash>>] = contents[<<instance, digest.hash>>]
  BY <1>1 DEF Among, Extends
<1>2. /\ CasKey(instance, hash) \in before
      /\ CasKey(instance, CommandAt(larger, instance, hash).hash) \in before
      /\ \A tree \in Range(result.trees) : CasKey(instance, tree.hash) \in before
  BY DEF Meets
<1>3. CommandAt(larger, instance, hash) = CommandAt(contents, instance, hash)
  BY <1>1, <1>2 DEF CommandAt
<1>4. ActionKnown(contents, instance, hash)
  BY <1>1, <1>2, <1>3 DEF Meets, ActionKnown, Holds
<1>5. \A tree \in Range(result.trees) :
          /\ TreeAt(larger, instance, tree) = TreeAt(contents, instance, tree)
          /\ Holds(larger, instance, tree) => Holds(contents, instance, tree)
  BY <1>1, <1>2 DEF TreeAt, Holds
<1>6. TreesReadable(contents, instance, result)
  BY <1>5 DEF Meets, TreesReadable
<1>7. NeededFiles(contents, instance, result) = NeededFiles(larger, instance, result)
  BY <1>5 DEF NeededFiles
<1> QED
  BY <1>3, <1>4, <1>6, <1>7 DEF Meets

\* An answer stays right as the CAS grows.
LEMMA AnswersLater ==
    ASSUME NEW contents, NEW larger, Extends(larger, contents),
           NEW failed, NEW failedLater, failed => failedLater,
           NEW call, Among(contents, call.before), Answers(contents, failed, call)
    PROVE  Answers(larger, failedLater, call)
<1> DEFINE request == call.request
<1>1. \A result : Complete(contents, request.instance, result)
                      => Complete(larger, request.instance, result)
  BY CompleteLater
<1>2. Meets(larger, call.before, request) => Meets(contents, call.before, request)
  BY MeetsEarlier
<1> QED
  BY <1>1, <1>2 DEF Answers

\* All that is invariant about a call survives the steps of others.
LEMMA CallSoundLater ==
    ASSUME NEW contents, NEW larger, Extends(larger, contents),
           NEW failed, NEW failedLater, failed => failedLater,
           NEW call, CallSound(contents, failed, call)
    PROVE  CallSound(larger, failedLater, call)
<1>1. Among(larger, call.before)
  BY DEF CallSound, Among, Extends
<1> QED
  BY <1>1, ProgressLater, AnswersLater DEF CallSound

-----------------------------------------------------------------------------
(* The walk over trees and digests *)

\* The elements of a list are its head and those of its tail.
LEMMA HeadAndTail ==
    ASSUME NEW S, NEW s \in Seq(S), s # << >>
    PROVE  Range(s) = {Head(s)} \cup Range(Tail(s))
<1>1. /\ Tail(s) \in Seq(S)
      /\ Len(Tail(s)) = Len(s) - 1
      /\ \A i \in 1..Len(Tail(s)) : Tail(s)[i] = s[i + 1]
  BY HeadTailProperties
<1>2. Len(s) \in Nat \ {0} /\ Head(s) = s[1]
  OBVIOUS
<1>3. \A i \in 1..Len(s) :
          \/ i = 1
          \/ i - 1 \in 1..Len(Tail(s)) /\ s[i] = Tail(s)[i - 1]
  BY <1>1, <1>2
<1>4. /\ Range(s) = {s[i] : i \in 1..Len(s)}
      /\ Range(Tail(s)) = {Tail(s)[i] : i \in 1..Len(Tail(s))}
  BY <1>1, RangeEquality
<1>5. ASSUME NEW x \in Range(s)
      PROVE  x = Head(s) \/ x \in Range(Tail(s))
  BY <1>2, <1>3, <1>4
<1>6. Head(s) \in Range(s)
  BY <1>2, <1>4
<1>7. ASSUME NEW x \in Range(Tail(s))
      PROVE  x \in Range(s)
  <2>1. PICK i \in 1..Len(Tail(s)) : x = Tail(s)[i]
    BY <1>4
  <2>2. i + 1 \in 1..Len(s) /\ x = s[i + 1]
    BY <1>1, <1>2, <2>1
  <2> QED
    BY <1>4, <2>2
<1> QED
  BY <1>5, <1>6, <1>7

\* Whoever starts has all trees, and all digests outside of them, to look up.
LEMMA StartCollected ==
    ASSUME NEW contents, NEW call \in ActionCall, NEW result \in ActionResult,
           NoDigest \notin Range(result.files)
    PROVE  LET next == [call EXCEPT !.phase = "artifacts", !.result = result,
                                    !.trees = result.trees,
                                    !.digests = result.files \o result.logs]
           IN  next \in ActionCall /\ Collected(contents, next)
<1> DEFINE digests == result.files \o result.logs
           next == [call EXCEPT !.phase = "artifacts", !.result = result,
                                !.trees = result.trees, !.digests = digests]
<1>1. result.files \in Seq(Digest) /\ result.logs \in Seq(Digest)
  BY AllDigestsSet DEF ActionResult
<1>2. digests \in Seq(Digest) /\ Range(digests) = Range(result.files) \cup Range(result.logs)
  BY <1>1, RangeConcatenation
<1>3. result.trees \in Seq(OptionalDigest)
  BY DEF ActionResult
<1> HIDE DEF digests
<1>4. next \in ActionCall
  BY <1>2, <1>3 DEF ActionCall, Phase
<1>5. next.result = result /\ next.trees = result.trees /\ next.digests = digests
  BY DEF ActionCall
<1> HIDE DEF next
<1>6. Collected(contents, next)
  BY <1>2, <1>5 DEF Collected, Refers
<1> QED
  BY <1>4, <1>6 DEF next, digests

\* A tree that is resolved hands its files over.
LEMMA TreeCollected ==
    ASSUME NEW contents, NEW call \in ActionCall, Collected(contents, call),
           call.trees # << >>,
           Holds(contents, call.request.instance, Head(call.trees)),
           NEW tree \in Tree, CompleteTree(tree),
           TreeAt(contents, call.request.instance, Head(call.trees)) = tree
    PROVE  LET next == [call EXCEPT !.trees = Tail(@), !.digests = @ \o tree.files]
           IN  next \in ActionCall /\ Collected(contents, next)
<1> DEFINE trees == Tail(call.trees)
           digests == call.digests \o tree.files
           next == [call EXCEPT !.trees = trees, !.digests = digests]
<1>1. call.trees \in Seq(OptionalDigest) /\ call.digests \in Seq(Digest)
  BY DEF ActionCall
<1>2. tree.files \in Seq(Digest) /\ tree # Malformed
  BY AllDigestsSet, MessageAssumption DEF Tree, CompleteTree
<1>3. trees \in Seq(OptionalDigest) /\ Range(call.trees) = {Head(call.trees)} \cup Range(trees)
  BY <1>1, HeadAndTail, HeadTailProperties
<1>4. digests \in Seq(Digest) /\ Range(digests) = Range(call.digests) \cup Range(tree.files)
  BY <1>1, <1>2, RangeConcatenation
<1> HIDE DEF trees, digests
<1>5. next \in ActionCall
  BY <1>3, <1>4 DEF ActionCall
<1>6. /\ next.request = call.request
      /\ next.result = call.result
      /\ next.trees = trees
      /\ next.digests = digests
  BY DEF ActionCall
<1> HIDE DEF next
<1> DEFINE instance == call.request.instance
<1>7. Head(call.trees) \in Range(call.result.trees)
  BY <1>3 DEF Collected
<1>8. \A digest \in Range(digests) : Refers(contents, instance, call.result, digest)
  <2>1. \A digest \in Range(tree.files) : Refers(contents, instance, call.result, digest)
    BY <1>2, <1>7 DEF Refers
  <2> QED
    BY <1>4, <2>1 DEF Collected
<1>9. ASSUME NEW t \in Range(call.result.trees), t \notin Range(trees)
      PROVE  /\ Holds(contents, instance, t)
             /\ TreeAt(contents, instance, t) # Malformed
             /\ TreeAt(contents, instance, t).rooted
             /\ \A digest \in Range(TreeAt(contents, instance, t).files) :
                    digest \in Range(digests) \/ Holds(contents, instance, digest)
  <2>1. CASE t = Head(call.trees)
    BY <1>2, <1>4, <2>1 DEF CompleteTree
  <2>2. CASE t # Head(call.trees)
    BY <1>3, <1>4, <1>9, <2>2 DEF Collected
  <2> QED
    BY <2>1, <2>2
<1>10. Collected(contents, next)
  BY <1>3, <1>4, <1>6, <1>8, <1>9 DEF Collected
<1> QED
  BY <1>5, <1>10 DEF next, trees, digests

\* A digest that is found may be forgotten.
LEMMA DigestCollected ==
    ASSUME NEW contents, NEW call \in ActionCall, Collected(contents, call),
           call.digests # << >>,
           Holds(contents, call.request.instance, Head(call.digests))
    PROVE  LET next == [call EXCEPT !.digests = Tail(@)]
           IN  next \in ActionCall /\ Collected(contents, next)
<1> DEFINE digests == Tail(call.digests)
           next == [call EXCEPT !.digests = digests]
<1>1. digests \in Seq(Digest) /\ Range(call.digests) = {Head(call.digests)} \cup Range(digests)
  BY HeadAndTail, HeadTailProperties DEF ActionCall
<1> HIDE DEF digests
<1>2. next \in ActionCall
  BY <1>1 DEF ActionCall
<1>3. /\ next.request = call.request
      /\ next.result = call.result
      /\ next.trees = call.trees
      /\ next.digests = digests
  BY DEF ActionCall
<1> HIDE DEF next
<1>4. Collected(contents, next)
  BY <1>1, <1>3 DEF Collected
<1> QED
  BY <1>2, <1>4 DEF next, digests

\* Nothing on the lists any more: the result is complete.
LEMMA CollectedAll ==
    ASSUME NEW contents, NEW call, Collected(contents, call),
           call.trees = << >>, call.digests = << >>
    PROVE  Complete(contents, call.request.instance, call.result)
<1>1. Range(call.trees) = {} /\ Range(call.digests) = {}
  BY DEF Range
<1> QED
  BY <1>1 DEF Collected, Complete, TreesReadable, NeededFiles

\* A refused update does not meet its preconditions ...
LEMMA LacksSomething ==
    ASSUME NEW contents, NEW before, Among(contents, before), NEW request,
           Lacks(contents, request)
    PROVE  ~Meets(contents, before, request)
<1> SUFFICES ASSUME Meets(contents, before, request) PROVE FALSE
  OBVIOUS
<1> DEFINE instance == request.instance
<1>1. PICK digest :
          /\ Refers(contents, instance, request.result, digest)
          /\ \/ digest = NoDigest
             \/ ~IsEmptyDigest(digest) /\ ~Holds(contents, instance, digest)
  BY DEF Lacks, Meets
<1>2. digest \in NeededFiles(contents, instance, request.result)
  BY <1>1 DEF Refers, NeededFiles
<1>3. digest # NoDigest
  BY <1>2 DEF Meets
<1>4. CasKey(instance, digest.hash) \in before
  BY <1>1, <1>2, <1>3 DEF Meets
<1> QED
  BY <1>1, <1>3, <1>4 DEF Among, Holds

\* ... nor does one that can never be served, unless it is too large.
LEMMA HopelessMeans ==
    ASSUME NEW contents, NEW before, NEW request, Hopeless(contents, request)
    PROVE  ~CanStore(EncodeResult(request.result)) \/ ~Meets(contents, before, request)
BY DEF Hopeless, Meets, TreesReadable

-----------------------------------------------------------------------------
(* The invariant and the growing store *)

\* The CAS after a step extends the one before.
LEMMA CasExtends ==
    ASSUME StoreInv, StoreInv', StoreGrows
    PROVE  Extends(Contents', Contents)
<1> SUFFICES ASSUME NEW at \in DOMAIN Contents
             PROVE  at \in DOMAIN Contents' /\ Contents'[at] = Contents[at]
  BY DEF Extends
<1>1. PICK k \in CasKeys : at = <<k.instance, k.hash>>
  BY DEF Contents
<1> QED
  BY <1>1, ContentsGrow

\* A step that leaves the store alone leaves the CAS alone.
LEMMA CasStays == ASSUME UNCHANGED storeVars PROVE Contents' = Contents
BY DEF storeVars, Contents, CasKeys, Get

\* Every CAS extends itself.
LEMMA ExtendsItself == \A contents : Extends(contents, contents)
BY DEF Extends

\* Keys that are in the store and belong to the CAS are those of its contents.
LEMMA KeysAmong ==
    ASSUME StoreInv, NEW before, before \subseteq DOMAIN blobs
    PROVE  Among(Contents, before)
BY ContentsOfKeys DEF ContentsMatch, Among, Contains

\* A step that puts into the CAS, or nothing, keeps the cached results closed.
LEMMA ResultsStayClosed ==
    ASSUME StoreInv, ResultsClosed, StoreStep("cas")
    PROVE  ResultsClosed'
<1>1. StoreInv' /\ StoreGrows
  BY StoreStepGrows
<1>2. Extends(Contents', Contents)
  BY <1>1, CasExtends
<1> SUFFICES ASSUME NEW k \in DOMAIN blobs', k.kind = "ac"
             PROVE  LET result == DecodeResult(IdentityData(Get(k)')) IN
                    /\ CanDecode(Get(k)')
                    /\ result # Malformed
                    /\ Complete(Contents', k.instance, result)
                    /\ ActionKnown(Contents', k.instance, k.hash)
  BY DEF ResultsClosed
<1>3. k \in DOMAIN blobs /\ Get(k)' = Get(k)
  BY ResultsUntouched DEF Get
<1> DEFINE result == DecodeResult(IdentityData(Get(k)))
<1>4. /\ CanDecode(Get(k))
      /\ result # Malformed
      /\ Complete(Contents, k.instance, result)
      /\ ActionKnown(Contents, k.instance, k.hash)
  BY <1>3 DEF ResultsClosed
<1>5. Complete(Contents', k.instance, result)
  BY <1>2, <1>4, CompleteLater
<1>6. ActionKnown(Contents', k.instance, k.hash)
  BY <1>2, <1>4, ActionKnownLater
<1> QED
  BY <1>3, <1>4, <1>5, <1>6

\* What the invariant says of a call that is open, in the next state.
OpenLater(call) ==
    /\ call.before \subseteq DOMAIN blobs'
    /\ CallSound(Contents', poisoned', call)
    /\ call.request.method = "update" /\ call.status = "Ok" =>
          ActionAcKey(call) \in DOMAIN blobs'

\* What it says of a call now, it will say when the store has grown.
LEMMA OthersStaySound ==
    ASSUME StoreInv, StoreInv', StoreGrows, ResultsInv,
           NEW c \in ActionCalls, actions[c] # Idle
    PROVE  OpenLater(actions[c])
<1> DEFINE call == actions[c]
<1>1. /\ call.before \subseteq DOMAIN blobs
      /\ CallSound(Contents, poisoned, call)
      /\ call.request.method = "update" /\ call.status = "Ok" =>
            ActionAcKey(call) \in DOMAIN blobs
  BY DEF ResultsInv, Contains
<1>2. Extends(Contents', Contents) /\ (poisoned => poisoned')
  BY CasExtends DEF StoreGrows
<1> HIDE DEF call
<1>3. CallSound(Contents', poisoned', call)
  BY <1>1, <1>2, CallSoundLater
<1>4. DOMAIN blobs \subseteq DOMAIN blobs'
  BY DEF StoreGrows
<1>5. OpenLater(call)
  BY <1>1, <1>3, <1>4 DEF OpenLater
<1> QED
  BY <1>5 DEF call

\* So a step of one call only has to account for that call.
LEMMA OneCallSteps ==
    ASSUME StoreInv, StoreInv', StoreGrows, ActionTypeOK, ResultsInv, ResultsClosed',
           NEW c \in ActionCalls, NEW call, call = Idle \/ OpenLater(call),
           actions' = [actions EXCEPT ![c] = call]
    PROVE  ResultsInv'
<1>1. ASSUME NEW d \in ActionCalls, actions'[d] # Idle
      PROVE  OpenLater(actions'[d])
  <2>1. CASE d = c
    BY <1>1, <2>1 DEF ActionTypeOK
  <2>2. CASE d # c
    <3>1. actions'[d] = actions[d]
      BY <2>2 DEF ActionTypeOK
    <3> QED
      BY <1>1, <3>1, OthersStaySound
  <2> QED
    BY <2>1, <2>2
<1>2. \A d \in ActionCalls : ActionAcKey(actions[d])' = ActionAcKey(actions'[d])
  BY DEF ActionAcKey, AcKey
<1> QED
  BY <1>1, <1>2 DEF ResultsInv, OpenLater, Contains

\* And steps of other services keep the invariant.
LEMMA OtherServicesKeepResults ==
    ASSUME StoreInv, ResultsInv, StoreStep("cas"), UNCHANGED actions
    PROVE  ResultsInv'
<1>1. StoreInv' /\ StoreGrows /\ ResultsClosed'
  BY StoreStepGrows, ResultsStayClosed DEF ResultsInv
<1>2. \A c \in ActionCalls : actions[c] # Idle => OpenLater(actions[c])
  BY <1>1, OthersStaySound
<1>3. \A d \in ActionCalls : ActionAcKey(actions[d])' = ActionAcKey(actions[d])
  BY DEF ActionAcKey, AcKey
<1> QED
  BY <1>1, <1>2, <1>3 DEF ResultsInv, OpenLater, Contains

-----------------------------------------------------------------------------
(* What comes of a step that only reads the store *)

\* The update is refused because it lacks something.
Refused(c) ==
    /\ actions[c].request.method = "update"
    /\ Lacks(Contents, actions[c].request)
    /\ Fails(c, "FailedPrecondition")

\* The call ends because the store is unavailable or its result is no use.
GivenUp(c) ==
    /\ \/ poisoned
       \/ /\ actions[c].request.method = "update"
          /\ Hopeless(Contents, actions[c].request)
    /\ Fails(c, "Internal")

\* There is no result under the action.
Missed(c) ==
    /\ At(actions[c], "get", "lookup")
    /\ ~poisoned
    /\ ~Contains(ActionAcKey(actions[c]))
    /\ Fails(c, "NotFound")

\* The result the action cache has for a call.
Cached(call) == DecodeResult(IdentityData(Get(ActionAcKey(call))))

\* A get goes on, and takes the cached result along once it has looked.
KeepsResult(c, call) ==
    call.request.method = "get" =>
        \/ call.result = actions[c].result
        \/ /\ actions[c].phase = "lookup"
           /\ ~poisoned
           /\ Contains(ActionAcKey(actions[c]))
           /\ call.result = Cached(actions[c])
           /\ call.result # NoResult

GoesOn(c, call) ==
    /\ call \in ActionCall
    /\ call.status = "running"
    /\ call.request = actions[c].request
    /\ call.before = actions[c].before

Advanced(c) ==
    \E call \in ActionCall :
        /\ GoesOn(c, call)
        /\ KeepsResult(c, call)
        /\ Progress(Contents, call)
        /\ Becomes(c, call)

\* A call that runs knows what its phase says, and what it has before it.
LEMMA RunningKnows ==
    ASSUME StoreInv, ActionInv, ResultsInv, NEW c \in ActionCalls, Running(actions[c])
    PROVE  /\ actions[c] \in ActionCall
           /\ actions[c].status = "running"
           /\ actions[c].request \in ActionRequest
           /\ Progress(Contents, actions[c])
           /\ actions[c].before \subseteq DOMAIN blobs
           /\ Among(Contents, actions[c].before)
BY ActionRequestType DEF Running, ResultsInv, CallSound

\* Looking under a key of the CAS is looking at its contents.
LEMMA LookUp ==
    ASSUME StoreInv, NEW instance, NEW hash
    PROVE  /\ Contains(CasKey(instance, hash)) <=> <<instance, hash>> \in DOMAIN Contents
           /\ Contains(CasKey(instance, hash)) =>
                 /\ CanDecode(Get(CasKey(instance, hash)))
                 /\ IdentityData(Get(CasKey(instance, hash))) = Contents[<<instance, hash>>]
                 /\ Contents[<<instance, hash>>] \in Bytes
BY ContentsOfKeys DEF ContentsMatch, StoreInv, Decodes, Contains, Get

\* Starting the validation of a result whose files all have digests.
LEMMA StartAdvances ==
    ASSUME NEW c \in ActionCalls, NEW result \in ActionResult,
           actions[c] \in ActionCall, actions[c].status = "running",
           NoDigest \notin Range(result.files),
           StartsArtifacts(c, result),
           LET request == actions[c].request IN
              /\ request.method = "update" =>
                    /\ Progress(Contents, actions[c])
                    /\ actions[c].phase # "lookup"
                    /\ ActionKnown(Contents, request.instance, request.action.hash)
              /\ request.method = "get" =>
                    /\ actions[c].phase = "lookup"
                    /\ ~poisoned
                    /\ Contains(ActionAcKey(actions[c]))
                    /\ result = Cached(actions[c])
                    /\ Complete(Contents, request.instance, result)
    PROVE  Advanced(c)
<1> DEFINE call == [actions[c] EXCEPT !.phase = "artifacts", !.result = result,
                                      !.trees = result.trees,
                                      !.digests = result.files \o result.logs]
<1>1. call \in ActionCall /\ Collected(Contents, call)
  BY StartCollected
<1>2. /\ call.phase = "artifacts"
      /\ call.result = result
      /\ call.status = "running"
      /\ call.request = actions[c].request
      /\ call.before = actions[c].before
      /\ call.command = actions[c].command
  BY DEF ActionCall
<1>3. Becomes(c, call)
  BY DEF StartsArtifacts
<1> HIDE DEF call
<1>4. Progress(Contents, call)
  BY <1>1, <1>2 DEF Progress
<1>5. GoesOn(c, call)
  BY <1>1, <1>2 DEF GoesOn
<1>6. KeepsResult(c, call)
  BY <1>2, ActionRequestAssumption DEF KeepsResult
<1> QED
  BY <1>1, <1>3, <1>4, <1>5, <1>6 DEF Advanced

\* A result that is found is complete, so that its validation gets started.
LEMMA LooksUpResultOutcome ==
    ASSUME StoreInv, ActionInv, ResultsInv, NEW c \in ActionCalls, LooksUpResult(c)
    PROVE  GivenUp(c) \/ Missed(c) \/ Advanced(c)
<1> DEFINE call == actions[c]
           key == ActionAcKey(call)
           result == Cached(call)
<1>1. Running(call) /\ At(call, "get", "lookup")
  BY DEF LooksUpResult, At
<1>2. call \in ActionCall /\ call.status = "running"
  BY <1>1, RunningKnows
<1>3. CASE poisoned /\ Fails(c, "Internal")
  BY <1>3 DEF GivenUp
<1>4. CASE ~poisoned /\ ~Contains(key) /\ Fails(c, "NotFound")
  BY <1>1, <1>4 DEF Missed
<1>5. CASE /\ ~poisoned /\ Contains(key)
           /\ IF ~CanDecode(Get(key)) THEN Fails(c, "Internal")
              ELSE IF result = Malformed THEN Fails(c, "Internal")
              ELSE StartsArtifacts(c, result)
  <2>1. key.kind = "ac" /\ key.instance = call.request.instance
    BY DEF ActionAcKey, AcKey
  <2>2. /\ CanDecode(Get(key))
        /\ result # Malformed
        /\ Complete(Contents, call.request.instance, result)
    BY <1>5, <2>1 DEF ResultsInv, ResultsClosed, Contains, Cached
  <2>3. result \in ActionResult
    <3>1. IdentityData(Get(key)) \in Bytes
      BY <1>5 DEF Contains, Get, StoreInv, Decodes
    <3> QED
      BY <2>2, <3>1, MessageAssumption DEF Cached
  <2>4. NoDigest \notin Range(result.files)
    BY <2>2 DEF Complete, NeededFiles, Holds
  <2>5. StartsArtifacts(c, result)
    BY <1>5, <2>2
  <2>6. call.request.method = "get" /\ call.phase = "lookup"
    BY <1>1 DEF At
  <2> HIDE DEF result
  <2>7. Advanced(c)
    BY <1>2, <1>5, <2>2, <2>3, <2>4, <2>5, <2>6, StartAdvances DEF result
  <2> QED
    BY <2>7
<1> QED
  BY <1>3, <1>4, <1>5 DEF LooksUpResult, Cached

\* The Action is known to name a command, or the update lacks it.
LEMMA ReadsActionOutcome ==
    ASSUME StoreInv, ActionInv, ResultsInv, NEW c \in ActionCalls, ReadsAction(c)
    PROVE  Refused(c) \/ GivenUp(c) \/ Advanced(c)
<1> DEFINE call == actions[c]
           request == call.request
           key == ActionCasKey(call)
           at == <<request.instance, request.action.hash>>
           command == DecodeAction(IdentityData(Get(key)))
           readable == /\ Contains(key)
                       /\ CanDecode(Get(key))
                       /\ command \notin {Malformed, NoDigest}
           next == [call EXCEPT !.phase = "command", !.command = command]
<1>1. Running(call) /\ request.method = "update"
  BY DEF ReadsAction, At
<1>2. call \in ActionCall /\ call.status = "running"
  BY <1>1, RunningKnows
<1>3. /\ Contains(key) <=> at \in DOMAIN Contents
      /\ Contains(key) =>
            /\ CanDecode(Get(key))
            /\ command = CommandAt(Contents, request.instance, request.action.hash)
            /\ Contents[at] \in Bytes
  BY LookUp DEF ActionCasKey, CommandAt
<1>4. CASE poisoned /\ Fails(c, "Internal")
  BY <1>4 DEF GivenUp
<1>5. CASE ~readable /\ Fails(c, "FailedPrecondition")
  <2>1. ~ActionKnown(Contents, request.instance, request.action.hash)
    BY <1>3, <1>5 DEF ActionKnown, Holds
  <2> QED
    BY <1>1, <1>5, <2>1 DEF Refused, Lacks
<1>6. CASE readable /\ Becomes(c, next)
  <2>1. command \in OptionalDigest
    BY <1>3, <1>6, MessageAssumption DEF CommandAt
  <2>2. at \in DOMAIN Contents /\ DecodeAction(Contents[at]) = command
    BY <1>3, <1>6 DEF CommandAt
  <2>3. command \notin {Malformed, NoDigest}
    BY <1>6
  <2> HIDE DEF command
  <2>4. /\ next \in ActionCall
        /\ next.phase = "command"
        /\ next.command = command
        /\ next.status = "running"
        /\ next.request = request
        /\ next.before = call.before
    BY <1>2, <2>1 DEF ActionCall, Phase
  <2>5. Progress(Contents, next)
    BY <2>2, <2>3, <2>4 DEF Progress
  <2>6. GoesOn(c, next) /\ KeepsResult(c, next)
    BY <1>1, <2>4 DEF GoesOn, KeepsResult
  <2> QED
    BY <1>6, <2>4, <2>5, <2>6 DEF Advanced
<1> QED
  BY <1>4, <1>5, <1>6 DEF ReadsAction

\* With the command there, the Action is known; files need their digests.
LEMMA FindsCommandOutcome ==
    ASSUME StoreInv, ActionInv, ResultsInv, NEW c \in ActionCalls, FindsCommand(c)
    PROVE  Refused(c) \/ GivenUp(c) \/ Advanced(c)
<1> DEFINE call == actions[c]
           request == call.request
           present == Contains(CasKey(request.instance, call.command.hash))
<1>1. Running(call) /\ request.method = "update" /\ call.phase = "command"
  BY DEF FindsCommand, At
<1>2. /\ call \in ActionCall
      /\ call.status = "running"
      /\ request \in ActionRequest
      /\ Progress(Contents, call)
  BY <1>1, RunningKnows
<1>3. request.result \in ActionResult
  BY <1>1, <1>2 DEF ActionRequest, ActionInv, AdmittedActions
<1>4. /\ <<request.instance, request.action.hash>> \in DOMAIN Contents
      /\ CommandAt(Contents, request.instance, request.action.hash) = call.command
      /\ call.command \notin {Malformed, NoDigest}
  BY <1>1, <1>2 DEF Progress, CommandAt
<1>5. present <=> ActionKnown(Contents, request.instance, request.action.hash)
  BY <1>4, LookUp DEF ActionKnown, Holds
<1>6. CASE poisoned /\ Fails(c, "Internal")
  BY <1>6 DEF GivenUp
<1>7. CASE ~present /\ Fails(c, "FailedPrecondition")
  BY <1>1, <1>5, <1>7 DEF Refused, Lacks
<1>8. CASE present /\ StartsArtifacts(c, request.result)
  <2>1. CASE NoDigest \in Range(request.result.files)
    <3>1. Fails(c, "FailedPrecondition")
      BY <1>1, <1>8, <2>1 DEF StartsArtifacts, MissingCode
    <3>2. Refers(Contents, request.instance, request.result, NoDigest)
      BY <2>1 DEF Refers
    <3> QED
      BY <1>1, <3>1, <3>2 DEF Refused, Lacks
  <2>2. CASE NoDigest \notin Range(request.result.files)
    BY <1>1, <1>2, <1>3, <1>5, <1>8, <2>2, StartAdvances
  <2> QED
    BY <2>1, <2>2
<1> QED
  BY <1>6, <1>7, <1>8 DEF FindsCommand

\* A call in the artifacts phase, and the result it is about.
LEMMA InArtifactsKnows ==
    ASSUME StoreInv, ActionInv, ResultsInv, NEW c \in ActionCalls,
           InArtifacts(actions[c])
    PROVE  LET call == actions[c]
               request == call.request
           IN  /\ call \in ActionCall
               /\ call.status = "running"
               /\ call.phase = "artifacts"
               /\ request.method \in {"get", "update"}
               /\ Progress(Contents, call)
               /\ Collected(Contents, call)
               /\ request.method = "update" => call.result = request.result
               /\ request.method = "get" =>
                     Complete(Contents, request.instance, call.result)
<1>1. Running(actions[c]) /\ actions[c].phase = "artifacts"
  BY DEF InArtifacts
<1>2. /\ actions[c] \in ActionCall
      /\ actions[c].status = "running"
      /\ actions[c].request \in ActionRequest
      /\ Progress(Contents, actions[c])
  BY <1>1, RunningKnows
<1>3. actions[c].request.method \in {"get", "update"}
  BY <1>2 DEF ActionRequest
<1>4. actions[c].request.method = "update" => actions[c].result = actions[c].request.result
  BY <1>1 DEF ActionInv, AdmittedActions
<1> QED
  BY <1>1, <1>2, <1>3, <1>4 DEF Progress

\* What a handler in this phase knows does not depend on its lists.
LEMMA WorkProgress ==
    ASSUME NEW contents, NEW old, old.phase = "artifacts", Progress(contents, old),
           NEW call, Collected(contents, call),
           call.phase = old.phase, call.result = old.result,
           call.command = old.command, call.request = old.request
    PROVE  Progress(contents, call)
BY DEF Progress

\* If it only reads the store, it advances.
LEMMA WorkAdvances ==
    ASSUME NEW c \in ActionCalls, NEW call,
           actions[c] \in ActionCall, actions[c].status = "running",
           actions[c].phase = "artifacts", Progress(Contents, actions[c]),
           NEW trees, NEW digests,
           call = [actions[c] EXCEPT !.trees = trees, !.digests = digests],
           call \in ActionCall, Collected(Contents, call), Becomes(c, call)
    PROVE  Advanced(c)
<1>1. /\ call.phase = actions[c].phase
      /\ call.command = actions[c].command
      /\ call.status = actions[c].status
      /\ call.request = actions[c].request
      /\ call.result = actions[c].result
      /\ call.before = actions[c].before
  BY DEF ActionCall
<1>2. Progress(Contents, call)
  BY <1>1, WorkProgress
<1> QED
  BY <1>1, <1>2 DEF Advanced, GoesOn, KeepsResult

\* The trees of a complete result resolve; of an update's, one by one.
LEMMA ResolvesTreeOutcome ==
    ASSUME StoreInv, ActionInv, ResultsInv, NEW c \in ActionCalls, ResolvesTree(c)
    PROVE  Refused(c) \/ GivenUp(c) \/ Advanced(c)
<1> DEFINE call == actions[c]
           request == call.request
           instance == request.instance
           head == Head(call.trees)
           key == CasKey(instance, head.hash)
           tree == DecodeTree(IdentityData(Get(key)))
           next == [call EXCEPT !.trees = Tail(@), !.digests = @ \o tree.files]
<1>1. InArtifacts(call) /\ call.trees # << >>
  BY DEF ResolvesTree
<1>2. /\ call \in ActionCall
      /\ call.status = "running"
      /\ call.phase = "artifacts"
      /\ request.method \in {"get", "update"}
      /\ Progress(Contents, call)
      /\ Collected(Contents, call)
      /\ request.method = "update" => call.result = request.result
      /\ request.method = "get" => Complete(Contents, instance, call.result)
  BY <1>1, InArtifactsKnows
<1>3. head \in Range(call.result.trees)
  BY <1>1, <1>2, HeadAndTail DEF ActionCall, Collected
<1>4. /\ Contains(key) <=> <<instance, head.hash>> \in DOMAIN Contents
      /\ Contains(key) =>
            /\ CanDecode(Get(key))
            /\ tree = TreeAt(Contents, instance, head)
            /\ Contents[<<instance, head.hash>>] \in Bytes
  BY LookUp DEF TreeAt
<1>5. /\ request.method = "get" =>
            /\ Holds(Contents, instance, head)
            /\ TreeAt(Contents, instance, head) # Malformed
            /\ TreeAt(Contents, instance, head).rooted
            /\ NoDigest \notin Range(TreeAt(Contents, instance, head).files)
  BY <1>2, <1>3 DEF Complete, TreesReadable, NeededFiles, Holds
<1>6. ASSUME Fails(c, MissingCode(call)),
             \/ ~Holds(Contents, instance, head)
             \/ ~TreeAt(Contents, instance, head).rooted
             \/ /\ Holds(Contents, instance, head)
                /\ TreeAt(Contents, instance, head) # Malformed
                /\ NoDigest \in Range(TreeAt(Contents, instance, head).files)
      PROVE  Refused(c)
  <2>1. request.method = "update"
    BY <1>2, <1>5, <1>6
  <2>2. Fails(c, "FailedPrecondition")
    BY <1>6, <2>1 DEF MissingCode
  <2>3. Lacks(Contents, request)
    BY <1>2, <1>3, <1>6, <2>1 DEF Lacks, TreesReadable, Refers
  <2> QED
    BY <2>1, <2>2, <2>3 DEF Refused
<1>7. CASE head = NoDigest /\ Fails(c, MissingCode(call))
  BY <1>6, <1>7 DEF Holds
<1>8. CASE poisoned /\ Fails(c, "Internal")
  BY <1>8 DEF GivenUp
<1>9. CASE ~Contains(key) /\ Fails(c, MissingCode(call))
  BY <1>4, <1>6, <1>9 DEF Holds
<1>10. CASE /\ head # NoDigest /\ Contains(key)
            /\ ~CanDecode(Get(key)) \/ tree = Malformed
            /\ Fails(c, "Internal")
  <2>1. Holds(Contents, instance, head) /\ TreeAt(Contents, instance, head) = Malformed
    BY <1>4, <1>10 DEF Holds
  <2> QED
    BY <1>2, <1>3, <1>5, <1>10, <2>1 DEF GivenUp, Hopeless
<1>11. CASE /\ head # NoDigest /\ Contains(key)
            /\ tree # Malformed /\ ~CompleteTree(tree)
            /\ Fails(c, MissingCode(call))
  BY <1>4, <1>6, <1>11 DEF Holds, CompleteTree
<1>12. CASE /\ head # NoDigest /\ Contains(key)
            /\ tree # Malformed /\ CompleteTree(tree)
            /\ Becomes(c, next)
  <2>1. Holds(Contents, instance, head) /\ TreeAt(Contents, instance, head) = tree
    BY <1>4, <1>12 DEF Holds
  <2>2. tree \in Tree
    BY <1>4, <1>12, MessageAssumption DEF TreeAt
  <2> HIDE DEF tree
  <2>3. next \in ActionCall /\ Collected(Contents, next)
    BY <1>1, <1>2, <1>12, <2>1, <2>2, TreeCollected
  <2>4. next = [call EXCEPT !.trees = Tail(call.trees),
                            !.digests = call.digests \o tree.files]
    BY <1>2 DEF ActionCall
  <2> QED
    BY <1>2, <1>12, <2>3, <2>4, WorkAdvances
<1> QED
  BY <1>7, <1>8, <1>9, <1>10, <1>11, <1>12 DEF ResolvesTree

\* A digest on the list is one the result refers to: found, or it is lacking.
LEMMA FindsArtifactOutcome ==
    ASSUME StoreInv, ActionInv, ResultsInv, NEW c \in ActionCalls, FindsArtifact(c)
    PROVE  Refused(c) \/ GivenUp(c) \/ Advanced(c)
<1> DEFINE call == actions[c]
           request == call.request
           instance == request.instance
           digest == NextDigest(call)
           present == Contains(CasKey(instance, digest.hash))
           next == [call EXCEPT !.digests = Tail(@)]
<1>1. /\ InArtifacts(call) /\ call.digests # << >> /\ call.trees = << >>
      /\ ~IsEmptyDigest(digest)
  BY DEF FindsArtifact, HasDigest
<1>2. /\ call \in ActionCall
      /\ call.status = "running"
      /\ call.phase = "artifacts"
      /\ request.method \in {"get", "update"}
      /\ Progress(Contents, call)
      /\ Collected(Contents, call)
      /\ request.method = "update" => call.result = request.result
      /\ request.method = "get" => Complete(Contents, instance, call.result)
  BY <1>1, InArtifactsKnows
<1>3. digest \in Range(call.digests) /\ digest = Head(call.digests) /\ digest # NoDigest
  <2>1. call.digests \in Seq(Digest)
    BY <1>2 DEF ActionCall
  <2>2. digest = Head(call.digests) /\ digest \in Digest
    BY <1>1, <2>1, HeadTailProperties DEF NextDigest
  <2> QED
    BY <1>1, <2>1, <2>2, HeadAndTail, NoDigestAssumption
<1>4. Refers(Contents, instance, call.result, digest)
  BY <1>2, <1>3 DEF Collected
<1>5. present <=> Holds(Contents, instance, digest)
  BY <1>3, LookUp DEF Holds
<1>6. CASE poisoned /\ Fails(c, "Internal")
  BY <1>6 DEF GivenUp
<1>7. CASE ~present /\ Fails(c, MissingCode(call))
  <2>1. request.method = "update"
    <3>1. request.method = "get" => Holds(Contents, instance, digest)
      BY <1>2, <1>4 DEF Complete, NeededFiles, Refers
    <3> QED
      BY <1>2, <1>5, <1>7, <3>1
  <2>2. Lacks(Contents, request)
    BY <1>1, <1>2, <1>4, <1>5, <1>7, <2>1 DEF Lacks
  <2> QED
    BY <1>7, <2>1, <2>2 DEF Refused, MissingCode
<1>8. CASE present /\ Becomes(c, next)
  <2>1. next \in ActionCall /\ Collected(Contents, next)
    BY <1>1, <1>2, <1>3, <1>5, <1>8, DigestCollected
  <2>2. next = [call EXCEPT !.trees = << >>, !.digests = Tail(call.digests)]
    BY <1>1, <1>2 DEF ActionCall
  <2> QED
    BY <1>2, <1>8, <2>1, <2>2, WorkAdvances
<1> QED
  BY <1>6, <1>7, <1>8 DEF FindsArtifact

-----------------------------------------------------------------------------
(* Every step keeps the invariant *)

\* A step that reads the store and turns a call into another one.
LEMMA BecomesSound ==
    ASSUME StoreInv, ActionInv, ResultsInv, NEW c \in ActionCalls, NEW call,
           Becomes(c, call),
           \/ call = Idle
           \/ /\ call.before \subseteq DOMAIN blobs
              /\ CallSound(Contents, poisoned, call)
              /\ call.request.method = "update" => call.status # "Ok"
    PROVE  ResultsInv'
<1>1. UNCHANGED storeVars /\ actions' = [actions EXCEPT ![c] = call]
  BY DEF Becomes
<1>2. StoreStep("cas")
  BY <1>1 DEF StoreStep
<1>3. StoreInv' /\ StoreGrows /\ ResultsClosed' /\ ActionTypeOK
  BY <1>2, StoreStepGrows, ResultsStayClosed DEF ResultsInv, ActionInv
<1>4. Contents' = Contents /\ poisoned' = poisoned /\ blobs' = blobs
  BY <1>1, CasStays DEF storeVars
<1>5. call = Idle \/ OpenLater(call)
  BY <1>4 DEF OpenLater
<1> QED
  BY <1>1, <1>3, <1>5, OneCallSteps

\* An answer leaves the request, the result and the history of a call alone.
LEMMA FinishedFields ==
    ASSUME NEW call \in ActionCall, NEW code \in Code
    PROVE  /\ Finished(call, code).status = code
           /\ Finished(call, code).request = call.request
           /\ Finished(call, code).result = call.result
           /\ Finished(call, code).before = call.before
           /\ ActionAcKey(Finished(call, code)) = ActionAcKey(call)
<1>1. /\ Finished(call, code).status = code
      /\ Finished(call, code).request = call.request
      /\ Finished(call, code).result = call.result
      /\ Finished(call, code).before = call.before
  BY DEF Finished, ActionCall
<1> QED
  BY <1>1 DEF ActionAcKey

\* The outcomes of the reading steps give answers that are right.
LEMMA OutcomeKeepsResults ==
    ASSUME StoreInv, ActionInv, ResultsInv, NEW c \in ActionCalls, Running(actions[c]),
           Refused(c) \/ GivenUp(c) \/ Missed(c) \/ Advanced(c)
    PROVE  ResultsInv'
<1> DEFINE call == actions[c]
<1>1. /\ call \in ActionCall
      /\ Progress(Contents, call)
      /\ call.before \subseteq DOMAIN blobs
      /\ Among(Contents, call.before)
  BY RunningKnows
<1>2. ASSUME NEW code \in Code, code # "Ok", Fails(c, code),
             Answers(Contents, poisoned, Finished(call, code))
      PROVE  ResultsInv'
  <2> DEFINE next == Finished(call, code)
  <2>1. next.status = code /\ next.before = call.before
    BY <1>1, FinishedFields
  <2>2. code # "running"
    BY DEF Code
  <2>3. Becomes(c, next)
    BY <1>2 DEF Fails, Becomes
  <2> HIDE DEF next
  <2>4. CallSound(Contents, poisoned, next)
    BY <1>1, <1>2, <2>1, <2>2 DEF CallSound, next
  <2> QED
    BY <1>1, <1>2, <2>1, <2>3, <2>4, BecomesSound
<1>3. CASE Refused(c)
  <2>1. ~Meets(Contents, call.before, call.request)
    BY <1>1, <1>3, LacksSomething DEF Refused
  <2>2. Answers(Contents, poisoned, Finished(call, "FailedPrecondition"))
    BY <1>1, <1>3, <2>1, FinishedFields DEF Answers, Refused, Code
  <2> QED
    BY <1>2, <1>3, <2>2 DEF Refused, Code
<1>4. CASE GivenUp(c)
  <2>1. \/ poisoned
        \/ /\ call.request.method = "update"
           /\ \/ ~CanStore(EncodeResult(call.request.result))
              \/ ~Meets(Contents, call.before, call.request)
    BY <1>1, <1>4, HopelessMeans DEF GivenUp
  <2>2. Answers(Contents, poisoned, Finished(call, "Internal"))
    BY <1>1, <2>1, FinishedFields DEF Answers, Code
  <2> QED
    BY <1>2, <1>4, <2>2 DEF GivenUp, Code
<1>5. CASE Missed(c)
  <2>1. call.request.method = "get" /\ ActionAcKey(call) \notin call.before
    BY <1>1, <1>5 DEF Missed, At, Contains
  <2>2. Answers(Contents, poisoned, Finished(call, "NotFound"))
    BY <1>1, <2>1, FinishedFields DEF Answers, Code
  <2> QED
    BY <1>2, <1>5, <2>2 DEF Missed, Code
<1>6. CASE Advanced(c)
  <2>1. PICK next \in ActionCall :
            GoesOn(c, next) /\ Progress(Contents, next) /\ Becomes(c, next)
    BY <1>6 DEF Advanced
  <2>2. CallSound(Contents, poisoned, next)
    BY <1>1, <2>1 DEF CallSound, GoesOn
  <2> QED
    BY <1>1, <2>1, <2>2, BecomesSound DEF GoesOn
<1> QED
  BY <1>3, <1>4, <1>5, <1>6

\* A call arrives with nothing known and nothing claimed.
LEMMA ArrivesSound ==
    ASSUME StoreInv, ActionInv, ResultsInv, NEW c \in ActionCalls,
           NEW request \in ActionRequests, ActionArrives(c, request)
    PROVE  ResultsInv'
<1> DEFINE valid == /\ request.action # NoDigest
                    /\ request.method = "update" => request.result # NoResult
                    /\ ResolvesFunction(request.function)
           call == [status |-> Admission(valid), request |-> request,
                    phase |-> "lookup", command |-> NoDigest, result |-> NoResult,
                    trees |-> << >>, digests |-> << >>, before |-> DOMAIN blobs]
<1>1. Becomes(c, call)
  BY DEF ActionArrives, Becomes
<1>2. Admission(valid) \in {"running", "InvalidArgument"}
  BY DEF Admission
<1>3. Among(Contents, DOMAIN blobs)
  BY KeysAmong
<1> HIDE DEF valid
<1>4. CallSound(Contents, poisoned, call)
  BY <1>2, <1>3 DEF CallSound, Progress, Answers
<1> QED
  BY <1>1, <1>2, <1>4, BecomesSound


\* An empty artifact is there once it has been put.
LEMMA StoresEmptyArtifactSound ==
    ASSUME StoreInv, ActionInv, ResultsInv, NEW c \in ActionCalls, StoresEmptyArtifact(c)
    PROVE  ResultsInv'
<1> DEFINE call == actions[c]
           instance == call.request.instance
           key == CasKey(instance, EmptyHash)
           next == [call EXCEPT !.digests = Tail(@)]
<1>1. /\ InArtifacts(call) /\ Running(call)
      /\ call.digests # << >> /\ call.trees = << >>
      /\ IsEmptyDigest(NextDigest(call))
  BY DEF StoresEmptyArtifact, HasDigest, InArtifacts
<1>2. CASE poisoned /\ Fails(c, "Internal")
  BY <1>1, <1>2, OutcomeKeepsResults DEF GivenUp
<1>3. CASE /\ Put(key, IdentityBlob(<< >>))
           /\ actions' = [actions EXCEPT ![c] = next]
  <2>1. StoreStep("cas") /\ ActionTypeOK
    BY StoresEmptyArtifactInv DEF ActionInv
  <2>2. StoreInv' /\ StoreGrows /\ ResultsClosed' /\ Extends(Contents', Contents)
    BY <2>1, StoreStepGrows, ResultsStayClosed, CasExtends DEF ResultsInv
  <2>3. /\ call \in ActionCall
        /\ call.status = "running"
        /\ call.phase = "artifacts"
        /\ Progress(Contents, call)
        /\ Collected(Contents, call)
    BY <1>1, InArtifactsKnows
  <2>4. OpenLater(call)
    BY <1>1, <2>2, OthersStaySound DEF Running
  <2>5. Progress(Contents', call) /\ Collected(Contents', call)
    BY <2>2, <2>3, ProgressLater, CollectedLater
  <2>6. Holds(Contents', instance, Head(call.digests))
    <3>1. key \in DOMAIN blobs'
      BY <1>3 DEF Put
    <3>2. <<instance, EmptyHash>> \in DOMAIN Contents'
      BY <2>2, <3>1, ContentsOfKeysAfter DEF ContentsMatch, Contains
    <3>3. Head(call.digests) \in Digest /\ Head(call.digests).hash = EmptyHash
      BY <1>1, <2>3, HeadTailProperties DEF ActionCall, NextDigest, IsEmptyDigest
    <3> QED
      BY <3>2, <3>3, NoDigestAssumption DEF Holds
  <2>7. next \in ActionCall /\ Collected(Contents', next)
    BY <1>1, <2>3, <2>5, <2>6, DigestCollected
  <2>8. /\ next.phase = "artifacts"
        /\ next.result = call.result
        /\ next.command = call.command
        /\ next.status = "running"
        /\ next.request = call.request
        /\ next.before = call.before
    BY <2>3 DEF ActionCall
  <2>9. Progress(Contents', next)
    BY <2>3, <2>5, <2>7, <2>8, WorkProgress
  <2>10. OpenLater(next)
    BY <2>4, <2>8, <2>9 DEF OpenLater, CallSound
  <2> QED
    BY <1>3, <2>1, <2>2, <2>10, OneCallSteps
<1> QED
  BY <1>2, <1>3 DEF StoresEmptyArtifact

\* GetActionResult answers when nothing is left to look up.
LEMMA GetRepliesSound ==
    ASSUME StoreInv, ActionInv, ResultsInv, NEW c \in ActionCalls, GetReplies(c)
    PROVE  ResultsInv'
<1> DEFINE call == actions[c]
           next == Finished(call, "Ok")
<1>1. /\ InArtifacts(call) /\ Running(call)
      /\ call.request.method = "get"
      /\ Becomes(c, next)
  BY DEF GetReplies, Validated, InArtifacts
<1>2. /\ call \in ActionCall
      /\ Complete(Contents, call.request.instance, call.result)
      /\ call.before \subseteq DOMAIN blobs
      /\ Among(Contents, call.before)
  BY <1>1, InArtifactsKnows, RunningKnows
<1>3. /\ next.status = "Ok"
      /\ next.request = call.request
      /\ next.result = call.result
      /\ next.before = call.before
  BY <1>2, FinishedFields DEF Code
<1> HIDE DEF next
<1>4. CallSound(Contents, poisoned, next)
  BY <1>1, <1>2, <1>3 DEF CallSound, Answers
<1> QED
  BY <1>1, <1>2, <1>3, <1>4, BecomesSound

\* A result that is put is closed: all it needs has been found, and is there.
LEMMA CachesResultSound ==
    ASSUME StoreInv, ActionInv, ResultsInv, NEW c \in ActionCalls, CachesResult(c)
    PROVE  ResultsInv'
<1> DEFINE call == actions[c]
           request == call.request
           data == EncodeResult(call.result)
           key == ActionAcKey(call)
           next == Finished(call, "Ok")
<1>1. /\ InArtifacts(call) /\ Running(call)
      /\ call.digests = << >> /\ call.trees = << >>
      /\ request.method = "update"
  BY DEF CachesResult, Validated, InArtifacts
<1>2. /\ call \in ActionCall
      /\ Progress(Contents, call)
      /\ Collected(Contents, call)
      /\ call.result = request.result
      /\ call.phase = "artifacts"
  BY <1>1, InArtifactsKnows
<1>3. /\ Complete(Contents, request.instance, call.result)
      /\ ActionKnown(Contents, request.instance, request.action.hash)
  BY <1>1, <1>2, CollectedAll DEF Progress
<1>4. data \in Bytes /\ DecodeResult(data) = call.result /\ call.result # Malformed
  <2>1. request \in ActionRequests /\ request.result # NoResult
    BY <1>1, <1>2 DEF ActionInv, AdmittedActions, ActionCall
  <2>2. call.result \in ActionResult
    BY <1>2 DEF Collected
  <2> QED
    BY <1>2, <2>1, <2>2, EncodingAssumption, MessageAssumption
<1>5. CASE /\ ~CanStore(data) \/ poisoned
           /\ Fails(c, "Internal")
  BY <1>1, <1>2, <1>5, OutcomeKeepsResults DEF GivenUp, Hopeless
<1>6. CASE /\ CanStore(data)
           /\ Put(key, StoredForm(data))
           /\ actions' = [actions EXCEPT ![c] = next]
  <2>1. StoreStep("ac") /\ ActionTypeOK
    BY CachesResultInv DEF ActionInv
  <2>2. StoreInv' /\ StoreGrows /\ Extends(Contents', Contents)
    BY <2>1, StoreStepGrows, CasExtends
  <2>3. /\ CanDecode(StoredForm(data))
        /\ DecodeResult(IdentityData(StoredForm(data))) = call.result
    BY <1>4, <1>6, StoredFormDecodes DEF Decodes
  <2>4. /\ DOMAIN blobs' = DOMAIN blobs \cup {key}
        /\ \A k \in DOMAIN blobs' :
              blobs'[k] = IF k = key THEN StoredForm(data) ELSE blobs[k]
    BY <1>6 DEF Put
  <2>5. /\ Complete(Contents', request.instance, call.result)
        /\ ActionKnown(Contents', request.instance, request.action.hash)
    BY <1>3, <2>2, CompleteLater, ActionKnownLater
  <2>6. ResultsClosed'
    <3> SUFFICES ASSUME NEW k \in DOMAIN blobs', k.kind = "ac"
                 PROVE  LET result == DecodeResult(IdentityData(blobs'[k])) IN
                        /\ CanDecode(blobs'[k])
                        /\ result # Malformed
                        /\ Complete(Contents', k.instance, result)
                        /\ ActionKnown(Contents', k.instance, k.hash)
      BY DEF ResultsClosed, Get
    <3>1. CASE k = key
      <4>1. k.instance = request.instance /\ k.hash = request.action.hash
        BY <3>1 DEF ActionAcKey, AcKey
      <4>2. blobs'[k] = StoredForm(data)
        BY <2>4, <3>1
      <4> QED
        BY <1>4, <2>3, <2>5, <4>1, <4>2
    <3>2. CASE k # key
      <4>1. k \in DOMAIN blobs /\ blobs'[k] = blobs[k]
        BY <2>4, <3>2
      <4> DEFINE result == DecodeResult(IdentityData(blobs[k]))
      <4>2. /\ CanDecode(blobs[k])
            /\ result # Malformed
            /\ Complete(Contents, k.instance, result)
            /\ ActionKnown(Contents, k.instance, k.hash)
        BY <4>1 DEF ResultsInv, ResultsClosed, Get
      <4>3. /\ Complete(Contents', k.instance, result)
            /\ ActionKnown(Contents', k.instance, k.hash)
        BY <2>2, <4>2, CompleteLater, ActionKnownLater
      <4> QED
        BY <4>1, <4>2, <4>3
    <3> QED
      BY <3>1, <3>2
  <2>7. OpenLater(next)
    <3>1. OpenLater(call)
      BY <1>1, <2>2, OthersStaySound DEF Running
    <3>2. /\ next.status = "Ok"
          /\ next.request = request
          /\ next.before = call.before
          /\ ActionAcKey(next) = key
      BY <1>2, FinishedFields DEF Code
    <3>3. key \in DOMAIN blobs'
      BY <2>4
    <3> HIDE DEF next
    <3>4. Answers(Contents', poisoned', next)
      BY <1>1, <1>2, <2>5, <3>2 DEF Answers
    <3> QED
      BY <3>1, <3>2, <3>3, <3>4 DEF OpenLater, CallSound
  <2> QED
    BY <1>6, <2>1, <2>2, <2>6, <2>7, OneCallSteps
<1> QED
  BY <1>5, <1>6 DEF CachesResult

\* A panic frees the slot and leaves the store as it is.
LEMMA ActionPanicsSound ==
    ASSUME StoreInv, ActionInv, ResultsInv, NEW c \in ActionCalls, ActionPanics(c)
    PROVE  ResultsInv'
<1>1. StoreStep("cas")
  BY DEF ActionPanics, StoreStep
<1>2. StoreInv' /\ StoreGrows /\ ResultsClosed' /\ ActionTypeOK
  BY <1>1, StoreStepGrows, ResultsStayClosed DEF ResultsInv, ActionInv
<1>3. actions' = [actions EXCEPT ![c] = Idle]
  BY DEF ActionPanics
<1> QED
  BY <1>2, <1>3, OneCallSteps

\* The steps that only read, and what comes of each.
ReadingStep(c) ==
    LooksUpResult(c) \/ ReadsAction(c) \/ FindsCommand(c) \/ ResolvesTree(c) \/ FindsArtifact(c)

LEMMA ReadingStepOutcome ==
    ASSUME StoreInv, ActionInv, ResultsInv, NEW c \in ActionCalls, ReadingStep(c)
    PROVE  /\ Running(actions[c])
           /\ Refused(c) \/ GivenUp(c) \/ Missed(c) \/ Advanced(c)
<1>1. Running(actions[c])
  BY DEF ReadingStep, LooksUpResult, ReadsAction, FindsCommand, ResolvesTree,
         FindsArtifact, HasDigest, InArtifacts, At
<1> QED
  BY <1>1, LooksUpResultOutcome, ReadsActionOutcome, FindsCommandOutcome,
     ResolvesTreeOutcome, FindsArtifactOutcome DEF ReadingStep

\* The invariant is inductive over the steps of the service ...
LEMMA ActionStepsKeepResults ==
    ASSUME StoreInv, ActionInv, ResultsInv, ActionNext
    PROVE  ResultsInv'
<1>1. CASE \E c \in ActionCalls, request \in ActionRequests : ActionArrives(c, request)
  BY <1>1, ArrivesSound
<1>2. CASE \E c \in ActionCalls : ReadingStep(c)
  BY <1>2, ReadingStepOutcome, OutcomeKeepsResults
<1>3. CASE \E c \in ActionCalls : StoresEmptyArtifact(c)
  BY <1>3, StoresEmptyArtifactSound
<1>4. CASE \E c \in ActionCalls : GetReplies(c) \/ CachesResult(c)
  BY <1>4, GetRepliesSound, CachesResultSound
<1>5. CASE \E c \in ActionCalls : ActionPanics(c)
  BY <1>5, ActionPanicsSound
<1>6. CASE \E c \in ActionCalls : ActionReturns(c)
  BY <1>6, BecomesSound DEF ActionReturns
<1> QED
  BY <1>1, <1>2, <1>3, <1>4, <1>5, <1>6 DEF ActionNext, ActionStep, ReadingStep

\* ... and says of the answers what the service promises.
LEMMA ResultsInvImplies ==
    ResultsInv => ResultsClosed /\ GetResultSound /\ UpdateResultSound
<1> SUFFICES ASSUME ResultsInv
             PROVE  GetResultSound /\ UpdateResultSound
  BY DEF ResultsInv
<1>1. ASSUME NEW c \in ActionCalls, Replied(actions[c])
      PROVE  /\ Answers(Contents, poisoned, actions[c])
             /\ actions[c].request.method = "update" /\ actions[c].status = "Ok" =>
                   Contains(ActionAcKey(actions[c]))
  BY <1>1 DEF Replied, ResultsInv, CallSound
<1>2. GetResultSound
  BY <1>1 DEF GetResultSound, Answers
<1>3. ASSUME NEW call
      PROVE  MeetsPreconditions(call) <=> Meets(Contents, call.before, call.request)
  BY DEF MeetsPreconditions, Meets
<1>4. UpdateResultSound
  BY <1>1, <1>3 DEF UpdateResultSound, Answers
<1> QED
  BY <1>2, <1>4

=============================================================================
