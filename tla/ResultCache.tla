----------------------------- MODULE ResultCache -----------------------------
(***************************************************************************)
(* What the server promises about action results, as one object with       *)
(* atomic steps: no lookups one by one, no encodings, no other services.   *)
(*                                                                         *)
(* Byte strings appear in the CAS and stay.  A result is accepted in one   *)
(* step, when its Action, the command and all it needs are there, and      *)
(* refused only when at that moment something is not.  A request for a     *)
(* result looks once at what is cached; if there is a result, that is the  *)
(* answer.  Failure makes the object unavailable; only a restart, which    *)
(* empties it, ends that.                                                  *)
(***************************************************************************)
EXTENDS ActionResults

CONSTANTS
    Instances,
    ActionCalls, ActionRequests,
    Idle,
    MaxDecompressedSize,    \* results of a larger encoding are refused
    MayPoison, MayRestart   \* whether it may fail, whether it may restart

VARIABLES
    contents,   \* the CAS
    results,    \* a partial function from instances and hashes to results
    failed,     \* unavailable until the next restart
    calls       \* the calls in progress, answered or not

promiseVars == <<contents, results, failed, calls>>

Init ==
    /\ contents = << >>
    /\ results = << >>
    /\ failed = FALSE
    /\ calls = [c \in ActionCalls |-> Idle]

With(f, x, y) == [z \in DOMAIN f \cup {x} |-> IF z = x THEN y ELSE f[z]]

\* Any service may add a byte string, under its own hash.
Stores ==
    /\ ~failed
    /\ contents' # contents
    /\ UNCHANGED <<results, failed, calls>>
    /\ \E instance \in Instances, b \in Bytes :
            contents' = With(contents, <<instance, Hash(b)>>, b)

-----------------------------------------------------------------------------

WellFormed(request) ==
    /\ request.action # NoDigest
    /\ ResolvesFunction(request.function)
    /\ request.method = "update" => request.result # NoResult

Asks(c) ==
    /\ calls[c] = Idle
    /\ \E request \in ActionRequests :
          calls' = [calls EXCEPT ![c] =
              [request |-> request, result |-> NoResult,
               status |-> IF WellFormed(request) THEN "running" ELSE "InvalidArgument"]]
    /\ UNCHANGED <<contents, results, failed>>

Pending(c, method) ==
    /\ calls[c] # Idle
    /\ calls[c].status = "running"
    /\ calls[c].request.method = method

Key(c) == <<calls[c].request.instance, calls[c].request.action.hash>>

Reply(c, code) == calls' = [calls EXCEPT ![c].status = code]

\* The one look at what is cached, and the answer.
Looks(c) ==
    /\ Pending(c, "get")
    /\ calls[c].result = NoResult
    /\ ~failed
    /\ Key(c) \in DOMAIN results
    /\ calls' = [calls EXCEPT ![c].result = results[Key(c)]]
    /\ UNCHANGED <<contents, results, failed>>

Misses(c) ==
    /\ Pending(c, "get")
    /\ Reply(c, "NotFound")
    /\ calls[c].result = NoResult
    /\ ~failed
    /\ Key(c) \notin DOMAIN results
    /\ UNCHANGED <<contents, results, failed>>

Hits(c) ==
    /\ Pending(c, "get")
    /\ Reply(c, "Ok")
    /\ calls[c].result # NoResult
    /\ Complete(contents, calls[c].request.instance, calls[c].result)
    /\ UNCHANGED <<contents, results, failed>>

\* The update is sound: the Action is known and the result complete.
Justified(request) ==
    /\ ActionKnown(contents, request.instance, request.action.hash)
    /\ Complete(contents, request.instance, request.result)

Accepts(c) ==
    /\ Pending(c, "update")
    /\ Reply(c, "Ok")
    /\ ~failed
    /\ Justified(calls[c].request)
    /\ results' = With(results, Key(c), calls[c].request.result)
    /\ UNCHANGED <<contents, failed>>

Refuses(c) ==
    /\ Pending(c, "update")
    /\ Reply(c, "FailedPrecondition")
    /\ ~Justified(calls[c].request)
    /\ UNCHANGED <<contents, results, failed>>

\* A result that can never be served: its tree is none, or it is too large.
Unusable(request) ==
    \/ \E tree \in Range(request.result.trees) :
          /\ Holds(contents, request.instance, tree)
          /\ TreeAt(contents, request.instance, tree) = Malformed
    \/ Len(EncodeResult(request.result)) > MaxDecompressedSize

GivesUp(c) ==
    /\ \/ Pending(c, "get") /\ failed
       \/ Pending(c, "update") /\ (failed \/ Unusable(calls[c].request))
    /\ Reply(c, "Internal")
    /\ UNCHANGED <<contents, results, failed>>

Takes(c) ==
    /\ calls[c] # Idle
    /\ calls[c].status # "running"
    /\ calls' = [calls EXCEPT ![c] = Idle]
    /\ UNCHANGED <<contents, results, failed>>

-----------------------------------------------------------------------------

\* The failure may take the call down in which it happens.
Breaks ==
    /\ MayPoison
    /\ ~failed
    /\ failed' = TRUE
    /\ \/ UNCHANGED calls
       \/ \E c \in ActionCalls :
            /\ calls[c] # Idle /\ calls[c].status = "running"
            /\ calls' = [calls EXCEPT ![c] = Idle]
    /\ UNCHANGED <<contents, results>>

Restarts ==
    /\ MayRestart
    /\ contents' = << >>
    /\ results' = << >>
    /\ failed' = FALSE
    /\ calls' = [c \in ActionCalls |-> Idle]

Next ==
    \/ \E c \in ActionCalls :
        \/ Asks(c) \/ Looks(c) \/ Misses(c) \/ Hits(c)
        \/ Accepts(c) \/ Refuses(c) \/ GivesUp(c) \/ Takes(c)
    \/ Stores \/ Breaks \/ Restarts

Spec == Init /\ [][Next]_promiseVars

=============================================================================
