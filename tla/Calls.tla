------------------------------- MODULE Calls -------------------------------
(***************************************************************************)
(* RPCs in flight.  tonic runs each request in a task of its own on a      *)
(* multi-threaded runtime (rust-reapi/src/bin/cache.rs), so calls of all   *)
(* services interleave between any two store operations.  A service keeps  *)
(* one table per method, from the slots a client may use to the state of   *)
(* the call: Idle, or a record whose status is "running" until the handler *)
(* returns and a gRPC code from then on.  A replied call stays in its slot *)
(* until the client has taken the response.                                *)
(*                                                                         *)
(* Awaiting InMemoryStore or the codec never suspends a handler, so a      *)
(* client that goes away cannot stop one half-way; it loses the response,  *)
(* which is the same as taking it.                                         *)
(***************************************************************************)
EXTENDS InMemoryStore, Functions

CONSTANT Idle

Code == {"Ok", "InvalidArgument", "NotFound", "FailedPrecondition",
         "OutOfRange", "Unimplemented", "Internal"}
Status == Code \cup {"running"}

Running(call) == call # Idle /\ call.status = "running"
Replied(call) == call # Idle /\ call.status # "running"
RepliedOk(call) == call # Idle /\ call.status = "Ok"

\* The status of a call whose arguments are checked before any store access.
Admission(valid) == IF valid THEN "running" ELSE "InvalidArgument"

=============================================================================
