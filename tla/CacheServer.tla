---------------------------- MODULE CacheServer ----------------------------
(***************************************************************************)
(* The cache server, rust-reapi/src/bin/cache.rs: the services over one    *)
(* InMemoryStore in one process.  Their calls interleave freely, and the   *)
(* process may be killed and started again, which loses the store and all  *)
(* calls in flight.  The Capabilities service has no state: clients use it.*)
(***************************************************************************)
EXTENDS CasService, ByteStreamService, ActionCacheService

CONSTANT MayRestart         \* whether the process may be restarted

ASSUME MayRestartAssumption == MayRestart \in BOOLEAN

\* An empty slot is not taken for a call, here or in ResultCache.
ASSUME IdleAssumption ==
    /\ Idle \notin FindCall \cup DownloadCall \cup WriteCall \cup ActionCall
    /\ Idle \notin [request : ActionRequests, status : Status,
                    result : ActionResult \cup {NoResult}]

vars == <<storeVars, casVars, streamVars, actions>>

Init ==
    /\ StoreInit
    /\ CasInit
    /\ StreamInit
    /\ ActionInit

\* main builds an empty store; clients see their calls fail.
Restart ==
    /\ MayRestart
    /\ blobs' = [k \in {} |-> IdentityBlob(<< >>)]
    /\ poisoned' = FALSE
    /\ finds' = [c \in FindCalls |-> Idle]
    /\ reads' = [c \in ReadCalls |-> Idle]
    /\ updates' = [c \in UpdateCalls |-> Idle]
    /\ downloads' = [c \in DownloadCalls |-> Idle]
    /\ writes' = [c \in WriteCalls |-> Idle]
    /\ actions' = [c \in ActionCalls |-> Idle]

Next ==
    \/ CasNext /\ UNCHANGED <<streamVars, actions>>
    \/ StreamNext /\ UNCHANGED <<casVars, actions>>
    \/ ActionNext /\ UNCHANGED <<casVars, streamVars>>
    \/ Restart

(***************************************************************************)
(* The runtime keeps polling every handler that can go on.  Clients owe    *)
(* nothing: not a request, not the next message of a write, and not that   *)
(* they take a response.                                                   *)
(***************************************************************************)
Fairness ==
    /\ \A c \in FindCalls : WF_vars(FindStep(c) /\ UNCHANGED <<streamVars, actions>>)
    /\ \A c \in ReadCalls : WF_vars(ReadStep(c) /\ UNCHANGED <<streamVars, actions>>)
    /\ \A c \in UpdateCalls : WF_vars(UpdateStep(c) /\ UNCHANGED <<streamVars, actions>>)
    /\ \A c \in DownloadCalls : WF_vars(DownloadReads(c) /\ UNCHANGED <<casVars, actions>>)
    /\ \A c \in ActionCalls : WF_vars(ActionStep(c) /\ UNCHANGED <<casVars, streamVars>>)

Spec == Init /\ [][Next]_vars /\ Fairness

-----------------------------------------------------------------------------
(* Properties *)

\* The store and the call tables of every service keep their shapes.
TypeOK == StoreTypeOK /\ CasTypeOK /\ StreamTypeOK /\ ActionTypeOK

(***************************************************************************)
(* Until the process is restarted, no step of any service removes a CAS    *)
(* entry or changes the bytes it stands for, whoever writes its key again. *)
(***************************************************************************)
ContentKept == [][KeepsContent \/ Restart]_vars

(***************************************************************************)
(* Every unary call is answered, or lost with the process, whatever the    *)
(* other services do to the store meanwhile.                               *)
(***************************************************************************)
CallsAnswered ==
    /\ CasCallsAnswered
    /\ \A c \in DownloadCalls : Running(downloads[c]) ~> ~Running(downloads[c])
    /\ \A c \in ActionCalls : Running(actions[c]) ~> ~Running(actions[c])

(***************************************************************************)
(* The server keeps the promise of ResultCache: its calls that look blobs  *)
(* up one by one, between the steps of all other calls, answer as if each  *)
(* had looked at the whole store at one instant.  The CAS is seen through  *)
(* its encodings, a cached result through its encoding and its message;    *)
(* of a call only the request, what a get has found and the status remain. *)
(***************************************************************************)
AcKeys == {k \in DOMAIN blobs : k.kind = "ac"}

Promise == INSTANCE ResultCache WITH
    contents <- Contents,
    results <- [at \in {<<k.instance, k.hash>> : k \in AcKeys} |->
                    DecodeResult(IdentityData(Get(AcKey(at[1], at[2]))))],
    failed <- poisoned,
    calls <- [c \in ActionCalls |->
                IF actions[c] = Idle THEN Idle
                ELSE [request |-> actions[c].request, status |-> actions[c].status,
                      result |-> IF actions[c].request.method = "get"
                                 THEN actions[c].result ELSE NoResult]]

ServesResults == Promise!Spec

=============================================================================
