--------------------------- MODULE InMemoryStore ---------------------------
(***************************************************************************)
(* The blob store every service shares: the BlobStore trait of             *)
(* rust-reapi/src/storage/blob_store.rs and its one implementation,        *)
(* in_memory.rs, a map behind a reader-writer lock.                        *)
(*                                                                         *)
(* Each operation holds the lock once, so it is one atomic step.  The lock *)
(* becomes poisoned when a thread panics inside the critical section of    *)
(* put; from then on every operation answers StorageError::Unavailable.    *)
(* Nothing removes a key.                                                  *)
(***************************************************************************)
EXTENDS BlobCodec

CONSTANTS
    Instances,      \* REAPI instance names
    MayPoison       \* whether a put may panic while it holds the lock

ASSUME MayPoisonAssumption == MayPoison \in BOOLEAN

VARIABLES
    blobs,          \* InMemoryStore.blobs, a partial function on keys
    poisoned        \* the lock is poisoned

storeVars == <<blobs, poisoned>>

Kind == {"cas", "ac"}
BlobKey == [instance : Instances, hash : Hashes, kind : Kind]

CasKey(instance, hash) == [instance |-> instance, hash |-> hash, kind |-> "cas"]

\* Mutant of AcKey: the results of all instances are one.
AcKeyOfAnyInstance(instance, hash) == [instance |-> << >>, hash |-> hash, kind |-> "ac"]

AcKey(instance, hash) == [instance |-> instance, hash |-> hash, kind |-> "ac"]

StoreInit ==
    /\ blobs = [k \in {} |-> IdentityBlob(<< >>)]
    /\ poisoned = FALSE

\* BlobStore::contains and get, on a lock that is not poisoned
Contains(key) == key \in DOMAIN blobs
Get(key) == blobs[key]

\* Mutant of Put: a full store drops the entries of its kind.
PutEvicting(key, blob) ==
    /\ ~poisoned
    /\ blobs' = [k \in {k \in DOMAIN blobs : k.kind # key.kind} \cup {key} |->
                    IF k = key THEN blob ELSE blobs[k]]
    /\ UNCHANGED poisoned

\* BlobStore::put inserts the blob or overwrites the one that is there.
Put(key, blob) ==
    /\ ~poisoned
    /\ blobs' = [k \in DOMAIN blobs \cup {key} |->
                    IF k = key THEN blob ELSE blobs[k]]
    /\ UNCHANGED poisoned

\* Mutant of PutPanics: the panic strikes while the map is being rebuilt.
PutPanicsInRebuild ==
    /\ MayPoison
    /\ ~poisoned
    /\ poisoned' = TRUE
    /\ blobs' = [k \in {} |-> IdentityBlob(<< >>)]

\* A panic during the insertion: the lock is poisoned, the map is as it was.
PutPanics ==
    /\ MayPoison
    /\ ~poisoned
    /\ poisoned' = TRUE
    /\ UNCHANGED blobs

\* The CAS as its clients see it: the byte strings behind instance and hash.
CasKeys == {k \in DOMAIN blobs : k.kind = "cas"}
Contents ==
    [at \in {<<k.instance, k.hash>> : k \in CasKeys} |->
        IdentityData(Get(CasKey(at[1], at[2])))]

StoreTypeOK ==
    /\ DOMAIN blobs \subseteq BlobKey
    /\ \A k \in DOMAIN blobs : blobs[k] \in Blob
    /\ poisoned \in BOOLEAN

(***************************************************************************)
(* Content addressing: every CAS entry decodes, within the size limit, to  *)
(* the one byte string its key's hash names, and its metadata tell the     *)
(* truth about both sizes.  Three code paths write CAS entries (batch      *)
(* update, ByteStream write, and the empty-blob shortcut of the action     *)
(* cache) and every reader relies on this.                                 *)
(***************************************************************************)
Authentic(key, blob) ==
    /\ CanDecode(blob)
    /\ IdentityData(blob) \in Bytes
    /\ Hash(IdentityData(blob)) = key.hash
    /\ blob.uncompressed_size = Len(IdentityData(blob))
    /\ blob.stored_size = Len(blob.data)

CasIntegrity ==
    \A k \in DOMAIN blobs : k.kind = "cas" => Authentic(k, blobs[k])

(***************************************************************************)
(* A step keeps every CAS entry and the content it stands for.  The        *)
(* encoding may change (a zstd entry of the empty blob is overwritten by   *)
(* an identity one and back), the decoded bytes may not.                   *)
(***************************************************************************)
KeepsContent ==
    \A k \in DOMAIN blobs : k.kind = "cas" =>
        /\ k \in DOMAIN blobs'
        /\ IdentityData(blobs'[k]) = IdentityData(blobs[k])

=============================================================================
