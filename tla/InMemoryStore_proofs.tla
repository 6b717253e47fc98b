------------------------ MODULE InMemoryStore_proofs ------------------------
(***************************************************************************)
(* What a put does to a store whose entries all decode, and what every     *)
(* service can count on while others write: the store only grows.          *)
(***************************************************************************)
EXTENDS InMemoryStore, TLAPS

\* A blob whose body decodes, within the size limit, to a byte string, whose
\* frame the server has made itself, and whose metadata tell both sizes.
Decodes(blob) ==
    /\ blob \in Blob
    /\ CanDecode(blob)
    /\ IdentityData(blob) \in Bytes
    /\ blob.encoding = "zstd" => blob.data = Compress(IdentityData(blob))
    /\ blob.uncompressed_size = Len(IdentityData(blob))
    /\ blob.stored_size = Len(blob.data)

\* The entries of both caches decode; those of the CAS to the content named.
StoreInv ==
    /\ DOMAIN blobs \subseteq BlobKey
    /\ poisoned \in BOOLEAN
    /\ \A k \in DOMAIN blobs : Decodes(blobs[k])
    /\ \A k \in DOMAIN blobs :
          k.kind = "cas" => Hash(IdentityData(blobs[k])) = k.hash

\* A pair that may be put: what StoreInv asks of an entry.
GoodEntry(key, blob) ==
    /\ key \in BlobKey
    /\ Decodes(blob)
    /\ key.kind = "cas" => Hash(IdentityData(blob)) = key.hash

\* What a step does to the store: nothing, a panic, or one good put.
StoreStep(kind) ==
    \/ UNCHANGED storeVars
    \/ PutPanics
    \/ \E key \in BlobKey, blob \in Blob :
          key.kind = kind /\ GoodEntry(key, blob) /\ Put(key, blob)

\* What no such step undoes: keys stay, content stays, a broken lock stays so.
StoreGrows ==
    /\ DOMAIN blobs \subseteq DOMAIN blobs'
    /\ KeepsContent
    /\ poisoned => poisoned'

\* The invariant gives the two properties of the store.
LEMMA StoreInvImplies == StoreInv => StoreTypeOK /\ CasIntegrity
BY DEF StoreInv, StoreTypeOK, CasIntegrity, Authentic, Decodes

\* The byte strings considered are sequences of bytes.
LEMMA BytesAreSequences ==
    ASSUME NEW b \in Bytes
    PROVE  b \in Seq(Byte) /\ Hash(b) \in Hashes /\ Len(b) \in Nat
<1>1. b \in Seq(Byte) /\ Hash(b) \in Hashes
  BY BytesAssumption
<1> QED
  BY <1>1

\* from_identity_data keeps what it is given, and says how long it is.
LEMMA StoredFormDecodes ==
    ASSUME NEW b \in Bytes, CanStore(b)
    PROVE  Decodes(StoredForm(b)) /\ IdentityData(StoredForm(b)) = b
<1> DEFINE blob == StoredForm(b)
<1>1. Len(b) \in Nat /\ Len(b) <= MaxDecompressedSize
  BY BytesAreSequences
     DEF CanStore, CanTranscode, IdentityBlob, EncodedBlob
<1>2. Compress(b) \in Seq(Byte) /\ Len(Compress(b)) \in Nat
  BY CodecAssumption
<1>3. blob = [encoding |-> "zstd", uncompressed_size |-> Len(b),
              stored_size |-> Len(Compress(b)), data |-> Compress(b)]
  BY DEF StoredForm, Transcode, IdentityBlob, EncodedBlob
<1>4. blob \in Blob
  BY <1>1, <1>2, <1>3 DEF Blob, Encoding
<1>5. IdentityData(blob) = b
  BY <1>3, CodecAssumption DEF IdentityData, Transcode, EncodedBlob
<1>6. CanDecode(blob)
  BY <1>1, <1>3, CodecAssumption, CorruptFrameAssumption
     DEF CanDecode, CanTranscode, DecompressesTo
<1> QED
  BY <1>3, <1>4, <1>5, <1>6 DEF Decodes

\* A blob that is small enough decodes as it is ...
LEMMA IdentityBlobDecodes ==
    ASSUME NEW b \in Bytes, Len(b) <= MaxDecompressedSize
    PROVE  Decodes(IdentityBlob(b)) /\ IdentityData(IdentityBlob(b)) = b
<1> DEFINE blob == IdentityBlob(b)
<1>1. b \in Seq(Byte) /\ Len(b) \in Nat
  BY BytesAreSequences
<1>2. blob = [encoding |-> "identity", uncompressed_size |-> Len(b),
              stored_size |-> Len(b), data |-> b]
  BY DEF IdentityBlob, EncodedBlob
<1>3. blob \in Blob
  BY <1>1, <1>2 DEF Blob, Encoding
<1>4. IdentityData(blob) = b
  BY <1>2 DEF IdentityData, Transcode
<1>5. CanDecode(blob)
  BY <1>2 DEF CanDecode, CanTranscode
<1> QED
  BY <1>2, <1>3, <1>4, <1>5 DEF Decodes

\* ... and so does the empty blob the action cache puts.
LEMMA EmptyBlobDecodes ==
    Decodes(IdentityBlob(<< >>)) /\ IdentityData(IdentityBlob(<< >>)) = << >>
<1>1. << >> \in Bytes /\ Len(<< >>) = 0 /\ 0 <= MaxDecompressedSize
  BY BytesAssumption, LimitAssumption
<1> QED
  BY <1>1, IdentityBlobDecodes

\* The checks before a put establish that the payload is the blob named.
LEMMA VerifiedUploadIdentity ==
    ASSUME NEW hash, NEW size, NEW data \in Bytes,
           NEW encoding \in Encoding,
           VerifiedUpload(hash, size, data, encoding)
    PROVE  LET b == IdentityData(EncodedBlob(data, encoding, size))
           IN  b \in Bytes /\ Hash(b) = hash /\ Len(b) = size
<1> DEFINE blob == EncodedBlob(data, encoding, size)
           b == IdentityData(blob)
<1>1. blob.encoding = encoding /\ blob.data = data
  BY DEF EncodedBlob
<1>2. CanDecode(blob) /\ Validates(hash, size, b)
  BY DEF VerifiedUpload
<1>3. b \in Bytes
  <2>1. CASE encoding = "identity"
    BY <1>1, <2>1 DEF IdentityData, Transcode
  <2>2. CASE encoding = "zstd"
    <3>1. Decompress(data) # CorruptFrame
      BY <1>1, <1>2, <2>2 DEF CanDecode, CanTranscode, DecompressesTo
    <3>2. b = Decompress(data)
      BY <1>1, <2>2 DEF IdentityData, Transcode, EncodedBlob
    <3> QED
      BY <3>1, <3>2, CodecAssumption
  <2> QED
    BY <2>1, <2>2 DEF Encoding
<1> QED
  BY <1>2, <1>3 DEF Validates

\* Hashes do not collide: content addressing leaves no choice of the content.
LEMMA PutKeepsStore ==
    ASSUME NEW key, NEW blob, StoreInv, GoodEntry(key, blob), Put(key, blob)
    PROVE  StoreInv' /\ StoreGrows
<1>1. /\ DOMAIN blobs' = DOMAIN blobs \cup {key}
      /\ \A k \in DOMAIN blobs' : blobs'[k] = IF k = key THEN blob ELSE blobs[k]
      /\ poisoned' = poisoned
  BY DEF Put
<1>2. StoreInv'
  BY <1>1 DEF StoreInv, GoodEntry, Decodes
<1>3. KeepsContent
  <2> SUFFICES ASSUME NEW k \in DOMAIN blobs, k.kind = "cas"
               PROVE  k \in DOMAIN blobs' /\ IdentityData(blobs'[k]) = IdentityData(blobs[k])
    BY DEF KeepsContent
  <2>1. CASE k # key
    BY <1>1, <2>1
  <2>2. CASE k = key
    <3>1. IdentityData(blob) \in Bytes /\ IdentityData(blobs[k]) \in Bytes
      BY <2>2 DEF StoreInv, GoodEntry, Decodes
    <3>2. Hash(IdentityData(blob)) = Hash(IdentityData(blobs[k]))
      BY <2>2 DEF StoreInv, GoodEntry
    <3> QED
      BY <1>1, <2>2, <3>1, <3>2, HashAssumption
  <2> QED
    BY <2>1, <2>2
<1> QED
  BY <1>1, <1>2, <1>3 DEF StoreGrows

\* Steps without a put: the store is left alone or its lock is poisoned.
LEMMA OtherStepsKeepStore ==
    ASSUME StoreInv, UNCHANGED storeVars \/ PutPanics
    PROVE  StoreInv' /\ StoreGrows
BY DEF StoreInv, Decodes, StoreGrows, KeepsContent, storeVars, PutPanics

\* So the store is sound after every step, and has only grown.
LEMMA StoreStepGrows ==
    ASSUME StoreInv, NEW kind, StoreStep(kind)
    PROVE  StoreInv' /\ StoreGrows
BY PutKeepsStore, OtherStepsKeepStore DEF StoreStep

\* A step that puts into the CAS leaves the results alone.
LEMMA ResultsUntouched ==
    ASSUME StoreInv, StoreStep("cas"), NEW k, k.kind = "ac"
    PROVE  /\ k \in DOMAIN blobs' <=> k \in DOMAIN blobs
           /\ k \in DOMAIN blobs => blobs'[k] = blobs[k]
BY DEF StoreStep, Put, PutPanics, storeVars

\* The metadata of a CAS entry stay true of its content, whoever overwrites it.
LEMMA SizesKept ==
    ASSUME StoreInv, StoreInv', KeepsContent, NEW k \in DOMAIN blobs, k.kind = "cas"
    PROVE  blobs'[k].uncompressed_size = blobs[k].uncompressed_size
BY DEF StoreInv, KeepsContent, Decodes

\* Whatever is stored can be answered, as bytes, in either encoding.
LEMMA TranscodeGivesBytes ==
    ASSUME NEW blob, Decodes(blob), NEW target \in Encoding
    PROVE  Transcode(blob, target).data \in Seq(Byte)
<1>1. blob.encoding \in Encoding /\ blob.data \in Seq(Byte)
  BY DEF Decodes, Blob
<1>2. CASE blob.encoding = target
  BY <1>1, <1>2 DEF Transcode
<1>3. CASE blob.encoding # target /\ target = "identity"
  <2>1. Transcode(blob, target).data = IdentityData(blob)
    BY <1>3 DEF IdentityData
  <2> QED
    BY <2>1, BytesAreSequences DEF Decodes
<1>4. CASE blob.encoding # target /\ target = "zstd"
  <2>1. blob.encoding = "identity"
    BY <1>1, <1>4 DEF Encoding
  <2>2. blob.data \in Bytes
    BY <2>1 DEF Decodes, IdentityData, Transcode
  <2>3. Transcode(blob, target).data = Compress(blob.data)
    BY <1>4 DEF Transcode, EncodedBlob
  <2> QED
    BY <2>2, <2>3, CodecAssumption
<1> QED
  BY <1>2, <1>3, <1>4 DEF Encoding

\* Conversion never fails on what is stored, and gives the content itself or
\* the one frame the codec makes of it.
LEMMA StoredBlobsConvert ==
    ASSUME NEW blob, Decodes(blob), NEW target \in Encoding
    PROVE  /\ CanTranscode(blob, target)
           /\ Transcode(blob, target).data =
                 IF target = "identity" THEN IdentityData(blob)
                                        ELSE Compress(IdentityData(blob))
<1>1. blob.encoding \in Encoding /\ blob.uncompressed_size <= MaxDecompressedSize
  BY DEF Decodes, Blob, CanDecode, CanTranscode
<1>2. CASE target = "identity"
  BY <1>2 DEF Decodes, CanDecode, IdentityData
<1>3. CASE target = "zstd" /\ blob.encoding = "zstd"
  BY <1>1, <1>3 DEF Decodes, CanTranscode, Transcode
<1>4. CASE target = "zstd" /\ blob.encoding = "identity"
  <2>1. IdentityData(blob) = blob.data
    BY <1>4 DEF IdentityData, Transcode
  <2> QED
    BY <1>1, <1>4, <2>1 DEF Decodes, CanTranscode, Transcode, EncodedBlob
<1> QED
  BY <1>1, <1>2, <1>3, <1>4 DEF Encoding

\* An upload that was verified is small enough to be stored: the size it
\* declares was held against the limit before.
LEMMA VerifiedUploadFits ==
    ASSUME NEW hash, NEW size, NEW data \in Bytes, NEW encoding \in Encoding,
           VerifiedUpload(hash, size, data, encoding)
    PROVE  CanStore(IdentityData(EncodedBlob(data, encoding, size)))
<1> DEFINE b == IdentityData(EncodedBlob(data, encoding, size))
<1>1. Len(b) = size
  BY DEF VerifiedUpload, Validates
<1>2. size <= MaxDecompressedSize
  BY DEF VerifiedUpload, CanDecode, CanTranscode, EncodedBlob
<1> HIDE DEF b
<1>3. CanStore(b)
  BY <1>1, <1>2 DEF CanStore, CanTranscode, IdentityBlob, EncodedBlob
<1> QED
  BY <1>3 DEF b

-----------------------------------------------------------------------------
(* The CAS as its clients see it *)

\* The contents are those of the CAS keys, one by one.
ContentsMatch ==
    \A instance, hash :
        LET key == CasKey(instance, hash) IN
        /\ <<instance, hash>> \in DOMAIN Contents <=> Contains(key)
        /\ Contains(key) =>
              /\ Contents[<<instance, hash>>] = IdentityData(Get(key))
              /\ Contents[<<instance, hash>>] \in Bytes

\* No two keys of the CAS stand for the same instance and hash.
LEMMA ContentsOfKeys == StoreInv => ContentsMatch
<1> SUFFICES ASSUME StoreInv, NEW instance, NEW hash
             PROVE  LET key == CasKey(instance, hash) IN
                    /\ <<instance, hash>> \in DOMAIN Contents <=> Contains(key)
                    /\ Contains(key) =>
                          /\ Contents[<<instance, hash>>] = IdentityData(Get(key))
                          /\ Contents[<<instance, hash>>] \in Bytes
  BY DEF ContentsMatch
<1> DEFINE key == CasKey(instance, hash)
<1>1. DOMAIN Contents = {<<k.instance, k.hash>> : k \in CasKeys}
  BY DEF Contents
<1>2. ASSUME Contains(key)
      PROVE  <<instance, hash>> \in DOMAIN Contents
  <2>1. key \in CasKeys /\ key.instance = instance /\ key.hash = hash
    BY <1>2 DEF CasKeys, Contains, CasKey
  <2> QED
    BY <1>1, <2>1
<1>3. ASSUME <<instance, hash>> \in DOMAIN Contents
      PROVE  Contains(key)
  <2>1. PICK k \in CasKeys : <<instance, hash>> = <<k.instance, k.hash>>
    BY <1>1, <1>3
  <2>2. k \in BlobKey /\ k.kind = "cas" /\ k.instance = instance /\ k.hash = hash
    BY <2>1 DEF CasKeys, StoreInv
  <2>3. k = key
    BY <2>2 DEF BlobKey, CasKey
  <2> QED
    BY <2>1, <2>3 DEF CasKeys, Contains
<1>4. ASSUME Contains(key)
      PROVE  /\ Contents[<<instance, hash>>] = IdentityData(Get(key))
             /\ Contents[<<instance, hash>>] \in Bytes
  <2>1. Contents[<<instance, hash>>] = IdentityData(Get(key))
    BY <1>1, <1>2, <1>4 DEF Contents
  <2> QED
    BY <1>4, <2>1 DEF Contains, Get, StoreInv, Decodes
<1> QED
  BY <1>2, <1>3, <1>4

\* The same in the next state.
LEMMA ContentsOfKeysAfter == StoreInv' => ContentsMatch'
BY ContentsOfKeys, PTL

\* They are only ever extended.
LEMMA ContentsGrow ==
    ASSUME StoreInv, StoreInv', StoreGrows, NEW instance, NEW hash,
           <<instance, hash>> \in DOMAIN Contents
    PROVE  /\ <<instance, hash>> \in DOMAIN Contents'
           /\ Contents'[<<instance, hash>>] = Contents[<<instance, hash>>]
<1> DEFINE key == CasKey(instance, hash)
<1>1. Contains(key) /\ Contents[<<instance, hash>>] = IdentityData(Get(key))
  BY ContentsOfKeys DEF ContentsMatch
<1>2. key.kind = "cas"
  BY DEF CasKey
<1>3. Contains(key)' /\ IdentityData(Get(key)') = IdentityData(Get(key))
  BY <1>1, <1>2 DEF StoreGrows, KeepsContent, Contains, Get
<1>4. /\ <<instance, hash>> \in DOMAIN Contents'
      /\ Contents'[<<instance, hash>>] = IdentityData(Get(key)')
  BY <1>3, ContentsOfKeysAfter DEF ContentsMatch
<1> QED
  BY <1>1, <1>3, <1>4

=============================================================================
