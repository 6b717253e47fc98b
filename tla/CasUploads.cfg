\* Two BatchUpdate calls at once, with faulty entries.
SPECIFICATION CasSpec
CONSTANTS
    c1 = c1
    c2 = c2
    i1 = i1
    i2 = i2
    Idle = Idle
    NoDigest = NoDigest
    CorruptFrame = CorruptFrame
    Byte <- MCByte
    Bytes <- MCBytesAll
    Hashes <- MCHashes
    Hash <- MCHash
    Compress <- MCCompress
    Decompress <- MCDecode
    MaxDecompressedSize = 2
    Instances = {i1, i2}
    MayPoison = TRUE
    FindCalls = {}
    ReadCalls = {}
    UpdateCalls = {c1, c2}
    FindRequests <- MCFindRequests
    ReadRequests <- MCReadRequests
    UpdateRequests <- MCUpdateRequests
INVARIANTS
    CasIntegrity
    BatchUpdateSound
PROPERTIES
    CasContentKept
