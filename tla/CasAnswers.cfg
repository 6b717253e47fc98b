\* Every CAS call is answered, also over a store that fails.
SPECIFICATION CasSpec
CONSTANTS
    c1 = c1
    c2 = c2
    i1 = i1
    i2 = i2
    Idle = Idle
    NoDigest = NoDigest
    CorruptFrame = CorruptFrame
    Byte <- MCByte
    Bytes <- MCBytesAll
    Hashes <- MCHashes
    Hash <- MCHash
    Compress <- MCCompress
    Decompress <- MCDecode
    MaxDecompressedSize = 2
    Instances = {i1, i2}
    MayPoison = TRUE
    FindCalls = {c1}
    ReadCalls = {c1}
    UpdateCalls = {c1}
    FindRequests <- MCBriefFinds
    ReadRequests <- MCBriefReads
    UpdateRequests <- MCBriefUploads
PROPERTIES
    CasCallsAnswered
