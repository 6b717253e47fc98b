\* ActionCache requests of every kind, faulty ones too; the store may fail and the server restart.
SPECIFICATION Spec
CONSTANTS
    c1 = c1
    c2 = c2
    c3 = c3
    Idle = Idle
    NoDigest = NoDigest
    CorruptFrame = CorruptFrame
    Malformed = Malformed
    NoResult = NoResult
    NotANumber = NotANumber
    Byte <- MCByte
    Bytes <- MCResultBytes
    Hashes <- MCResultHashes
    Hash <- MCHash
    Compress <- MCCompress
    Decompress <- MCDecode
    MaxDecompressedSize = 2
    Instances <- MCInstances
    MayPoison = TRUE
    MayRestart = TRUE
    FindCalls = {}
    ReadCalls = {}
    UpdateCalls = {c3}
    FindRequests = {}
    ReadRequests = {}
    UpdateRequests <- MCFaultyUploads
    DownloadCalls = {}
    WriteCalls = {}
    Downloads = {}
    WriteChunks = {}
    Names = {}
    ChunkSize = 2
    Decimal <- MCDecimal
    ActionCalls = {c1}
    ActionRequests <- MCFaultyRequests
    EncodeResult <- MCEncodeResult
    DecodeResult <- MCDecodeResult
    DecodeAction <- MCDecodeAction
    DecodeTree <- MCDecodeTree
INVARIANTS
    ResultsClosed
    GetResultSound
    UpdateResultSound
PROPERTIES
    ServesResults
