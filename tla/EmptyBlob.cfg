\* The empty blob, written by BatchUpdate and by the ActionCache, while it is read.
SPECIFICATION Spec
CONSTANTS
    c1 = c1
    c2 = c2
    c3 = c3
    Idle = Idle
    NoDigest = NoDigest
    CorruptFrame = CorruptFrame
    Malformed = Malformed
    NoResult = NoResult
    NotANumber = NotANumber
    Byte <- MCByte
    Bytes <- MCResultBytes
    Hashes <- MCResultHashes
    Hash <- MCHash
    Compress <- MCCompress
    Decompress <- MCDecode
    MaxDecompressedSize = 2
    Instances <- MCInstances
    MayPoison = FALSE
    MayRestart = TRUE
    FindCalls = {}
    ReadCalls = {c1}
    UpdateCalls = {c1}
    FindRequests = {}
    ReadRequests <- MCEmptyReads
    UpdateRequests <- MCEmptyUploads
    DownloadCalls = {c1}
    WriteCalls = {}
    Downloads <- MCEmptyDownloads
    WriteChunks = {}
    Names <- MCEmptyNames
    ChunkSize = 2
    Decimal <- MCDecimal
    ActionCalls = {c1}
    ActionRequests <- MCEmptyActions
    EncodeResult <- MCEncodeResult
    DecodeResult <- MCDecodeResult
    DecodeAction <- MCDecodeAction
    DecodeTree <- MCDecodeTree
INVARIANTS
    CasIntegrity
    BatchReadSound
    DownloadSound
PROPERTIES
    ContentKept
