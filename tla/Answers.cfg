\* Every call is answered, in a server whose store may fail and that may restart.
SPECIFICATION Spec
CONSTANTS
    c1 = c1
    c2 = c2
    c3 = c3
    Idle = Idle
    NoDigest = NoDigest
    CorruptFrame = CorruptFrame
    Malformed = Malformed
    NoResult = NoResult
    NotANumber = NotANumber
    Byte <- MCByte
    Bytes <- MCResultBytes
    Hashes <- MCResultHashes
    Hash <- MCHash
    Compress <- MCCompress
    Decompress <- MCDecode
    MaxDecompressedSize = 2
    Instances <- MCInstances
    MayPoison = TRUE
    MayRestart = TRUE
    FindCalls = {}
    ReadCalls = {}
    UpdateCalls = {c1}
    FindRequests = {}
    ReadRequests = {}
    UpdateRequests <- MCBriefUploads
    DownloadCalls = {c1}
    WriteCalls = {}
    Downloads <- MCBriefDownloads
    WriteChunks = {}
    Names <- MCEmptyNames
    ChunkSize = 2
    Decimal <- MCDecimal
    ActionCalls = {c1}
    ActionRequests <- MCBriefActions
    EncodeResult <- MCEncodeResult
    DecodeResult <- MCDecodeResult
    DecodeAction <- MCDecodeAction
    DecodeTree <- MCDecodeTree
PROPERTIES
    CallsAnswered
