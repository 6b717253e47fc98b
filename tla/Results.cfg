\* Two ActionCache calls at once while a client uploads what their results need.
SPECIFICATION Spec
CONSTANTS
    c1 = c1
    c2 = c2
    c3 = c3
    Idle = Idle
    NoDigest = NoDigest
    CorruptFrame = CorruptFrame
    Malformed = Malformed
    NoResult = NoResult
    NotANumber = NotANumber
    Byte <- MCByte
    Bytes <- MCResultBytes
    Hashes <- MCResultHashes
    Hash <- MCHash
    Compress <- MCCompress
    Decompress <- MCDecode
    MaxDecompressedSize = 2
    Instances <- MCInstances
    MayPoison = FALSE
    MayRestart = FALSE
    FindCalls = {}
    ReadCalls = {}
    UpdateCalls = {c3}
    FindRequests = {}
    ReadRequests = {}
    UpdateRequests <- MCResultUploads
    DownloadCalls = {}
    WriteCalls = {}
    Downloads = {}
    WriteChunks = {}
    Names = {}
    ChunkSize = 2
    Decimal <- MCDecimal
    ActionCalls = {c1, c2}
    ActionRequests <- MCActionRequests
    EncodeResult <- MCEncodeResult
    DecodeResult <- MCDecodeResult
    DecodeAction <- MCDecodeAction
    DecodeTree <- MCDecodeTree
SYMMETRY MCSymmetry
INVARIANTS
    ResultsClosed
    GetResultSound
    UpdateResultSound
