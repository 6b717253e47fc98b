\* Two ByteStream writes of one blob at once and a read, over a store that may fail.
SPECIFICATION Spec
CONSTANTS
    c1 = c1
    c2 = c2
    c3 = c3
    Idle = Idle
    NoDigest = NoDigest
    CorruptFrame = CorruptFrame
    Malformed = Malformed
    NoResult = NoResult
    NotANumber = NotANumber
    Byte <- MCByte
    Bytes <- MCStreamBytes
    Hashes <- MCStreamHashes
    Hash <- MCHash
    Compress <- MCCompress
    Decompress <- MCDecode
    MaxDecompressedSize = 2
    Instances <- MCInstances
    MayPoison = TRUE
    MayRestart = FALSE
    FindCalls = {}
    ReadCalls = {}
    UpdateCalls = {}
    FindRequests = {}
    ReadRequests = {}
    UpdateRequests = {}
    DownloadCalls = {c3}
    WriteCalls = {c1, c2}
    Downloads <- MCDownloads
    WriteChunks <- MCWriteChunks
    Names <- MCStreamNames
    ChunkSize = 2
    Decimal <- MCDecimal
    ActionCalls = {}
    ActionRequests = {}
    EncodeResult <- MCEncodeResult
    DecodeResult <- MCDecodeResult
    DecodeAction <- MCDecodeAction
    DecodeTree <- MCDecodeTree
SYMMETRY MCSymmetry
INVARIANTS
    TypeOK
    CasIntegrity
    DownloadSound
    WriteSound
