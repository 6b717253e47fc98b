\* The blobs of a result arrive through CAS and ByteStream, in a server that may restart.
SPECIFICATION Spec
CONSTANTS
    c1 = c1
    c2 = c2
    c3 = c3
    Idle = Idle
    NoDigest = NoDigest
    CorruptFrame = CorruptFrame
    Malformed = Malformed
    NoResult = NoResult
    NotANumber = NotANumber
    Byte <- MCByte
    Bytes <- MCResultBytes
    Hashes <- MCResultHashes
    Hash <- MCHash
    Compress <- MCCompress
    Decompress <- MCDecode
    MaxDecompressedSize = 2
    Instances <- MCInstances
    MayPoison = TRUE
    MayRestart = TRUE
    FindCalls = {c1}
    ReadCalls = {}
    UpdateCalls = {c1}
    FindRequests <- MCServerFinds
    ReadRequests = {}
    UpdateRequests <- MCServerUploads
    DownloadCalls = {}
    WriteCalls = {c1}
    Downloads = {}
    WriteChunks <- MCServerChunks
    Names <- MCServerNames
    ChunkSize = 2
    Decimal <- MCDecimal
    ActionCalls = {c1}
    ActionRequests <- MCServerActions
    EncodeResult <- MCEncodeResult
    DecodeResult <- MCDecodeResult
    DecodeAction <- MCDecodeAction
    DecodeTree <- MCDecodeTree
INVARIANTS
    FindMissingSound
    ResultsClosed
PROPERTIES
    ContentKept
