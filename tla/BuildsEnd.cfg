\* One client builds two actions in two instances; panics and restarts of the server.
SPECIFICATION BuildsSpec
CONSTANTS
    c1 = c1
    c2 = c2
    c3 = c3
    Idle = Idle
    NoDigest = NoDigest
    CorruptFrame = CorruptFrame
    Malformed = Malformed
    NoResult = NoResult
    NotANumber = NotANumber
    Byte <- MCByte
    Bytes <- MCBuildBytes
    Hashes <- MCBuildHashes
    Hash <- MCHash
    Compress <- MCCompress
    Decompress <- MCDecode
    MaxDecompressedSize = 2
    Instances <- MCInstances
    MayPoison = TRUE
    MayRestart = TRUE
    FindCalls = {c1}
    ReadCalls = {}
    UpdateCalls = {}
    FindRequests <- MCBuildFinds
    ReadRequests = {}
    UpdateRequests = {}
    DownloadCalls = {c1}
    WriteCalls = {c1}
    Downloads <- MCBuildDownloads
    WriteChunks <- MCBuildMessages
    Names <- MCBuildNames
    ChunkSize = 2
    Decimal <- MCDecimal
    ActionCalls = {c1}
    ActionRequests <- MCBuildActions
    EncodeResult <- MCEncodeResult
    DecodeResult <- MCDecodeResult
    DecodeAction <- MCDecodeAction
    DecodeTree <- MCDecodeTree
    Clients = {c1}
    Targets <- MCTwoTargets
    Outcomes <- MCSoleOutcomes
    UploadName <- MCUploadName
    DownloadName <- MCDownloadName
PROPERTIES
    BuildsEnd
INVARIANTS
    UndisturbedBuildsSucceed
    AcknowledgedResultsHold
    HitsWereReported
