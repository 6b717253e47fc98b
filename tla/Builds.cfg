\* Two clients run the same action, with different outcomes, over and over.
SPECIFICATION BuildsSpec
CONSTANTS
    c1 = c1
    c2 = c2
    c3 = c3
    Idle = Idle
    NoDigest = NoDigest
    CorruptFrame = CorruptFrame
    Malformed = Malformed
    NoResult = NoResult
    NotANumber = NotANumber
    Byte <- MCByte
    Bytes <- MCBuildBytes
    Hashes <- MCBuildHashes
    Hash <- MCHash
    Compress <- MCCompress
    Decompress <- MCDecode
    MaxDecompressedSize = 2
    Instances <- MCOneInstance
    MayPoison = TRUE
    MayRestart = FALSE
    FindCalls = {c1, c2}
    ReadCalls = {}
    UpdateCalls = {}
    FindRequests <- MCBuildFinds
    ReadRequests = {}
    UpdateRequests = {}
    DownloadCalls = {c1, c2}
    WriteCalls = {c1, c2}
    Downloads <- MCBuildDownloads
    WriteChunks <- MCBuildMessages
    Names <- MCBuildNames
    ChunkSize = 2
    Decimal <- MCDecimal
    ActionCalls = {c1, c2}
    ActionRequests <- MCBuildActions
    EncodeResult <- MCEncodeResult
    DecodeResult <- MCDecodeResult
    DecodeAction <- MCDecodeAction
    DecodeTree <- MCDecodeTree
    Clients = {c1, c2}
    Targets <- MCTargets
    Outcomes <- MCOutcomes
    UploadName <- MCUploadName
    DownloadName <- MCDownloadName
PROPERTIES
    ServesResults
INVARIANTS
    UndisturbedBuildsSucceed
    SecondBuildHits
SYMMETRY MCSymmetry
