SPECIFICATION RulesSpec
CONSTANTS
    l1 = l1
    l2 = l2
    l3 = l3
    l4 = l4
    l5 = l5
    l6 = l6
    l7 = l7
    l8 = l8
    l9 = l9
    v0 = v0
    v1 = v1
    v6 = v6
    h1 = h1
    h2 = h2
    h3 = h3
    h4 = h4
    h5 = h5
    Depth = 3
    Revocation <- MCRevocation
    Log <- MCLog
    Other = other
    Corpus <- MCCorpus
    Files <- MCFiles
    LocalName <- MCLocalName
    WithinNum = 2
    WithinDen = 3
    Tolerance = 0
    MaxAccel = 4
    None = none
    Unit = 4
    SampleTicks = 2
    MinTicks = 3
    BandDen = 10
    Exact = 1
    Near = 2
    Bins = 4
    BinWidth = 2
    Planes <- MCPlanes
    Limit = 1
    Hash <- MCHash
    Config <- MCConfig
    Gaps = {1, 2}
    Frames = {3, 5}
    Positions = {0, 1, 2}
    Speeds = {0, 8, 16}
    Motions <- MCMotions
    Earlier <- MCEarlier
    Robots <- MCRobots
    Hashes <- MCHashes
    Numbers <- MCNumbers
    Claims <- MCClaims
    Episodes <- MCEpisodes
    Lengths = {1, 2}
    Rates = {30, none}
    U32 = 100
    U64 = 200
    Wide = {0, 99, 100, 199, 200}
    BadPath <- MCBadPath
    Entries <- MCEntries
    FileSets <- MCFileSets
    Grain = 2
    HighDof = {"unitree_g1"}
    Predicates = {"on", "in"}
    Specs <- MCSpecs
    Seeds <- MCSeeds
    Order <- MCOrder
    Quote = "q"
    Slash = "s"
    Control <- MCControl
    High <- MCHigh
    Low <- MCLow
    Replacement = "fffd"
    MaxNesting = 2
    Values <- MCValues
    OrgIds <- MCOrgIds
    Secrets <- MCSecrets
    OrgKinds = {"supplier", "verifier"}
    Roles = {"supplier", "verifier"}
    Pubkeys <- MCPubkeys
    OperatorKey = "operator"
    VerifierKey = "verifier"
    Objects = {"x", "y"}
    MaxLogged = 1
    EndOfTime = 1
    Receipts <- MCReceipts
    CorpusFiles <- MCCorpusFiles
    UrlSeconds = 4
    Wallets = {"alice", "bob"}
    Minutes <- MCMinutes
    ThisMinute = 3
    ThisSecond = 0
    DefaultLimit = 2
    MaxLimit = 3
    Anchored <- MCAnchored
    Tables <- MCTables
INVARIANTS
    WrittenIsReadBack
    ScenesFollowTheTask
    OneTextPerContent
    EveryProofIsExact
    EveryReportIsExact
    VerdictsAreOfTheRecording
    DuplicatesAreFound
    DownloadsAreTheBuyers
    LatestClaimDecides
PROPERTIES
    KeysSpeakForTheirOwners
