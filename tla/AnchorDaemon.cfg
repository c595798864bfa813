SPECIFICATION FairDaemonSpec
CONSTANTS
    primary = primary
    mirror = mirror
    k1 = k1
    Primary = primary
    Mirrors <- MCMirrors
    Key <- MCKey
    PrimaryInterval = 2
    MirrorInterval = 4
    Delays <- MCDelays
    Pause <- MCPause
    MaxSize = 3
    MaxFailures = 1
PROPERTIES
    MirrorsFollowPrimary
    ChainsCatchUp
