SPECIFICATION FairDaemonSpec
CONSTANTS
    primary = primary
    mirror = mirror
    k1 = k1
    Primary = primary
    Mirrors <- MCMirrors
    Key <- MCKey
    PrimaryInterval = 2
    MirrorInterval = 4
    Delays <- MCDelays
    Pause <- MCPause
    MaxSize = 2
    MaxFailures = 1
PROPERTIES
    EveryMirrorCatchesUp
