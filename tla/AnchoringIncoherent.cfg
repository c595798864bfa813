SPECIFICATION Spec
CONSTANTS
    daemon = daemon
    nobody = nobody
    primary = primary
    mirror = mirror
    k1 = k1
    Anchorer <- OneAnchorer
    NoOne = nobody
    Chain <- OneChain
    Primary = primary
    Key <- OneKey
    MaxSize = 2
    MaxFailures = 0
INVARIANTS
    AnchorsAreCoherent
