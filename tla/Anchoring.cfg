SPECIFICATION FairSpec
CONSTANTS
    daemon = daemon
    nobody = nobody
    primary = primary
    mirror = mirror
    k1 = k1
    Anchorer <- OneAnchorer
    NoOne = nobody
    Chain <- TwoChains
    Primary = primary
    Key <- OneKey
    MaxSize = 3
    MaxFailures = 1
INVARIANTS
    AnchorsAreEarned
    RowsAreAnchors
    RevocationsAreFinal
    DivergencesAreReal
PROPERTIES
    HeadsCatchUp
